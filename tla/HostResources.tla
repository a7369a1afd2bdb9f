---------------------------- MODULE HostResources ----------------------------
(***************************************************************************)
(* One component on one host: plans, applies and removals, the scripts     *)
(* command by command, and everything that may stop them in between.       *)
(*                                                                         *)
(* An apply inspects every node, decides what to do, and then works        *)
(* through a list: scripts to run, results to verify, records to make, the *)
(* state to write.  A script may fail at any command, take a signal, or    *)
(* die; the client may go away between any two of them, and the script it  *)
(* started goes on alone.                                                  *)
(***************************************************************************)
EXTENDS BuildScripts

CONSTANTS Components,  \* the components that are tried, one at a time
          MaxEdits,    \* changes of the configuration
          MaxFaults,   \* failures, signals, deaths and lost answers
          MaxDrifts,   \* changes that others make on the host
          MaxTroubles  \* all of them

VARIABLES component,   \* which component it is
          config,      \* what is configured: presence, version, protection
          host,        \* the cells of the host
          script,      \* the script that runs on the host
          todo,        \* what the apply has left to do
          draft,       \* the state the apply works on
          record,      \* the state that is stored
          status,      \* "ready", "running", "failed" or "done"
          edits, faults, drifts,
          hit,         \* whether a fault met the present apply
          history      \* what has happened, for the properties

vars == <<component, config, host, script, todo, draft, record, status, edits, faults, drifts, hit, history>>

ArtifactKinds == {"file", "ca", "archive"}
ArtifactNodes == {"source"} \union ArtifactKinds

Nodes(k) ==
    CASE k \in ArtifactKinds -> << "source", k >>
      [] k \in BuildKinds    -> BuildNodes
      [] OTHER               -> NativeNodes(k)

ProtectionsOf(k) ==
    CASE k \in ArtifactKinds       -> Protections
      [] k \in {"plain", "docker"} -> {"open", "secret"}
      [] OTHER                     -> {"open"}

Configs == [present : BOOLEAN, version : Versions, protection : ProtectionsOf(component)]
NoRecord == [wish |-> <<None, None>>, identity |-> None, hidden |-> FALSE]
Idle == [call |-> <<>>, at |-> 0, mode |-> "idle", back |-> 0]

Variables == ArtifactVariables \union NativeVariables \union BuildVariables
Temporaries == ArtifactTemporaries \union NativeTemporaries \union BuildTemporaries
Cells ==
    CASE component \in ArtifactKinds -> ArtifactCells
      [] component \in BuildKinds    -> BuildCells
      [] OTHER                       -> NativeCells[component] \union NativeVariables \union NativeTemporaries

\* Every call there can be, and its script.
Arguments == Places \union {None}
Program ==
    [call \in ArtifactScriptNames \X Arguments \X Arguments |-> ArtifactProgram(call[1], call[2], call[3])] @@
    [call \in NativeScriptNames \X Arguments \X Arguments |-> NativeProgram(call[1], call[2], call[3])] @@
    [call \in {"delete"} \X {None} \X NativeDeleted |-> NativeProgram(call[1], call[2], call[3])] @@
    [call \in BuildScriptNames \X {None} \X Versions |-> BuildProgram(call[1], call[2], call[3])]

-----------------------------------------------------------------------------
(* The provider, by the kind of the node.                                  *)

InBuild(n) == n \in ToSet(BuildNodes)

Wish(n) == IF n \in ArtifactNodes THEN ArtifactWish(config) ELSE NativeWish(n, config)
Protected(n) == IF n \in ArtifactNodes THEN NodeProtected(n, config) ELSE WriteOnly(n, config)
Triggers(n) == NativeTriggers(n) \union BuildTriggers(n)

Identity(n) ==
    CASE n \in ArtifactNodes -> ArtifactIdentity(n, config)
      [] InBuild(n)          -> config.version
      [] OTHER               -> None

\* Whose changes it was triggered by only matters to what an apply runs.
ResourceOf(n, triggered) ==
    CASE n \in ArtifactNodes -> ArtifactResource(n, config, host, record[n].identity)
      [] InBuild(n)          -> BuildResource(n, component, config, host, record[n].identity)
      [] OTHER               -> NativeResource(n, config, host, record[n].wish[1], triggered)

Inspect(n) == ResourceOf(n, FALSE).seen
Deleting(n) == ResourceOf(n, FALSE).deleting

Migrating(n) ==
    IF n \in ArtifactNodes THEN ArtifactMigrating(n, config, record[n].identity) ELSE <<>>

-----------------------------------------------------------------------------
(* Planning.                                                               *)

\* A record made before the node was protected says too much.
Reclassified(n) == record[n] # NoRecord /\ Protected(n) /\ ~record[n].hidden

\* The record a plan starts from: of a reclassified node only the new
\* cleanup identity is left.
Prior(n) ==
    IF Reclassified(n) THEN [wish |-> <<None, None>>, identity |-> Identity(n), hidden |-> TRUE]
    ELSE record[n]

\* What is recorded under another identity has to be cleaned up.
CleanupPending(n) == n \in ArtifactNodes /\ record[n].identity \notin {None, Identity(n)}

\* The change of a node by itself.  What is written only is not compared.
OwnChange(n) ==
    LET seen == Inspect(n)
        same == record[n] # NoRecord /\ Prior(n).wish = Wish(n)
    IN  CASE seen = "missing"                                  -> "create"
          [] seen = "different"                                -> "update"
          [] n \notin ArtifactNodes /\ WriteOnly(n, config) /\ ~same -> "update"
          [] CleanupPending(n)                                 -> "update"
          [] same                                              -> "no-op"
          [] OTHER                                             -> "adopt"

\* Bug: only what is new triggers.
TriggeredByNew(n, changes) == \E t \in Triggers(n) : changes[t] = "create"

\* A node whose triggers change runs again, and the update of apk also when
\* a key or a repository is only adopted.
Triggered(n, changes) ==
    \E t \in Triggers(n) : changes[t] \in {"create", "update"} \/ (n = "apk update" /\ changes[t] = "adopt")

Changes ==
    LET ns == Nodes(component)
        with[i \in 0 .. Len(ns)] ==
            IF i = 0 THEN <<>>
            ELSE LET own == OwnChange(ns[i]) IN
                 ns[i] :> (IF own \in {"no-op", "adopt"} /\ Triggered(ns[i], with[i - 1]) THEN "update" ELSE own)
                 @@ with[i - 1]
    IN  with[Len(ns)]

Item(what, n, call) == [what |-> what, node |-> n, call |-> call]
Runnings(n, calls) == [i \in DOMAIN calls |-> Item("run", n, calls[i])]

\* An inspection that finds what nobody should have left ends the plan.
Planned == config.present => \A n \in DOMAIN record : Inspect(n) # "error"

\* A workspace is prepared, and its dependencies are not: the output that
\* stands verified satisfies them.
Barren ==
    /\ component \in BuildKinds
    /\ Changes["build workspace"] \in {"create", "update"}
    /\ Changes["build dependencies"] \in {"no-op", "adopt"}

\* What is made of an artifact is verified before the earlier one goes.
Applying(n, changes) ==
    LET calls == Runnings(n, ResourceOf(n, Triggered(n, changes)).applying) IN
    IF n \notin ArtifactNodes THEN calls
    ELSE calls \o << Item("verify", n, <<>>) >> \o Runnings(n, Cleaning(n, config, record[n].identity))

\* What the client still does when a step has failed.
Failing(n) ==
    LET calls == IF config.present THEN BuildFailing(n, component, config) ELSE <<>> IN
    IF calls = <<>> THEN <<>> ELSE Runnings("failure", calls) \o << Item("fail", None, <<>>) >>

Steps(n, changes) ==
    CASE changes[n] \in {"create", "update"} -> Applying(n, changes) \o << Item("record", n, <<>>) >>
      [] changes[n] = "adopt"                -> << Item("record", n, <<>>) >>
      [] OTHER                               -> <<>>

\* Docker is declared to be absent, and what there is of it goes, recorded or
\* not; everything else leaves with its declaration.
Leaves(n) == IF component = "docker" THEN Inspect(n) # "missing" ELSE record[n] # NoRecord
Removals(n) ==
    (IF Leaves(n) THEN Runnings(n, Deleting(n)) ELSE <<>>) \o
    (IF record[n] = NoRecord THEN <<>> ELSE << Item("forget", n, <<>>) >>)

\* Identities move, and the state is written without what is protected now,
\* before any step.
Prewrite ==
    LET ns == SelectSeq(Nodes(component), Reclassified) IN
    IF ns = <<>> THEN <<>>
    ELSE FlattenSeq([i \in DOMAIN ns |-> Runnings(ns[i], Migrating(ns[i]))]) \o << Item("write", None, <<>>) >>

Plan ==
    LET ns == Nodes(component)
        changes == Changes
        before == IF config.present THEN Prewrite ELSE <<>>
        steps == FlattenSeq([i \in DOMAIN ns |->
                     IF config.present THEN Steps(ns[i], changes) ELSE Removals(Reverse(ns)[i])])
    IN  before \o steps \o
        (IF before # <<>> /\ steps = <<>> THEN <<>> ELSE << Item("write", None, <<>>) >>) \o
        << Item("finish", None, <<>>) >>

-----------------------------------------------------------------------------
(* Applying.                                                               *)

\* What may be on a host before: another's file, a value of the kernel.
Foreign == {Path, Repositories, SysctlFile, Sysctl, HostnameFile, Hostname, Localtime, DaemonJson, Compose}

Init ==
    /\ component \in Components
    /\ config \in {c \in Configs : c.present /\ c.version = CHOOSE v \in Versions : TRUE}
    /\ host \in {[c \in Cells |-> IF c \in Foreign THEN x ELSE None] : x \in {None, Junk}}
    /\ script = Idle
    /\ todo = <<>>
    /\ record = [n \in ToSet(Nodes(component)) |-> NoRecord]
    /\ draft = record
    /\ status = "ready"
    /\ edits = 0 /\ faults = 0 /\ drifts = 0 /\ hit = FALSE
    /\ history = [places |-> {}, mixed |-> FALSE, installed |-> FALSE, loose |-> FALSE, barren |-> FALSE]

Fault == faults < MaxFaults /\ edits + faults + drifts < MaxTroubles /\ faults' = faults + 1 /\ hit' = TRUE
NoFault == UNCHANGED <<faults, hit>>
Outside == <<component, config, edits, drifts>>

Next1(what) == status = "running" /\ Head(todo).what = what

\* The apply is over; a script that runs is left alone.
Abort == status' = "failed" /\ todo' = <<>>

\* A step has failed, and the client knows.
Fail ==
    LET after == Failing(Head(todo).node) IN
    IF after = <<>> THEN Abort ELSE todo' = after /\ status' = status

Begin ==
    /\ status \in {"ready", "failed"}
    /\ script = Idle
    /\ IF Planned THEN status' = "running" /\ todo' = Plan ELSE Abort
    /\ draft' = [n \in DOMAIN record |-> IF config.present THEN Prior(n) ELSE record[n]]
    /\ history' = [history EXCEPT !.installed = @ /\ config.present, !.barren = Planned /\ config.present /\ Barren]
    /\ hit' = FALSE
    /\ UNCHANGED <<host, script, record, faults, Outside>>

Failed ==
    /\ Next1("fail")
    /\ Abort
    /\ UNCHANGED <<host, script, draft, record, faults, hit, history, Outside>>

Verify ==
    /\ Next1("verify")
    /\ \/ Inspect(Head(todo).node) = "as wanted" /\ todo' = Tail(todo) /\ status' = status
       \/ Inspect(Head(todo).node) # "as wanted" /\ Abort
    /\ UNCHANGED <<host, script, draft, record, faults, hit, history, Outside>>

Record ==
    /\ Next1("record")
    /\ LET n == Head(todo).node IN
       draft' = [draft EXCEPT ![n] = [wish |-> Wish(n), identity |-> Identity(n), hidden |-> Protected(n)]]
    /\ todo' = Tail(todo)
    /\ UNCHANGED <<host, script, record, status, faults, hit, history, Outside>>

Forget ==
    /\ Next1("forget")
    /\ draft' = [draft EXCEPT ![Head(todo).node] = NoRecord]
    /\ todo' = Tail(todo)
    /\ UNCHANGED <<host, script, record, status, faults, hit, history, Outside>>

\* The state is written; the answer may get lost.
Write ==
    /\ Next1("write")
    /\ record' = draft
    /\ history' = [history EXCEPT !.places = @ \union {<<n, draft[n].identity>> : n \in {m \in DOMAIN draft : draft[m] # NoRecord}}]
    /\ \/ todo' = Tail(todo) /\ status' = status /\ NoFault
       \/ Fault /\ Abort
    /\ UNCHANGED <<host, script, draft, Outside>>

Finish ==
    /\ Next1("finish")
    /\ status' = "done"
    /\ todo' = <<>>
    /\ history' = [history EXCEPT !.installed = config.present, !.loose = FALSE]
    /\ UNCHANGED <<host, script, draft, record, faults, hit, Outside>>

\* The client goes away, or loses its connection.
BreakOff ==
    /\ status = "running"
    /\ Fault
    /\ Abort \/ (script = Idle /\ Fail)
    /\ UNCHANGED <<host, script, draft, record, history, Outside>>

-----------------------------------------------------------------------------
(* A script on the host.                                                   *)

\* The host after a script: its variables are gone, what it had under a
\* random name is out of reach, and a prior tree among that is remembered.
Ended(m) ==
    [c \in Cells |->
        IF c \in Variables \union Temporaries THEN None
        ELSE IF c = Left THEN IF m[Old] # None THEN m[Old] ELSE IF m[PriorFile] # None THEN m[PriorFile] ELSE m[c]
        ELSE m[c]]

Body == Program[script.call].body
Trap == Program[script.call].trap
Commands == IF script.mode = "body" THEN Body ELSE Trap
Current == Commands[script.at]
Over == script.at > Len(Commands)
Armed == Trap # <<>> /\ script.at > Program[script.call].armed

\* The exit status reaches the client that still waits for it.
Exits(ok) ==
    /\ script' = Idle
    /\ host' = Ended(host)
    /\ IF status # "running" THEN UNCHANGED <<status, todo>>
       ELSE IF ok THEN todo' = Tail(todo) /\ status' = status
       ELSE Fail

\* The first command from i on that runs in memory m, or the end.
Onward(m, commands, i) == Min({j \in i .. Len(commands) : Runs(m, commands[j])} \union {Len(commands) + 1})
Advance == script' = [script EXCEPT !.at = Onward(host', Commands, @ + 1)]
InTrap(mode, back) == script' = [script EXCEPT !.at = Onward(host', Trap, 1), !.mode = mode, !.back = back]

\* A failing command ends the script, by way of its trap; in the trap the
\* next command follows.
Fails ==
    /\ IF script.mode # "body" THEN Advance
       ELSE IF Armed THEN InTrap("trap", 0)
       ELSE script' = [script EXCEPT !.at = Len(Trap) + 1, !.mode = "trap"]
    /\ UNCHANGED <<status, todo>>

StartScript ==
    /\ Next1("run")
    /\ script = Idle
    /\ host' = host
    /\ LET call == Head(todo).call IN
       script' = [call |-> call, at |-> Onward(host, Program[call].body, 1), mode |-> "body", back |-> 0]
    /\ history' = [history EXCEPT !.mixed = @ \/ Head(todo).call[1] = "install"]
    /\ UNCHANGED <<todo, draft, record, status, faults, hit, Outside>>

Runnable == script # Idle /\ ~Over
Quiet == UNCHANGED <<draft, record, Outside>>

CommandSucceeds ==
    /\ Runnable
    /\ ~Refuses(host, Current) /\ Current.op # "exit"
    /\ host' = Effect(host, Current)
    /\ Advance
    /\ UNCHANGED <<todo, status, faults, hit, history>> /\ Quiet

CommandRefuses ==
    /\ Runnable
    /\ Refuses(host, Current)
    /\ host' = host
    /\ Fails
    /\ UNCHANGED <<faults, hit, history>> /\ Quiet

\* What a failure must meet to cost an archive both its trees: the trap of a
\* public one, putting the prior tree back, or the removal of the prior tree of
\* a protected one, whose trap then takes the new one for what has failed.
Irrecoverable ==
    \/ script.call[1] = "unpack" /\ script.mode # "body" /\ Current.op = "move"
    \/ script.call[1] = "unpack protected" /\ script.mode = "body" /\ Current = Held(RmTree(Old))

\* A command fails for a reason of its own; assignments do not.
CommandFails ==
    /\ Runnable
    /\ ~Refuses(host, Current)
    /\ Current.op \notin {"need", "exit", "rmdir"}
    /\ Current.a \notin Variables
    /\ Fault
    /\ host' \in Remains(host, Current)
    /\ history' = [history EXCEPT !.loose = @ \/ Irrecoverable, !.mixed = @ \/ script.mode = "trap"]
    /\ Fails
    /\ Quiet

ExitsEarly ==
    /\ Runnable
    /\ Current.op = "exit"
    /\ Exits(TRUE)
    /\ UNCHANGED <<faults, hit, history>> /\ Quiet

\* The end of the script, or of its trap.
ScriptEnds ==
    /\ script # Idle /\ Over
    /\ \/ script.mode = "aside"
          /\ script' = [script EXCEPT !.at = Onward(host, Body, script.back), !.mode = "body", !.back = 0]
          /\ UNCHANGED <<host, todo, status>>
       \/ script.mode = "body" /\ Exits(TRUE)
       \/ script.mode = "trap" /\ Exits(FALSE)
    /\ UNCHANGED <<faults, hit, history>> /\ Quiet

\* And a signal: a public archive is aside, and its script has not noted it.
Unnoticed == script.call[1] = "unpack" /\ ~Over /\ host[Old] # None /\ host[Path] = None /\ host[Replaced] = None

\* HUP, INT or TERM where the script takes it.
Signal ==
    /\ script # Idle /\ script.mode = "body" /\ Armed
    /\ ~Over => ~Current.held
    /\ Fault
    /\ host' = host
    /\ IF Program[script.call].returns THEN InTrap("aside", script.at) ELSE InTrap("trap", 0)
    /\ history' = [history EXCEPT !.loose = @ \/ Unnoticed]
    /\ UNCHANGED <<todo, status>> /\ Quiet

\* SIGKILL: the script leaves everything as it is.
Kill ==
    /\ script # Idle
    /\ Fault
    /\ Exits(FALSE)
    /\ history' = [history EXCEPT !.mixed = @ \/ script.call[1] = "install ca"]
    /\ Quiet

-----------------------------------------------------------------------------
(* What others do.                                                         *)

\* What the declaration asks for.
Effects ==
    IF component \in ArtifactKinds
    THEN [c \in {Path, Cache(Place(config))} \union (IF component = "ca" THEN {Trust} ELSE {}) |-> config.version]
    ELSE IF component \in BuildKinds THEN BuildEffects(component, config.version)
    ELSE NativeEffects(component, config.version)

Resting == status # "running" /\ script = Idle

Edit ==
    /\ Resting /\ edits < MaxEdits /\ edits + faults + drifts < MaxTroubles
    /\ edits' = edits + 1
    /\ config' \in Configs \ {config}
    /\ status' = "ready"
    /\ history' = [history EXCEPT !.places =
          IF status = "done" THEN {<<n, record[n].identity>> : n \in {m \in DOMAIN record : record[m] # NoRecord}} ELSE @]
    /\ UNCHANGED <<component, host, script, todo, draft, record, faults, drifts, hit>>

\* One thing is removed or overwritten.  A user and a group leave with the memberships;
\* the trust store is refreshed after a certificate has changed, or not.
Drift ==
    /\ Resting /\ drifts < MaxDrifts /\ edits + faults + drifts < MaxTroubles
    /\ drifts' = drifts + 1
    /\ \E c \in DOMAIN Effects, x \in {None, Junk}, refreshed \in BOOLEAN :
          /\ c # Trust /\ None \notin {host[c], Effects[c]}
          /\ x = Junk => Effects[c] \in Versions
          /\ refreshed => component = "ca" /\ c = Path
          /\ host' = [d \in Cells |->
                IF d = c \/ (refreshed /\ d = Trust) \/ (c \in {UserEntry, GroupEntry} /\ x = None /\ d = Member) THEN x ELSE host[d]]
    /\ status' = "ready"
    /\ history' = [history EXCEPT !.installed = FALSE]
    /\ UNCHANGED <<component, config, script, todo, draft, record, edits, faults, hit>>

Apply == Begin \/ Failed \/ Verify \/ Record \/ Forget \/ Write \/ Finish \/ StartScript
Host == CommandSucceeds \/ CommandRefuses \/ ExitsEarly \/ ScriptEnds
Faults == BreakOff \/ CommandFails \/ Signal \/ Kill
Next == Apply \/ Host \/ Faults \/ Edit \/ Drift

Spec == Init /\ [][Next]_vars

-----------------------------------------------------------------------------
(* Properties.                                                             *)

Wanted == config.present /\ status = "done"

\* What no inspection looks at.
Unseen ==
    CASE component = "account" -> {Home}
      [] component = "apk"     -> {Index(config.version)}
      [] component = "service" -> {Runlevel(v) : v \in Versions \ {config.version}}
      [] component = "docker"  -> {Daemon, Containers} \union
                                  IF config.protection = "secret" THEN {DaemonJson, Compose, Env} ELSE {}
      [] component = "hook"    -> {Output, OutputMarker}
      [] component = "plain"   -> IF config.protection = "secret" THEN {Path} ELSE {}
      [] component = "ca"      -> IF history.mixed THEN {Trust} ELSE {}
      [] OTHER                 -> {}

\* The keys of a user whose uid changes are planned before the change.
Outdated == IF component = "account" /\ edits > 0 THEN {"authorized key"} ELSE {}

\* A protected input does not outlive the build, and is wanted again.
Transient == IF component = "protected build" THEN {"build input"} ELSE {}

\* After an apply that succeeded, whatever happened in the ones before it, a
\* plan finds nothing to do, and the host is what the declaration asks for:
\* only what no inspection looks at may be behind after a fault, and the keys
\* of a user whose uid has changed (planNode, executeHost and every script
\* with the inspection that judges what it left).
CompletedHolds ==
    Wanted =>
        /\ \A n \in DOMAIN record \ (Outdated \union Transient) : OwnChange(n) = "no-op"
        /\ \A c \in DOMAIN Effects :
              \/ host[c] = Effects[c]
              \/ c \in Unseen /\ (faults + drifts > 0 \/ (component = "service" /\ edits > 1))
              \/ c \in {SshDir, Keys} /\ Outdated # {}

\* A build is removed when its markers say that it is the one recorded.
Stranded ==
    /\ component \in BuildKinds /\ ~config.present
    /\ LET u == record["build install"].identity IN
       \/ drifts > 0
       \/ host[InstallMarker] \notin {None, u}
       \/ u # None /\ host[OutputCache(u)] = None /\ host[CacheMarker(u)] # None

\* Without its daemon, Docker brings no project down.
Obstructed == component = "docker" /\ ~config.present /\ host[Daemon] = None /\ host[Compose] # None

\* Two identities of one artifact: the migration refuses to choose.
Blocked ==
    /\ config.present
    /\ \E n \in DOMAIN record \intersect {"source", "ca"} :
          LET at == IF n = "source" THEN Cache(record[n].identity) ELSE Marker(record[n].identity)
              new == IF n = "source" THEN Cache(Hidden) ELSE Marker(Hidden)
          IN  /\ Reclassified(n) /\ CleanupPending(n)
              /\ host[new] # None /\ (host[at] # None \/ host[new] = Constant)

\* An apply that no fault meets succeeds, whatever earlier ones left on the
\* host: no script refuses the debris of another, or of itself, but in the
\* four cases named above (the checks at the start of every script, and the
\* traps that clear what a later check would refuse).
RetryCompletes == status = "failed" => hit \/ Obstructed \/ Blocked \/ Stranded \/ history.barren

\* After an apply that succeeded nothing is left of what was once recorded
\* and is not wanted any more: caches and trust markers under an earlier
\* identity, what a removed declaration had made, and the workspace, packages
\* and caches of a build (applyComponentSource, cleanupPriorComponentCA, the
\* Delete of every provider, deleteComponentBuild); but the .env of a project
\* whose removal was cut off just after its compose.yaml.
NothingLeft ==
    status = "done" =>
        /\ \A p \in Places \ IF config.present THEN {Place(config)} ELSE {} :
              /\ <<"source", p>> \in history.places => host[Cache(p)] = None
              /\ <<"ca", p>> \in history.places => host[Marker(p)] = None
        /\ ~config.present =>
              \A place \in history.places :
                  place[1] \notin ArtifactNodes \union ToSet(BuildNodes) =>
                      \A c \in NativeRemoved(place[1]) : host[c] = None \/ (c = Env /\ faults > 0)
        /\ component \in BuildKinds =>
              \A place \in history.places :
                  ~config.present \/ (place[2] # config.version /\ faults = 0) =>
                      \A c \in BuildRemoved(place[1], place[2]) \ DOMAIN Effects : host[c] = None

\* What was installed once stays until it is removed: whatever fails, is killed
\* or is signalled, some version of it is there, of an artifact at its path or
\* where the script has put it aside, of a build at its path (the order of the
\* renames, and the traps that undo them).  "failures leave the previous
\* installation intact" (docs/components.md:219): but of an archive not when a
\* signal comes between `mv` and `replaced=1`, when the trap of a public archive
\* cannot move the prior tree back and removes it, or when the removal of the
\* prior tree of a protected one fails half way (history.loose,
\* component_archive.go:93-101, 171-177, 387-393, 500-501).
PriorKept ==
    history.installed =>
        /\ component \in ArtifactKinds /\ ~history.loose =>
              \E c \in {Path, Old, PriorFile, Left} : host[c] \in Versions
        /\ component \in BuildKinds => host[Path] \in Versions

\* The packages of a build, and its workspace, are never there without the
\* marker from which a later cleanup knows them, however a build is broken
\* off (componentBuildDependenciesApplyScript, the order in which the cleanup
\* removes things).
BuildClaimed ==
    component \in BuildKinds =>
        /\ host[Virtual] # None => host[DepMarker] # None
        /\ \A v \in Versions : host[Workspace(v)] # None => host[DepMarker] = v
=============================================================================
