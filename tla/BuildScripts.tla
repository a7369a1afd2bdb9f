---------------------------- MODULE BuildScripts ----------------------------
(***************************************************************************)
(* A component that is built from source on the host: inputs are staged,   *)
(* the packages that the build depends on are added under one virtual      *)
(* package, a workspace is prepared and the commands run in it, the output *)
(* is verified and cached, everything the build needed is cleaned up, and  *)
(* the output is installed.                                                *)
(*                                                                         *)
(* A version stands for the identity of the build, a digest over all that  *)
(* goes into it; paths under that digest have a cell for each version.     *)
(* There is one input, one command and one workspace root, at least one    *)
(* package, and `on_remove = "destroy"`.  The processes that a command     *)
(* starts are in BuildRuntime: here their directory is there, or not.      *)
(***************************************************************************)
EXTENDS NativeScripts, SequencesExt

\* A build from a public input, and one from a protected input, which is
\* staged under /run and does not outlive the build.
BuildKinds == {"build", "protected build"}

Input(v)         == <<"input", v>>
DepMarker        == <<"dependency marker">>
Virtual          == <<"virtual package">>
Workspace(v)     == <<"workspace", v>>
Runtime          == <<"build runtime">>
OutputCache(v)   == <<"output cache", v>>
CacheMarker(v)   == <<"output cache marker", v>>
InstallMarker    == <<"install marker">>
MarkerTmp        == <<"marker_tmp">>
WorkspaceCreated == <<"$workspace_created">>
HadCache         == <<"$had_cache">>

BuildVariables == {Owned, WorkspaceCreated, HadCache}
BuildTemporaries == {Tmp, MarkerTmp}
BuildCells ==
    {Path, DepMarker, Virtual, Runtime, InstallMarker} \union
    UNION {{Input(v), Workspace(v), OutputCache(v), CacheMarker(v)} : v \in Versions} \union
    BuildVariables \union BuildTemporaries

BuildNodes ==
    << "build input", "build dependencies", "build workspace", "build output", "build cleanup", "build install" >>

BuildTriggers(n) ==
    CASE n = "build workspace"                     -> {"build input", "build dependencies"}
      [] n = "build output"                        -> {"build workspace"}
      [] n \in {"build cleanup", "build install"} -> {"build output"}
      [] OTHER                                     -> {}

-----------------------------------------------------------------------------
(* The scripts.                                                            *)

InputWrite(v) == Rewriting(<< Need(Input(v), Content) >>, v, Input(v), <<>>)

\* A workspace: a bare directory, with the marker of its owner, with its
\* inputs, with the output, and ready.  A torn one is junk.
Marked == {"marked", "prepared", "built", "ready"}

\* The workspace that the dependency marker names goes, marked or not.
RemoveClaimed == SetToSeq({When(DepMarker, {u}, RmTree(Workspace(u))) : u \in Versions})

\* Bug: the marker is written when the packages are there.
DependenciesApplyLate(v) ==
    LET before ==
          << Drop(Runtime) >> \o RemoveClaimed \o
          << IfUnset(DepMarker, Need(Virtual, {None})), IfSet(Virtual, Drop(Virtual)), Put(Tmp, Part) >>
    IN  Script(
          before \o << Put(Tmp, v), Put(Virtual, Yes), Need(Virtual, {Yes}), Move(Tmp, DepMarker) >>,
          << Drop(Tmp), IfSet(Virtual, Drop(Virtual)), IfUnset(Virtual, Drop(DepMarker)) >>,
          Len(before), FALSE)

\* The marker is there before the packages are, and leaves after them.
DependenciesApply(v) ==
    LET before ==
          << Drop(Runtime) >> \o RemoveClaimed \o
          << IfUnset(DepMarker, Need(Virtual, {None})), IfSet(Virtual, Drop(Virtual)), Put(Tmp, Part) >>
    IN  Script(
          before \o << Put(Tmp, v), Move(Tmp, DepMarker), Put(Virtual, Yes), Need(Virtual, {Yes}) >>,
          << Drop(Tmp), IfSet(Virtual, Drop(Virtual)), IfUnset(Virtual, Drop(DepMarker)) >>,
          Len(before), FALSE)

WorkspacePrepare(v) ==
    LET before == << Need(DepMarker, {v}), Drop(Runtime), RmTree(Workspace(v)) >>
    IN  Script(
          before \o
          << Put(Workspace(v), "bare"),
             Put(WorkspaceCreated, Yes),
             Put(Workspace(v), "marked"),
             Need(Input(v), {v}),
             Put(Workspace(v), "prepared") >>,
          << IfSet(WorkspaceCreated, RmTree(Workspace(v))) >>,
          Len(before), FALSE)

\* The directory of the processes is made, and leaves in the trap that the
\* script takes in any case.
BuildCommand(v) ==
    Script(
      << Need(Workspace(v), Marked \ {"marked"}),
         Need(Runtime, {None}),
         Put(Runtime, Yes),
         Put(Workspace(v), "built"),
         Drop(Runtime) >>,
      << Drop(Runtime) >>, 1, FALSE)

WorkspaceReady(v) == Plain(<< Need(Workspace(v), {"built"}), Put(Tmp, v), Put(Workspace(v), "ready") >>)

\* The cache is replaced, and then its marker.
OutputApply(v) ==
    Script(
      << Need(Workspace(v), {"built", "ready"}),
         Put(Tmp, Part),
         Put(MarkerTmp, Part),
         Put(Tmp, v),
         Put(MarkerTmp, v),
         Move(Tmp, OutputCache(v)),
         Move(MarkerTmp, CacheMarker(v)) >>,
      << Drop(Tmp), Drop(MarkerTmp) >>, 3, TRUE)

\* Everything that the marker claims goes, and the marker last.
BuildCleanup(v, inputs) ==
    Plain(
      << Drop(Runtime), IfSet(DepMarker, Put(Owned, Yes)) >> \o RemoveClaimed \o
      << IfUnset(Owned, Need(Virtual, {None})),
         IfSet(Virtual, Drop(Virtual)),
         Unless(DepMarker, {v}, Need(Workspace(v), Marked \union {None})),
         Unless(DepMarker, {v}, RmTree(Workspace(v))) >> \o
      SetToSeq({Drop(c) : c \in inputs}) \o
      << IfSet(Owned, Drop(DepMarker)) >>)

BuildInstall(v) ==
    Script(
      << Need(OutputCache(v), {v}),
         Need(CacheMarker(v), {v}),
         Put(Tmp, Part),
         Put(MarkerTmp, Part),
         Copy(OutputCache(v), Tmp),
         Need(Tmp, {v}),
         Put(MarkerTmp, v),
         Held(Move(MarkerTmp, InstallMarker)),
         Held(Move(Tmp, Path)) >>,
      << Drop(Tmp), Drop(MarkerTmp) >>, 4, TRUE)

\* Only what the markers say is the tool's is destroyed.
BuildInstallDelete(u) ==
    Plain(
      << IfUnset(InstallMarker, Need(Path, {None})),
         IfSet(InstallMarker, Need(InstallMarker, {u})),
         IfSet(InstallMarker, Need(Path, {None, u})),
         IfSet(InstallMarker, Drop(Path)),
         IfSet(OutputCache(u), Put(HadCache, Yes)),
         IfSet(HadCache, Need(CacheMarker(u), {u})),
         IfSet(HadCache, Need(OutputCache(u), {u})),
         IfSet(HadCache, Drop(OutputCache(u))),
         IfSet(HadCache, Drop(CacheMarker(u))),
         IfUnset(HadCache, Need(CacheMarker(u), {None})),
         Drop(InstallMarker) >>)

-----------------------------------------------------------------------------
(* What the provider makes of them.                                        *)

Verified(v, m) == m[OutputCache(v)] = v /\ m[CacheMarker(v)] = v

SeenInput(v, m) == Seen(m[Input(v)], v)

\* A verified output satisfies what made it.
SeenDependencies(v, m) ==
    IF m[Virtual] # None /\ m[DepMarker] = None THEN "error"
    ELSE IF Verified(v, m) THEN "as wanted"
    ELSE Whole(m[Virtual] = None, m[Virtual] # None /\ m[DepMarker] = v)

SeenWorkspace(v, m) ==
    IF Verified(v, m) \/ m[Workspace(v)] = "ready" THEN "as wanted"
    ELSE IF m[Workspace(v)] \in {"bare", Junk} /\ m[DepMarker] # v THEN "error"
    ELSE "missing"

SeenOutput(v, m) == IF Verified(v, m) THEN "as wanted" ELSE "missing"

SeenClean(k, v, m) ==
    IF /\ m[CacheMarker(v)] = v
       /\ \A x \in {Runtime, DepMarker, Workspace(v), Virtual} : m[x] = None
       /\ k = "protected build" => m[Input(v)] = None
    THEN "as wanted" ELSE "missing"

SeenBuildInstall(v, m) == Whole(m[Path] = None, m[Path] = v /\ m[InstallMarker] = v /\ m[CacheMarker(v)] = v)

CleanupCall(k, v) == <<IF k = "build" THEN "build cleanup" ELSE "protected build cleanup", None, v>>

\* What was recorded under another identity goes after the new one is there.
Previous(v, recorded, calls) == IF recorded \in {None, v} THEN <<>> ELSE calls

InputResource(v, m, recorded) ==
    LET drop == Calls("drop input", recorded) IN
    Resource(SeenInput(v, m), Calls("build input", v) \o Previous(v, recorded, drop), drop)

DependenciesResource(v, m, recorded) ==
    Resource(SeenDependencies(v, m), Calls("build dependencies", v), Calls("build cleanup", recorded))

WorkspaceResource(v, m) ==
    Resource(SeenWorkspace(v, m), Calls("build prepare", v) \o Calls("build command", v) \o Calls("build ready", v), <<>>)

OutputResource(v, m, recorded) ==
    LET drop == Calls("drop output", recorded) \o Calls("drop output marker", recorded) IN
    Resource(SeenOutput(v, m), Calls("build output", v) \o Previous(v, recorded, drop), drop)

CleanupResource(k, v, m) == Resource(SeenClean(k, v, m), << CleanupCall(k, v) >>, <<>>)

BuildInstallResource(v, m, recorded) ==
    Resource(SeenBuildInstall(v, m), Calls("build install", v), Calls("delete build install", recorded))

\* Of a node of kind k in configuration c on host m, recorded under an
\* identity.
BuildResource(n, k, c, m, recorded) ==
    CASE n = "build input"        -> InputResource(c.version, m, recorded)
      [] n = "build dependencies" -> DependenciesResource(c.version, m, recorded)
      [] n = "build workspace"    -> WorkspaceResource(c.version, m)
      [] n = "build output"       -> OutputResource(c.version, m, recorded)
      [] n = "build cleanup"      -> CleanupResource(k, c.version, m)
      [] n = "build install"      -> BuildInstallResource(c.version, m, recorded)

\* What runs when one of these fails.
BuildFailing(n, k, c) ==
    IF n \in {"build workspace", "build output"} THEN << CleanupCall(k, c.version) >> ELSE <<>>

BuildScriptNames ==
    {"build input", "build dependencies", "build prepare", "build command", "build ready", "build output",
     "build cleanup", "protected build cleanup", "build install", "delete build install",
     "drop input", "drop output", "drop output marker"}

BuildProgram(name, u, v) ==
    CASE name = "build input"             -> InputWrite(v)
      [] name = "build dependencies"      -> DependenciesApply(v)
      [] name = "build prepare"           -> WorkspacePrepare(v)
      [] name = "build command"           -> BuildCommand(v)
      [] name = "build ready"             -> WorkspaceReady(v)
      [] name = "build output"            -> OutputApply(v)
      [] name = "build cleanup"           -> BuildCleanup(v, {})
      [] name = "protected build cleanup" -> BuildCleanup(v, {Input(v)})
      [] name = "build install"           -> BuildInstall(v)
      [] name = "delete build install"    -> BuildInstallDelete(v)
      [] name = "drop input"              -> Plain(<< Drop(Input(v)) >>)
      [] name = "drop output"             -> Plain(<< Drop(OutputCache(v)) >>)
      [] name = "drop output marker"      -> Plain(<< Drop(CacheMarker(v)) >>)

\* What a build leaves: what it installed and what it needs to see that it
\* did, and nothing of the rest.
BuildEffects(k, v) ==
    Path :> v @@ InstallMarker :> v @@ OutputCache(v) :> v @@ CacheMarker(v) :> v @@
    Input(v) :> (IF k = "build" THEN v ELSE None) @@
    [c \in {DepMarker, Virtual, Runtime} \union {Workspace(u) : u \in Versions} |-> None]

BuildRemoved(n, u) ==
    CASE n = "build input"        -> {Input(u)}
      [] n = "build dependencies" -> {DepMarker, Virtual, Workspace(u)}
      [] n = "build output"       -> {OutputCache(u), CacheMarker(u)}
      [] n = "build install"      -> {Path, InstallMarker}
      [] OTHER                    -> {}
=============================================================================
