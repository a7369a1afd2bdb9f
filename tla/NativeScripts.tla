---------------------------- MODULE NativeScripts ----------------------------
(***************************************************************************)
(* The resources of Alpine itself: files and directories, accounts, apk,   *)
(* the kernel, hostname and time zone, OpenRC services, Docker, and the    *)
(* scripts that run when a file changes.                                   *)
(*                                                                         *)
(* A kind is a set of resources that are declared together, and its nodes  *)
(* are in the order in which they depend on each other.  A version stands  *)
(* for what is declared of a node: a content, a uid, a value, a runlevel.  *)
(* A command that is refused because of what somebody else owns (a gid in  *)
(* use, a symbolic link) is a command that fails.                          *)
(***************************************************************************)
EXTENDS ArtifactScripts, TLC

\* Files and the like.
GroupEntry   == <<"/etc/group">>
UserEntry    == <<"/etc/passwd">>
Home         == <<"home">>
Member       == <<"group member">>
SshDir       == <<".ssh">>
Keys         == <<"authorized_keys">>
ApkKey       == <<"apk key">>
Repositories == <<"repositories">>
Index(v)     == <<"apk index", v>>
UpdateMarker == <<"apk-update.sha256">>
Package   == <<"package">>
World        == <<"/etc/apk/world">>
Loaded       == <<"module">>
ModuleFile   == <<"modules-load.d">>
SysctlFile   == <<"sysctl.d">>
Sysctl       == <<"sysctl">>
HostnameFile == <<"/etc/hostname">>
Hostname     == <<"hostname">>
Localtime    == <<"/etc/localtime">>
Timezone     == <<"/etc/timezone">>
Runlevel(v)  == <<"runlevel", v>>
Daemon       == <<"daemon">>
DaemonJson   == <<"daemon.json">>
Compose      == <<"compose.yaml">>
Env          == <<".env">>
Containers   == <<"containers">>
Output       == <<"output">>
OutputMarker == <<"output marker">>
Link         == <<"tmp_link">>
Entry        == <<"$entry">>

NativeVariables == {Entry}
NativeTemporaries == {Tmp, Link, Work}

\* The nodes of a kind, each after those that it depends on.
FileNodes      == << "plain file" >>
DirectoryNodes == << "directory" >>
AccountNodes   == << "group", "user", "membership", "authorized key" >>
ApkNodes       == << "apk key", "repository", "apk update", "package" >>
KernelNodes    == << "module", "sysctl", "sysctl runtime" >>
SystemNodes    == << "hostname", "timezone" >>
ServiceNodes   == << "service" >>
DockerNodes    == << "daemon config", "docker service", "compose project" >>
ScriptNodes    == << "plain file", "script" >>

NodesOf ==
    [ plain   |-> FileNodes,   directory |-> DirectoryNodes, account |-> AccountNodes,
      apk     |-> ApkNodes,    kernel    |-> KernelNodes,    system  |-> SystemNodes,
      service |-> ServiceNodes, docker   |-> DockerNodes,    hook    |-> ScriptNodes ]

NativeNodes(k) == NodesOf[k]

NativeCells ==
    [ plain     |-> {Path},
      directory |-> {Path},
      account   |-> {GroupEntry, UserEntry, Home, Member, SshDir, Keys},
      apk       |-> {ApkKey, Repositories, UpdateMarker, Package, World} \union {Index(v) : v \in Versions},
      kernel    |-> {Loaded, ModuleFile, SysctlFile, Sysctl},
      system    |-> {HostnameFile, Hostname, Localtime, Timezone},
      service   |-> {Daemon} \union {Runlevel(v) : v \in Versions},
      docker    |-> {Daemon, DaemonJson, Compose, Env, Containers, Runlevel("default")},
      hook      |-> {Path, Output, OutputMarker} ]

\* Whose changes run a node again.
NativeTriggers(n) ==
    CASE n = "apk update"     -> {"apk key", "repository"}
      [] n = "sysctl runtime" -> {"sysctl"}
      [] n = "docker service" -> {"daemon config"}
      [] n = "script"         -> {"plain file"}
      [] OTHER                -> {}

\* An ephemeral content is written only: its inspection does not look at it,
\* and what is recorded is the version that was declared with it.
WriteOnly(n, c) == n \in {"plain file", "daemon config", "compose project"} /\ c.protection = "secret"

\* What is recorded of a node: of some, nothing that changes.
NativeWish(n, c) ==
    << IF n \in {"membership", "authorized key", "apk update", "package", "module", "docker service", "script"} THEN Yes
       ELSE c.version,
       IF WriteOnly(n, c) THEN "secret" ELSE "open" >>

-----------------------------------------------------------------------------
(* The scripts.                                                            *)

Content == Versions \union {None, Junk}
Something == Versions \union {Junk}

\* The trap removes the temporary file and returns to the script.
Rewriting(before, v, path, after) ==
    Script(before \o Replacing(Tmp, v, path) \o after, << Drop(Tmp) >>, Len(before) + 1, TRUE)

FileWrite(v) == Rewriting(<< Need(Path, Content) >>, v, Path, <<>>)
FileDelete   == Plain(<< Need(Path, Content), Drop(Path) >>)

\* mkdir, chown and chgrp, chmod.
DirectoryApply(v) ==
    Plain(<< Need(Path, Content \union {Part}), IfUnset(Path, Put(Path, Part)), Put(Path, Part), Put(Path, v) >>)
DirectoryDelete ==
    Plain(<< IfUnset(Path, Exit), Need(Path, Something \union {Part}), RmTree(Path) >>)

GroupApply(v) ==
    Rewriting(<< IfUnset(GroupEntry, Put(GroupEntry, v)), When(GroupEntry, {v}, Exit) >>, v, GroupEntry, <<>>)
GroupDelete == Plain(<< IfUnset(GroupEntry, Exit), Need(Member, {None}), Drop(GroupEntry) >>)

\* adduser, or the line of /etc/passwd rewritten; then the home is made and
\* given to the user.
UserApply(v) ==
    Script(
      << IfSet(UserEntry, Put(Entry, Yes)),
         IfUnset(Entry, Put(UserEntry, v)),
         IfSet(Entry, Put(Tmp, Part)),
         IfSet(Entry, Put(Tmp, v)),
         IfSet(Entry, Move(Tmp, UserEntry)),
         IfUnset(Home, Put(Home, Part)),
         Put(Home, v) >>,
      << Drop(Tmp) >>, 3, TRUE)
UserDelete == Plain(<< IfUnset(UserEntry, Exit), Need(Member, {None}), Drop(UserEntry) >>)

MembershipApply ==
    Plain(<< Need(UserEntry, Something), Need(GroupEntry, Something), IfUnset(Member, Put(Member, Yes)) >>)
MembershipDelete == Plain(<< IfUnset(UserEntry, Exit), IfUnset(GroupEntry, Exit), IfSet(Member, Drop(Member)) >>)

\* The value of home, directory and file is their owner; a file with only
\* the keys of others is junk.
KeyApply ==
    Script(
      << Need(UserEntry, Something),
         IfUnset(Home, Put(Home, Part)),
         Copy(UserEntry, Home),
         IfUnset(SshDir, Put(SshDir, Part)),
         Put(Tmp, Part),
         Copy(UserEntry, SshDir),
         Copy(UserEntry, Tmp),
         Move(Tmp, Keys) >>,
      << Drop(Tmp) >>, 5, TRUE)
KeyDelete ==
    Script(
      << IfUnset(UserEntry, Exit),
         IfUnset(Keys, Exit),
         Put(Tmp, Part),
         Put(Tmp, Junk),
         Copy(UserEntry, SshDir),
         Move(Tmp, Keys) >>,
      << Drop(Tmp) >>, 3, TRUE)

ApkKeyWrite(v) ==
    Script(<< Need(ApkKey, Content), Put(Tmp, Part), Put(Tmp, v), Need(Tmp, {v}), Move(Tmp, ApkKey) >>,
           << Drop(Tmp) >>, 2, TRUE)

\* A block of the file: without it the file is junk, the lines of others.
RepositoryWrite(v) == Rewriting(<< Need(Repositories, Content) >>, v, Repositories, <<>>)

\* The marker says that there was an update, and not of what.
UpdateApply(v) == Rewriting(<< Put(Index(v), Yes), Need(UpdateMarker, {None, Yes}) >>, Yes, UpdateMarker, <<>>)
PackageAdd == Plain(<< Put(Package, Yes), Put(World, Yes) >>)

ModuleApply == Rewriting(<< Put(Loaded, Yes) >>, Yes, ModuleFile, <<>>)
SysctlPersist(v) == Rewriting(<< >>, v, SysctlFile, <<>>)
SysctlRuntime(v) == Plain(<< Put(Sysctl, v) >>)
SysctlDelete == Plain(<< Need(SysctlFile, Content), Drop(SysctlFile) >>)

HostnameApply(v) == Rewriting(<< Need(HostnameFile, Content) >>, v, HostnameFile, << Put(Hostname, v) >>)
TimezoneApply(v) ==
    Script(<< Put(Tmp, Part), Put(Link, v), Put(Tmp, v), Move(Link, Localtime), Move(Tmp, Timezone) >>,
           << Drop(Link), Drop(Tmp) >>, 1, TRUE)

\* The runlevel that was recorded is left for the declared one.
ServiceApply(u, v) ==
    Plain((IF u \in {None, v} THEN <<>> ELSE << IfSet(Runlevel(u), Drop(Runlevel(u))) >>) \o
          << IfUnset(Runlevel(v), Put(Runlevel(v), Yes)), Put(Daemon, "started") >>)

DaemonConfigApply(v) == Rewriting(<< Need(DaemonJson, Content) >>, v, DaemonJson, <<>>)
DaemonConfigDelete == Plain(<< Need(DaemonJson, Content), Drop(DaemonJson) >>)

\* A daemon runs with the configuration it was started with.
DockerStart ==
    Plain(<< IfUnset(Runlevel("default"), Put(Runlevel("default"), Yes)), IfUnset(Daemon, Copy(DaemonJson, Daemon)) >>)
DockerRestart ==
    Plain(<< IfUnset(Runlevel("default"), Put(Runlevel("default"), Yes)), Copy(DaemonJson, Daemon) >>)
DockerDelete == Plain(<< IfSet(Daemon, Drop(Daemon)), IfSet(Runlevel("default"), Drop(Runlevel("default"))) >>)

\* Both files are replaced, and then the containers are; for a project that
\* is to be absent the candidate is checked, and everything goes.
Staged(v) == << Put(Work, Part), Put(Work, v), Need(Work, {v}) >>
FromWork(path) == << Put(Tmp, Part), Copy(Work, Tmp), Move(Tmp, path) >>
ComposeApply(v) ==
    Script(Staged(v) \o FromWork(Compose) \o FromWork(Env) \o << Need(Daemon, Something), Put(Containers, v) >>,
           << Drop(Work) >>, 1, TRUE)
ComposeDown(v) ==
    Script(Staged(v) \o << Need(Daemon, Something), Drop(Containers), Drop(Compose), Drop(Env) >>,
           << Drop(Work) >>, 1, TRUE)

\* The script makes its output from the file that triggers it; what it made
\* is recorded by a call of its own.
ScriptExecute == Plain(<< Copy(Path, Output) >>)
ScriptRecord ==
    Script(<< Put(Tmp, Part), Need(Output, Something), Copy(Output, Tmp), Move(Tmp, OutputMarker) >>,
           << Drop(Tmp) >>, 1, TRUE)

-----------------------------------------------------------------------------
(* What the inspections find.                                              *)

Whole(all, wanted) == IF wanted THEN "as wanted" ELSE IF all THEN "missing" ELSE "different"

SeenFile(n, path, c, m) == IF WriteOnly(n, c) /\ m[path] # None THEN "as wanted" ELSE Seen(m[path], c.version)
SeenDirectory(v, m) == Seen(m[Path], v)
SeenGroup(v, m) == Seen(m[GroupEntry], v)
SeenUser(v, m) == Seen(m[UserEntry], v)
SeenMember(m) == IF None \in {m[UserEntry], m[GroupEntry], m[Member]} THEN "missing" ELSE "as wanted"
SeenKey(m) ==
    Whole(m[UserEntry] = None \/ m[Keys] \in {None, Junk},
          m[UserEntry] # None /\ m[Keys] = m[UserEntry] /\ m[SshDir] = m[UserEntry])
SeenApkKey(v, m) == Seen(m[ApkKey], v)
SeenRepository(v, m) == IF m[Repositories] = Junk THEN "missing" ELSE Seen(m[Repositories], v)

\* The inputs of the update are looked at too.
InputsReady(v, m) == m[ApkKey] = v /\ m[Repositories] = v
SeenUpdate(v, m) == Whole(m[UpdateMarker] = None, m[UpdateMarker] = Yes /\ InputsReady(v, m))
SeenPackage(m) == Whole(m[Package] = None /\ m[World] = None, m[Package] = Yes /\ m[World] = Yes)
SeenModule(m) == Whole(FALSE, m[Loaded] = Yes /\ m[ModuleFile] = Yes)
SeenSysctl(v, m) == Whole(m[SysctlFile] = None, m[SysctlFile] = v /\ m[Sysctl] = v)
SeenHostname(v, m) == Whole(m[HostnameFile] = None, m[HostnameFile] = v /\ m[Hostname] = v)
SeenTimezone(v, m) == Whole(m[Localtime] = None /\ m[Timezone] = None, m[Localtime] = v /\ m[Timezone] = v)
SeenService(runlevel, m) == Whole(FALSE, m[Runlevel(runlevel)] = Yes /\ m[Daemon] # None)
SeenCompose(c, m) ==
    Whole(m[Compose] = None /\ (m[Daemon] = None \/ m[Containers] = None),
          /\ m[Daemon] # None /\ m[Containers] # None
          /\ IF WriteOnly("compose project", c) THEN None \notin {m[Compose], m[Env]}
             ELSE m[Compose] = c.version /\ m[Env] = c.version)
SeenOutputs(m) == Whole(FALSE, m[Output] # None /\ m[OutputMarker] = m[Output])

-----------------------------------------------------------------------------
(* What the provider makes of the scripts.                                 *)

Calls(n, v) == << <<n, None, v>> >>
Delete(n) == Calls("delete", n)

FileResource(c, m) ==
    Resource(SeenFile("plain file", Path, c, m), Calls("plain file", c.version), Delete("plain file"))
DirectoryResource(c, m) == Resource(SeenDirectory(c.version, m), Calls("directory", c.version), Delete("directory"))
GroupResource(c, m) == Resource(SeenGroup(c.version, m), Calls("group", c.version), Delete("group"))
UserResource(c, m) == Resource(SeenUser(c.version, m), Calls("user", c.version), Delete("user"))
MembershipResource(c, m) == Resource(SeenMember(m), Calls("membership", None), Delete("membership"))
AuthorizedKeyResource(c, m) == Resource(SeenKey(m), Calls("authorized key", None), Delete("authorized key"))
ApkKeyResource(c, m) == Resource(SeenApkKey(c.version, m), Calls("apk key", c.version), <<>>)
RepositoryResource(c, m) == Resource(SeenRepository(c.version, m), Calls("repository", c.version), <<>>)
UpdateResource(c, m) == Resource(SeenUpdate(c.version, m), Calls("apk update", c.version), <<>>)
PackageResource(c, m) == Resource(SeenPackage(m), Calls("package", None), <<>>)
ModuleResource(c, m) == Resource(SeenModule(m), Calls("module", None), <<>>)
SysctlResource(c, m) == Resource(SeenSysctl(c.version, m), Calls("sysctl", c.version), Delete("sysctl"))
SysctlRuntimeResource(c, m) == Resource("as wanted", Calls("sysctl runtime", c.version), <<>>)
HostnameResource(c, m) == Resource(SeenHostname(c.version, m), Calls("hostname", c.version), <<>>)
TimezoneResource(c, m) == Resource(SeenTimezone(c.version, m), Calls("timezone", c.version), <<>>)

\* The runlevel that was recorded goes with the call.
ServiceResource(c, m, recorded) == Resource(SeenService(c.version, m), << <<"service", recorded, c.version>> >>, <<>>)

DaemonConfigResource(c, m) ==
    Resource(SeenFile("daemon config", DaemonJson, c, m), Calls("daemon config", c.version), Delete("daemon config"))
DockerServiceResource(c, m, triggered) ==
    Resource(SeenService("default", m), Calls(IF triggered THEN "restart docker" ELSE "start docker", None),
             Delete("docker service"))
ComposeResource(c, m) ==
    Resource(SeenCompose(c, m), Calls("compose project", c.version), Calls("compose down", c.version))
ScriptResource(c, m) == Resource(SeenOutputs(m), Calls("execute", None) \o Calls("record outputs", None), <<>>)

\* Of a node in configuration c on host m, with the version it was recorded
\* with, and whether it is triggered.  Some declarations can only be
\* forgotten.
NativeResource(n, c, m, recorded, triggered) ==
    CASE n = "plain file"      -> FileResource(c, m)
      [] n = "directory"       -> DirectoryResource(c, m)
      [] n = "group"           -> GroupResource(c, m)
      [] n = "user"            -> UserResource(c, m)
      [] n = "membership"      -> MembershipResource(c, m)
      [] n = "authorized key"  -> AuthorizedKeyResource(c, m)
      [] n = "apk key"         -> ApkKeyResource(c, m)
      [] n = "repository"      -> RepositoryResource(c, m)
      [] n = "apk update"      -> UpdateResource(c, m)
      [] n = "package"         -> PackageResource(c, m)
      [] n = "module"          -> ModuleResource(c, m)
      [] n = "sysctl"          -> SysctlResource(c, m)
      [] n = "sysctl runtime"  -> SysctlRuntimeResource(c, m)
      [] n = "hostname"        -> HostnameResource(c, m)
      [] n = "timezone"        -> TimezoneResource(c, m)
      [] n = "service"         -> ServiceResource(c, m, recorded)
      [] n = "daemon config"   -> DaemonConfigResource(c, m)
      [] n = "docker service"  -> DockerServiceResource(c, m, triggered)
      [] n = "compose project" -> ComposeResource(c, m)
      [] n = "script"          -> ScriptResource(c, m)

NativeDelete(n) ==
    CASE n = "plain file"      -> FileDelete
      [] n = "directory"       -> DirectoryDelete
      [] n = "group"           -> GroupDelete
      [] n = "user"            -> UserDelete
      [] n = "membership"      -> MembershipDelete
      [] n = "authorized key"  -> KeyDelete
      [] n = "sysctl"          -> SysctlDelete
      [] n = "daemon config"   -> DaemonConfigDelete
      [] n = "docker service"  -> DockerDelete

NativeProgram(name, u, v) ==
    CASE name = "plain file"      -> FileWrite(v)
      [] name = "directory"       -> DirectoryApply(v)
      [] name = "group"           -> GroupApply(v)
      [] name = "user"            -> UserApply(v)
      [] name = "membership"      -> MembershipApply
      [] name = "authorized key"  -> KeyApply
      [] name = "apk key"         -> ApkKeyWrite(v)
      [] name = "repository"      -> RepositoryWrite(v)
      [] name = "apk update"      -> UpdateApply(v)
      [] name = "package"         -> PackageAdd
      [] name = "module"          -> ModuleApply
      [] name = "sysctl"          -> SysctlPersist(v)
      [] name = "sysctl runtime"  -> SysctlRuntime(v)
      [] name = "hostname"        -> HostnameApply(v)
      [] name = "timezone"        -> TimezoneApply(v)
      [] name = "service"         -> ServiceApply(u, v)
      [] name = "daemon config"   -> DaemonConfigApply(v)
      [] name = "start docker"    -> DockerStart
      [] name = "restart docker"  -> DockerRestart
      [] name = "compose project" -> ComposeApply(v)
      [] name = "compose down"    -> ComposeDown(v)
      [] name = "execute"         -> ScriptExecute
      [] name = "record outputs"  -> ScriptRecord
      [] name = "delete"          -> NativeDelete(v)

NativeScriptNames ==
    {"plain file", "directory", "group", "user", "membership", "authorized key", "apk key", "repository",
     "apk update", "package", "module", "sysctl", "sysctl runtime", "hostname", "timezone", "service",
     "daemon config", "start docker", "restart docker", "compose project", "compose down", "execute", "record outputs"}

NativeDeleted ==
    {"plain file", "directory", "group", "user", "membership", "authorized key", "sysctl", "daemon config",
     "docker service"}

-----------------------------------------------------------------------------
(* What a declaration asks for, whether an inspection looks at it or not,  *)
(* and what its removal takes away.                                        *)

NativeEffects(k, v) ==
    CASE k \in {"plain", "directory"} -> Path :> v
      [] k = "account" -> GroupEntry :> v @@ UserEntry :> v @@ Home :> v @@ Member :> Yes @@ SshDir :> v @@ Keys :> v
      [] k = "apk"     -> ApkKey :> v @@ Repositories :> v @@ Index(v) :> Yes @@ Package :> Yes @@ World :> Yes
      [] k = "kernel"  -> Loaded :> Yes @@ ModuleFile :> Yes @@ SysctlFile :> v @@ Sysctl :> v
      [] k = "system"  -> HostnameFile :> v @@ Hostname :> v @@ Localtime :> v @@ Timezone :> v
      [] k = "service" -> Daemon :> "started" @@ [r \in {Runlevel(w) : w \in Versions} |-> IF r = Runlevel(v) THEN Yes ELSE None]
      [] k = "docker"  -> DaemonJson :> v @@ Daemon :> v @@ Runlevel("default") :> Yes @@
                          Compose :> v @@ Env :> v @@ Containers :> v
      [] k = "hook"    -> Path :> v @@ Output :> v @@ OutputMarker :> v

NativeRemoved(n) ==
    CASE n \in {"plain file", "directory"} -> {Path}
      [] n = "group"           -> {GroupEntry}
      [] n = "user"            -> {UserEntry}
      [] n = "membership"      -> {Member}
      [] n = "sysctl"          -> {SysctlFile}
      [] n = "daemon config"   -> {DaemonJson}
      [] n = "docker service"  -> {Daemon, Runlevel("default")}
      [] n = "compose project" -> {Compose, Env, Containers}
      [] OTHER                 -> {}
=============================================================================
