--------------------------- MODULE ArtifactScripts ---------------------------
(***************************************************************************)
(* The artifact of a component: the verified cache of its source, and what *)
(* is installed from it, a file, a CA certificate with the trust store, or *)
(* an unpacked archive.  A version stands for its checksum.                *)
(*                                                                         *)
(* What is kept of an identity has a place: the cache and the trust marker *)
(* of a public source are under its checksum, those of a protected source  *)
(* (a secret URL or a secret checksum) under a fixed name, so that no      *)
(* checksum shows.                                                         *)
(***************************************************************************)
EXTENDS Shell

CONSTANT Versions

Protections == {"open", "url", "secret"}
Hidden == "hidden"
Places == Versions \union {Hidden}

\* How the source is protected, and how the checksum is.
SourceProtected(c) == c.protection # "open"
ChecksumProtected(c) == c.protection = "secret"

Place(c) == IF SourceProtected(c) THEN Hidden ELSE c.version

Cache(p)     == <<"cache", p>>
CacheDir(p)  == <<"cache dir", p>>
Marker(p)    == <<"trust marker", p>>
MarkerDir(p) == <<"trust marker dir", p>>
Path         == <<"path">>
Trust        == <<"trust store">>
Tmp          == <<"tmp">>
Candidate    == <<"candidate">>
PriorFile    == <<"prior">>
Work         == <<"work">>
Staging      == <<"staging">>
Old          == <<"old">>

\* Variables of the scripts.
Created    == <<"$parent_created">>
Owned      == <<"$owned">>
Moved      == <<"$moved">>
HadPrior   == <<"$had_prior">>
Installed  == <<"$installed">>
Cleared    == <<"$marker_cleared">>
Refreshing == <<"$refresh_started">>
Placed     == <<"$current_created">>
Replaced   == <<"$replaced">>

\* The prior tree, or certificate, that a script left behind when it died.
Left == <<"left">>

ArtifactVariables == {Created, Owned, Moved, HadPrior, Installed, Cleared, Refreshing, Placed, Replaced}
ArtifactTemporaries == {Tmp, Candidate, PriorFile, Work, Staging, Old}
ArtifactCells ==
    {Cache(p) : p \in Places} \union {CacheDir(p) : p \in Places} \union
    {Marker(p) : p \in Places} \union {MarkerDir(p) : p \in Places} \union
    {Path, Trust, Left} \union ArtifactTemporaries \union ArtifactVariables

\* The values of the trust marker of a protected source, which does not say
\* of which version, and of one that was migrated.
Constant == "constant"
Stale == "stale"
MarkerValue(c) == IF SourceProtected(c) THEN Constant ELSE c.version

-----------------------------------------------------------------------------
(* Directories with a marker of ownership.                                 *)

\* The parent of a file is made, and marked as the tool's, when it is missing.
MakeOwned(dir) ==
    << IfUnset(dir, Put(Created, Yes)),
       IfSet(Created, Put(dir, "bare")),
       Need(dir, {"bare", "owned"}),
       IfSet(Created, Put(dir, "owned")) >>

Unmake(dir, files) ==
    << IfSet(Created, When(dir, {"owned"}, Put(dir, "bare"))),
       IfSet(Created, Rmdir(dir, files)) >>

\* A file goes, and its parent with it when the tool made the parent.
RemoveOwned(file, dir) ==
    << When(dir, {"owned"}, Put(Owned, Yes)),
       Drop(file),
       IfSet(Owned, Put(dir, "bare")),
       IfSet(Owned, Rmdir(dir, {file})) >>

-----------------------------------------------------------------------------
(* The source.                                                             *)

SourceApply(p, v) ==
    Guarded(
      MakeOwned(CacheDir(p)) \o
      << Need(Cache(p), Places \union {None, Junk}),
         Put(Tmp, Part),
         Fetch(Tmp, v),
         Need(Tmp, {v}),
         Move(Tmp, Cache(p)) >>,
      << Drop(Tmp) >> \o Unmake(CacheDir(p), {Cache(p)}))

SourceDelete(p) == Plain(RemoveOwned(Cache(p), CacheDir(p)))

\* The file of an earlier identity: a cache or a trust marker.
PriorCleanup(file, dir) == Plain(<< Need(file, Places \union {None, Junk, Constant, Stale}) >> \o RemoveOwned(file, dir))

\* Bug: a migration that broke off after the move is not taken for done.
SourceMigrateAgain(q, p) ==
    Guarded(
      << Need(Cache(p), {None}), Need(Cache(q), Places \union {Junk}) >> \o
      MakeOwned(CacheDir(p)) \o
      << Move(Cache(q), Cache(p)), Held(Put(Moved, Yes)) >>,
      << IfSet(Moved, IfSet(Cache(p), Move(Cache(p), Cache(q)))) >> \o
      Unmake(CacheDir(p), {Cache(p)}))

\* A public source became protected: its cache moves to the hidden place.
SourceMigrate(q, p) ==
    Guarded(
      << IfSet(Cache(q), Need(Cache(p), {None})),
         IfUnset(Cache(q), Need(Cache(p), Places \union {None, Junk})),
         IfUnset(Cache(q), Exit),
         Need(Cache(q), Places \union {Junk}) >> \o
      MakeOwned(CacheDir(p)) \o
      << Move(Cache(q), Cache(p)),
         Held(Put(Moved, Yes)),
         When(CacheDir(q), {"owned"}, Put(CacheDir(q), "bare")),
         Held(Rmdir(CacheDir(q), {Cache(q)})) >>,
      << IfSet(Moved, IfSet(Cache(p), Move(Cache(p), Cache(q)))) >> \o
      Unmake(CacheDir(p), {Cache(p)}))

-----------------------------------------------------------------------------
(* A file.                                                                 *)

FileBody(p, v) ==
    << Need(Cache(p), Places \union {Junk}),
       Need(Path, Places \union {None, Junk}),
       Put(Tmp, Part),
       Copy(Cache(p), Tmp),
       Need(Tmp, {v}),
       Move(Tmp, Path) >>

InstallApply(p, v) == Script(FileBody(p, v), << Drop(Tmp) >>, 3, TRUE)
ProtectedInstallApply(p, v) == Guarded(FileBody(p, v), << Drop(Tmp) >>)
InstallDelete == Plain(<< Drop(Path) >>)

-----------------------------------------------------------------------------
(* A CA certificate.                                                       *)

\* The refresh of the trust store is a script after the one that installs.
CAUpdate(p, v) ==
    Script(<< Drop(Marker(p)), Refresh(Path, Trust) >> \o Replacing(Tmp, v, Marker(p)), << Drop(Tmp) >>, 3, TRUE)

CADeleteRefresh(p) ==
    Plain(<< When(MarkerDir(p), {"owned"}, Put(Owned, Yes)),
             Drop(Marker(p)),
             Refresh(Path, Trust),
             IfSet(Owned, Put(MarkerDir(p), "bare")),
             IfSet(Owned, Rmdir(MarkerDir(p), {Marker(p)})) >>)

\* Of a protected source, certificate, trust store and marker change in one
\* script, and its trap puts all of them back.
ProtectedCAApply(p, v) ==
    Guarded(
      << Need(Cache(p), Places \union {Junk}),
         Need(Path, Places \union {None, Junk}),
         Put(Candidate, Part),
         Copy(Cache(p), Candidate),
         Need(Candidate, {v}),
         IfSet(Path, Move(Path, PriorFile)),
         IfSet(PriorFile, Held(Put(HadPrior, Yes))),
         Move(Candidate, Path),
         Held(Put(Installed, Yes)),
         Put(Cleared, Yes),
         Drop(Marker(p)),
         Put(Refreshing, Yes),
         Refresh(Path, Trust) >> \o
      MakeOwned(MarkerDir(p)) \o
      << Put(Tmp, Part),
         Put(Tmp, Constant),
         Move(Tmp, Marker(p)),
         Held(IfSet(HadPrior, Drop(PriorFile))) >>,
      << Drop(Candidate),
         Drop(Tmp),
         IfSet(Cleared, Drop(Marker(p))),
         IfSet(HadPrior, IfSet(PriorFile, Drop(Path))),
         IfSet(HadPrior, IfSet(PriorFile, IfUnset(Path, Move(PriorFile, Path)))),
         IfUnset(HadPrior, IfSet(Installed, Drop(Path))),
         IfSet(Installed, IfSet(Refreshing, Refresh(Path, Trust))) >> \o
      Unmake(MarkerDir(p), {Marker(p)}))

\* A public certificate became protected: a marker that says "stale" takes
\* the place of the one under the checksum.
CAMigrate(q, p) ==
    Guarded(
      << IfSet(Marker(q), Need(Marker(p), {None})),
         IfUnset(Marker(q), Need(Marker(p), {None, Stale})),
         IfUnset(Marker(q), Exit) >> \o
      MakeOwned(MarkerDir(p)) \o
      Replacing(Tmp, Stale, Marker(p)) \o
      << Held(Put(Placed, Yes)),
         Drop(Marker(q)) >>,
      << Drop(Tmp), IfSet(Placed, Drop(Marker(p))) >> \o
      Unmake(MarkerDir(p), {Marker(p)}))

-----------------------------------------------------------------------------
(* An archive.                                                             *)

Unpack(p, v) ==
    << Put(Work, Part),
       Put(Staging, Part),
       Need(Staging, {Part}),
       Copy(Cache(p), Staging),
       Need(Staging, {v}) >>

ArchiveApply(p, v) ==
    Script(
      << Need(Cache(p), {v}) >> \o Unpack(p, v) \o
      << IfSet(Path, Move(Path, Old)),
         IfSet(Old, Put(Replaced, Yes)),
         Move(Staging, Path),
         RmTree(Old),
         Put(Replaced, None),
         Drop(Work) >>,
      << Drop(Staging),
         IfSet(Replaced, IfUnset(Path, IfSet(Old, Move(Old, Path)))),
         RmTree(Old),
         Drop(Work) >>,
      3, TRUE)

\* Bug: the earlier tree is removed before the new one is in place.
ProtectedArchiveApplyEager(p, v) ==
    Guarded(
      << Need(Cache(p), {v}) >> \o Unpack(p, v) \o
      << IfSet(Path, Move(Path, Old)),
         Held(RmTree(Old)),
         Move(Staging, Path),
         Held(Drop(Work)) >>,
      << Drop(Staging), RmTree(Old), Drop(Work) >>)

\* A tree that is already the wanted one is left alone.
ProtectedArchiveApply(p, v) ==
    Guarded(
      << Need(Cache(p), {v}) >> \o Unpack(p, v) \o
      << When(Path, {v}, Drop(Staging)),
         When(Path, {v}, Held(Drop(Work))),
         When(Path, {v}, Exit),
         IfSet(Path, Move(Path, Old)),
         IfSet(Old, Held(Put(Replaced, Yes))),
         Move(Staging, Path),
         Held(Drop(Work)),
         Held(RmTree(Old)) >>,
      << Drop(Staging),
         IfSet(Replaced, IfSet(Old, RmTree(Path))),
         IfSet(Replaced, IfUnset(Path, IfSet(Old, Move(Old, Path)))),
         IfUnset(Replaced, RmTree(Old)),
         Drop(Work) >>)

ArchiveDelete == Plain(<< RmTree(Path) >>)

-----------------------------------------------------------------------------
(* What the provider makes of the scripts.  A call is a script with its    *)
(* arguments: two places, or a place and a version.                        *)

\* The form in which a wish is recorded: a protected checksum is not in it.
ArtifactWish(c) == << IF ChecksumProtected(c) THEN Hidden ELSE c.version, c.protection >>

\* The cleanup identity that is recorded with it.
ArtifactIdentity(node, c) == IF node \in {"source", "ca"} THEN Place(c) ELSE None

\* Whether a node is protected, which hides what is recorded of it.
NodeProtected(node, c) == IF node = "source" THEN SourceProtected(c) ELSE ChecksumProtected(c)

Seen(content, wanted) == IF content = None THEN "missing" ELSE IF content = wanted THEN "as wanted" ELSE "different"

SeenInstalled(c, m) == Seen(m[Path], c.version)
SeenCertificate(c, m) ==
    IF m[Path] = c.version /\ m[Marker(Place(c))] # MarkerValue(c) THEN "different" ELSE SeenInstalled(c, m)
SeenArchive(c, m) ==
    IF ChecksumProtected(c) /\ m[Path] = c.version /\ m[Cache(Place(c))] # c.version THEN "different"
    ELSE Seen(m[Path], c.version)

\* A resource of the provider: what its inspection says, the calls of its
\* apply, and those of its removal.
Resource(seen, applying, deleting) == [seen |-> seen, applying |-> applying, deleting |-> deleting]

SourceResource(c, m, identity) ==
    Resource(Seen(m[Cache(Place(c))], c.version),
             << <<"source", Place(c), c.version>> >>,
             << <<"delete source", identity, None>> >>)

InstallCall(c) == <<IF ChecksumProtected(c) THEN "install protected" ELSE "install", Place(c), c.version>>

InstallResource(c, m) == Resource(SeenInstalled(c, m), << InstallCall(c) >>, << <<"delete file", None, None>> >>)

CAResource(c, m, identity) ==
    Resource(SeenCertificate(c, m),
             IF SourceProtected(c) THEN << <<"install ca", Place(c), c.version>> >>
             ELSE << InstallCall(c), <<"refresh ca", Place(c), c.version>> >>,
             << <<"delete file", None, None>>, <<"delete ca", identity, None>> >>)

ArchiveResource(c, m) ==
    Resource(SeenArchive(c, m),
             << <<IF ChecksumProtected(c) THEN "unpack protected" ELSE "unpack", Place(c), c.version>> >>,
             << <<"delete archive", None, None>> >>)

\* Of a node in configuration c on host m, recorded under an identity.
ArtifactResource(node, c, m, identity) ==
    CASE node = "source"  -> SourceResource(c, m, identity)
      [] node = "file"    -> InstallResource(c, m)
      [] node = "ca"      -> CAResource(c, m, identity)
      [] node = "archive" -> ArchiveResource(c, m)

\* Bug: the trust marker of an earlier identity stays.
CleaningCaches(node, c, identity) ==
    IF identity \in {None, Place(c)} \/ node # "source" THEN <<>> ELSE << <<"clean source", identity, None>> >>

\* The prior identity is cleaned up after the new one has been verified.
Cleaning(node, c, identity) ==
    IF identity \in {None, Place(c)} THEN <<>>
    ELSE IF node = "source" THEN << <<"clean source", identity, None>> >>
    ELSE << <<"clean marker", identity, None>> >>

ArtifactMigrating(node, c, identity) ==
    IF identity \in {None, Place(c)} THEN <<>>
    ELSE IF node = "source" THEN << <<"migrate source", identity, Place(c)>> >>
    ELSE << <<"migrate marker", identity, Place(c)>> >>

ArtifactProgram(name, p, v) ==
    CASE name = "source"            -> SourceApply(p, v)
      [] name = "clean source"      -> PriorCleanup(Cache(p), CacheDir(p))
      [] name = "clean marker"      -> PriorCleanup(Marker(p), MarkerDir(p))
      [] name = "delete source"     -> SourceDelete(p)
      [] name = "migrate source"    -> SourceMigrate(p, v)
      [] name = "migrate marker"    -> CAMigrate(p, v)
      [] name = "install"           -> InstallApply(p, v)
      [] name = "install protected" -> ProtectedInstallApply(p, v)
      [] name = "delete file"       -> InstallDelete
      [] name = "install ca"        -> ProtectedCAApply(p, v)
      [] name = "refresh ca"        -> CAUpdate(p, v)
      [] name = "delete ca"         -> CADeleteRefresh(p)
      [] name = "unpack"            -> ArchiveApply(p, v)
      [] name = "unpack protected"  -> ProtectedArchiveApply(p, v)
      [] name = "delete archive"    -> ArchiveDelete

ArtifactScriptNames ==
    {"source", "clean source", "clean marker", "delete source", "migrate source", "migrate marker", "install",
     "install protected", "delete file", "install ca", "refresh ca", "delete ca", "unpack", "unpack protected",
     "delete archive"}
=============================================================================
