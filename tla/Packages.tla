------------------------------ MODULE Packages ------------------------------
(* Publishing and installing a package (stdlib/registry.py): an author who  *)
(* edits a project and publishes it into the registry, and a user who       *)
(* installs it into triad_modules from git, from a path or from the         *)
(* registry.  Both work at once, file by file, on the same registry; a      *)
(* command can be killed between any two files, and inside one, and be      *)
(* given again.                                                             *)
(*                                                                          *)
(* A directory gives for every name the edition its file was last copied    *)
(* from, 0 if there is no such file.  shutil.copy2 truncates the file and   *)
(* then writes it: two steps, the file being torn in between, and for good  *)
(* if the copy is killed there.  A clone in progress holds .git only.       *)
EXTENDS Semver, Functions

CONSTANTS
    Files,          \* the names of a project's files, besides its manifest
    Projects,       \* states a project can be in: [files, version]
    NameOrder,      \* its versions as their names sort: "0.10.0" < "0.9.0"
    Shelf,          \* versions others may have put into the registry
    MaxEditions,    \* states of the project, the first included
    MaxFaults       \* kills and lost connections

Manifest == "triad.json"
Git == ".git"
Names == Files \cup {Manifest, Git}
Versions == Range(NameOrder)

ASSUME BoundsAssumption == MaxEditions \in Nat \ {0} /\ MaxFaults \in Nat
ASSUME FilesAssumption == Files \cap {Manifest, Git} = {}
ASSUME ProjectsAssumption == Projects \subseteq [files : SUBSET Files, version : Versions]
ASSUME VersionsAssumption ==
    NameOrder \in Seq(Version) /\ Shelf \in SUBSET Version /\ IsFiniteSet(Shelf)

VARIABLES
    editions,       \* the project's states so far: [files, version]
    publish,        \* the publish command: [at, edition, todo, open]
    registry,       \* the version directories of the package
    begun,          \* editions whose publication began
    again,          \* those published once more over their own manifest
    install,        \* the user's command: [at, how, version, todo, open, seen, intact]
    staging,        \* triad_modules/<name>.__staging__
    target,         \* triad_modules/<name>
    faults          \* faults still to come

author == <<editions, publish, registry, begun, again>>
user == <<install, staging, target>>
vars == <<author, user, faults>>

Trees == [Names -> 0..MaxEditions]
Bare == [name \in Names |-> 0]
Held(tree) == {name \in Names : tree[name] # 0}

Absent == [kind |-> "absent", tree |-> Bare, torn |-> {}]
Dir(tree) == [kind |-> "dir", tree |-> tree, torn |-> {}]
Link == [kind |-> "link", tree |-> Bare, torn |-> {}]
Places == [kind : {"absent", "dir", "link"}, tree : Trees, torn : SUBSET Names]

\* A directory after a file was written, or was truncated to be written.
With(place, name, e) ==
    [kind |-> "dir", tree |-> [place.tree EXCEPT ![name] = e], torn |-> place.torn \ {name}]
Torn(place, name, e) ==
    [kind |-> "dir", tree |-> [place.tree EXCEPT ![name] = e], torn |-> place.torn \cup {name}]

\* The project's tree in an edition, and now.
Listing(e) == editions[e].files \cup {Manifest}
Tree(e) == [name \in Names |-> IF name \in Listing(e) THEN e ELSE 0]
Latest == Len(editions)

NoInstall == [at |-> "idle", how |-> "none", version |-> Nowhere, todo |-> {}, open |-> {},
              seen |-> Absent, intact |-> FALSE]
NoPublish == [at |-> "idle", edition |-> 0, todo |-> {}, open |-> {}]

Installs == [at : {"idle", "unstage", "clone", "clean", "remove", "copy"},
             how : {"none", "git", "path", "registry"}, version : Versions \cup {Nowhere},
             todo : SUBSET Names, open : SUBSET Names, seen : Places, intact : BOOLEAN]

TypeOK ==
    /\ editions \in Seq(Projects) /\ Len(editions) \in 1..MaxEditions
    /\ publish \in [at : {"idle", "copy"}, edition : 0..MaxEditions,
                    todo : SUBSET Files, open : SUBSET Names]
    /\ registry \in [Versions -> Places]
    /\ begun \in SUBSET (1..MaxEditions) /\ again \in SUBSET begun
    /\ install \in Installs
    /\ staging \in Places
    /\ target \in Places /\ target.tree[Git] = 0
    /\ faults \in 0..MaxFaults

Init ==
    /\ \E project \in Projects : editions = <<project>>
    /\ publish = NoPublish
    /\ registry = [v \in Versions |-> Absent]
    /\ begun = {} /\ again = {}
    /\ install = NoInstall /\ staging = Absent /\ target = Absent
    /\ faults = MaxFaults

-----------------------------------------------------------------------------
(* The author.                                                              *)
Edit(project) ==
    /\ publish.at = "idle"
    /\ Latest < MaxEditions
    /\ editions' = Append(editions, project)
    /\ UNCHANGED <<publish, registry, begun, again, user, faults>>

\* An older edition of the version stays where it is and is written over, and
\* so is this one if it was published before.
StartPublish ==
    LET v == editions[Latest].version IN
    /\ publish.at = "idle"
    /\ publish' = [NoPublish EXCEPT !.at = "copy", !.edition = Latest,
                                    !.todo = editions[Latest].files]
    /\ registry' = [registry EXCEPT ![v].kind = "dir"]
    /\ begun' = begun \cup {Latest}
    /\ again' = again \cup {e \in {Latest} : registry[v].tree[Manifest] = e}
    /\ UNCHANGED <<editions, user, faults>>

\* copy2 opens one file after the other.
Opens(name) ==
    /\ publish.open = {}
    /\ registry' = [registry EXCEPT
            ![editions[publish.edition].version] = Torn(@, name, publish.edition)]

PublishFile(name) ==
    /\ publish.at = "copy"
    /\ name \in publish.todo
    /\ Opens(name)
    /\ publish' = [publish EXCEPT !.todo = @ \ {name}, !.open = {name}]
    /\ UNCHANGED <<editions, begun, again, user, faults>>

\* Mutant: the manifest does not wait for the files.
PublishManifestEarly ==
    /\ publish.at = "copy"
    /\ Opens(Manifest)
    /\ publish' = [publish EXCEPT !.open = {Manifest}]
    /\ UNCHANGED <<editions, begun, again, user, faults>>

PublishManifest ==
    /\ publish.at = "copy"
    /\ publish.todo = {}
    /\ Opens(Manifest)
    /\ publish' = [publish EXCEPT !.open = {Manifest}]
    /\ UNCHANGED <<editions, begun, again, user, faults>>

\* The file is written; after the manifest the command is over.
PublishWritten(name) ==
    /\ name \in publish.open
    /\ registry' = [registry EXCEPT
            ![editions[publish.edition].version] = With(@, name, publish.edition)]
    /\ publish' = IF name = Manifest THEN NoPublish ELSE [publish EXCEPT !.open = {}]
    /\ UNCHANGED <<editions, begun, again, user, faults>>

PublishKilled ==
    /\ publish.at = "copy"
    /\ faults > 0
    /\ faults' = faults - 1
    /\ publish' = NoPublish
    /\ UNCHANGED <<editions, registry, begun, again, user>>

-----------------------------------------------------------------------------
(* The user.                                                                *)
Starts(how, at, v) ==
    /\ install.at = "idle"
    /\ install' = [NoInstall EXCEPT !.how = how, !.at = at, !.version = v]
    /\ UNCHANGED <<author, staging, target, faults>>

InstallGit == Starts("git", "unstage", Nowhere)
InstallPath == Starts("path", "remove", Nowhere)

\* shutil.rmtree refuses a link, so after an installation from a path the
\* command fails here, every time.
Published == {v \in Versions : registry[v].kind = "dir"}
InstallRegistry(v) ==
    /\ v \in Published
    /\ target.kind # "link"
    /\ Starts("registry", "remove", v)

\* Without a version, the last by name.
LastByName(v) ==
    \E n \in DOMAIN NameOrder :
        /\ NameOrder[n] = v
        /\ \A m \in DOMAIN NameOrder : NameOrder[m] \in Published => m <= n
InstallLast == \E v \in Published : LastByName(v) /\ InstallRegistry(v)

\* rmtree of what an earlier attempt staged; killed on the way, it leaves less
\* of the directory, an empty one say.
Unstage ==
    /\ install.at = "unstage"
    /\ staging.kind # "absent"
    /\ staging' = IF Held(staging.tree) = {} THEN Absent ELSE Dir(Bare)
    /\ UNCHANGED <<author, install, target, faults>>

\* Mutant: what an earlier attempt staged is left for git to refuse.
CloneOnlyOnce ==
    /\ install.at = "unstage"
    /\ IF staging = Absent
       THEN /\ install' = [install EXCEPT !.at = "clone", !.seen = Dir(Tree(Latest))]
            /\ staging' = With(Absent, Git, 1)
       ELSE install' = NoInstall /\ UNCHANGED staging
    /\ UNCHANGED <<author, target, faults>>

\* git clone takes one commit, the project as it is now.
Clone ==
    /\ install.at = "unstage"
    /\ staging.kind = "absent"
    /\ install' = [install EXCEPT !.at = "clone", !.seen = Dir(Tree(Latest))]
    /\ staging' = With(Absent, Git, 1)
    /\ UNCHANGED <<author, target, faults>>

CloneEnds ==
    /\ install.at = "clone"
    /\ install' = [install EXCEPT !.at = "clean"]
    /\ staging' = With(install.seen, Git, 1)
    /\ UNCHANGED <<author, target, faults>>

\* A clone that fails clears up; one that times out is killed.
CloneFails ==
    /\ install.at = "clone"
    /\ faults > 0
    /\ faults' = faults - 1
    /\ install' = NoInstall
    /\ staging' \in {Absent, staging}
    /\ UNCHANGED <<author, target>>

\* Mutant: .git stays.
CleanNothing ==
    /\ install.at = "clean"
    /\ install' = [install EXCEPT !.at = "remove"]
    /\ UNCHANGED <<author, staging, target, faults>>

CleanGitMeta ==
    /\ install.at = "clean"
    /\ install' = [install EXCEPT !.at = "remove"]
    /\ staging' = With(staging, Git, 0)
    /\ UNCHANGED <<author, target, faults>>

\* rmtree, a file at a time and then the directory, or one unlink.
RemoveTarget ==
    /\ install.at = "remove"
    /\ target.kind # "absent"
    /\ IF Held(target.tree) = {} THEN target' = Absent
       ELSE \E name \in Held(target.tree) : target' = With(target, name, 0)
    /\ UNCHANGED <<author, install, staging, faults>>

Free(how) ==
    /\ install.at = "remove" /\ install.how = how
    /\ target.kind = "absent"

Completes ==
    /\ install' = NoInstall
    /\ UNCHANGED <<author, faults>>

Rename ==
    /\ Free("git")
    /\ target' = staging
    /\ staging' = Absent
    /\ Completes

SymLink ==
    /\ Free("path")
    /\ target' = Link
    /\ UNCHANGED staging
    /\ Completes

Lists ==
    LET source == registry[install.version] IN
    install' = [install EXCEPT !.at = "copy", !.seen = source,
                               !.todo = Held(source.tree), !.intact = TRUE]

\* Mutant: copy into whatever is there.
CopyTreeOver ==
    /\ install.at = "remove" /\ install.how = "registry"
    /\ target' = [target EXCEPT !.kind = "dir"]
    /\ Lists
    /\ UNCHANGED <<author, staging, faults>>

\* copytree lists the source once, then copies.
CopyTree ==
    /\ Free("registry")
    /\ target' = Dir(Bare)
    /\ Lists
    /\ UNCHANGED <<author, staging, faults>>

\* What the reading of a source gives, if all of it is read at once.
AsNow(name) ==
    LET source == registry[install.version] IN
    IF name \in source.torn THEN Torn(target, name, source.tree[name])
    ELSE With(target, name, source.tree[name])
SameNow == registry[install.version] = install.seen

\* copy2 reads a file from its opening to its end: the outcome so far.
CopyFile(name) ==
    /\ install.at = "copy"
    /\ install.open = {}
    /\ name \in install.todo
    /\ target' = AsNow(name)
    /\ install' = [install EXCEPT !.todo = @ \ {name}, !.open = {name},
                                  !.intact = @ /\ SameNow]
    /\ UNCHANGED <<author, staging, faults>>

\* The outcome in the end: what was read at the opening, what is read now, or,
\* if they are not the same whole file, the beginning of one and the end of
\* the other.
CopyEnds(name) ==
    LET source == registry[install.version] IN
    /\ install.at = "copy"
    /\ name \in install.open
    /\ \/ target' = target
       \/ target' = AsNow(name)
       \/ /\ \/ name \in source.torn \cup target.torn
             \/ source.tree[name] # target.tree[name]
          /\ target' = Torn(target, name, source.tree[name])
    /\ install' = [install EXCEPT !.open = {}, !.intact = @ /\ SameNow]
    /\ UNCHANGED <<author, staging, faults>>

Copied ==
    /\ install.at = "copy"
    /\ install.todo = {} /\ install.open = {}
    /\ UNCHANGED <<staging, target>>
    /\ Completes

\* A file being copied is left torn.
InstallKilled ==
    /\ install.at # "idle"
    /\ faults > 0
    /\ faults' = faults - 1
    /\ install' = NoInstall
    /\ target' = [target EXCEPT !.torn = @ \cup install.open]
    /\ UNCHANGED <<author, staging>>

-----------------------------------------------------------------------------
Author ==
    \/ \E project \in Projects : Edit(project)
    \/ StartPublish \/ (\E name \in Files : PublishFile(name)) \/ PublishManifest
    \/ \E name \in Names : PublishWritten(name)

Working ==
    \/ Unstage \/ Clone \/ CloneEnds \/ CleanGitMeta \/ RemoveTarget \/ Rename
    \/ SymLink \/ CopyTree \/ (\E name \in Names : CopyFile(name) \/ CopyEnds(name))
    \/ Copied

User ==
    \/ InstallGit \/ InstallPath
    \/ (\E v \in Versions : InstallRegistry(v)) \/ InstallLast

Fault == PublishKilled \/ InstallKilled \/ CloneFails

Next == Author \/ User \/ Working \/ Fault

\* A command goes on until it ends, and the user gives the git command again
\* and again.
Spec == Init /\ [][Next]_vars /\ WF_vars(Working) /\ SF_vars(InstallGit)

-----------------------------------------------------------------------------
\* Whatever was killed before, an installation that completes leaves what its
\* source held, nothing older, nothing less: the commit that was cloned, or
\* the version as it was listed, if no read of a file found it changed.
LeavesItsSource ==
    [][/\ Rename => target' = install.seen
       /\ Copied /\ install.intact => target = install.seen]_vars

\* A manifest in the registry comes after the files of its edition, killed
\* publications and new editions under an old version included; a file that is
\* torn beside it is being replaced by a later edition, or was the same
\* edition's, published once more over its manifest.
ManifestLast ==
    \A v \in Versions :
        LET tree == registry[v].tree
            e == tree[Manifest] IN
        e # 0 => \A name \in editions[e].files :
            /\ tree[name] >= e
            /\ name \in registry[v].torn => tree[name] > e \/ e \in again

\* A completed copy that has a whole manifest has the whole edition and no torn
\* file, even when it was made during a publication, or after publications
\* that were killed between two files or inside one, as long as the version
\* had no other edition and this one was not published over its own manifest.
OnlyEdition(e, v) == \A d \in begun : editions[d].version = v <=> d = e
ManifestMeansWhole ==
    [][Copied /\ target.tree[Manifest] # 0 /\ Manifest \notin target.torn =>
        \A e \in begun \ again :
            OnlyEdition(e, install.version) => target = Dir(Tree(e))]_vars

\* A user who has installed nothing yet and asks for a version gets one within
\* the constraint, and none within it has higher numbers, whatever else is in
\* the registry.
Within(v, c) ==
    CASE c.op = "^" -> v[1] = c.v[1] /\ Leq(c.v, v)
      [] c.op = "~" -> v[1] = c.v[1] /\ v[2] = c.v[2] /\ Leq(c.v, v)
      [] OTHER -> semver_satisfies(v, c)
ResolvesHighest ==
    install = NoInstall /\ target = Absent /\ staging = Absent =>
        \A shelf \in SUBSET Shelf, op \in Ops, w \in Versions \cup Shelf :
            LET versions == Published \cup shelf
                c == Constraint(op, w)
                r == resolve_version(versions, c) IN
            IF r = Nowhere THEN \A v \in versions : ~Within(v, c)
            ELSE Within(r, c) /\ \A v \in versions : Within(v, c) => Leq(v, r)

\* Once no more commands are killed and no more connections lost, the git
\* command gets through, whatever they left behind.
GitComesThrough == []<><<Rename>>_vars
=============================================================================
