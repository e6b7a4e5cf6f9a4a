----------------------------- MODULE Resolution -----------------------------
(***************************************************************************)
(* What a package that is built or imported resolves to: the files open in *)
(* an editor (lib/languageserver/workspace.rs, repository/src/resolver/    *)
(* packages.rs) come before those in the build paths (resolver/paths.rs),  *)
(* and these before the repository (resolvers.rs, repository.rs).          *)
(*                                                                         *)
(* A location is where a file is: a build path, a package, and the version *)
(* in its name, NoVersion for an ephemeral one.  A range is the set of     *)
(* versions it matches, NoVersion included if it is the one that matches   *)
(* any.                                                                    *)
(***************************************************************************)
EXTENDS Integers, FiniteSets

CONSTANTS
    Package,
    Version,   \* versions, in the order of semver
    Root,      \* build paths, in the order of the manifest
    Location   \* where there may be files

NoVersion == 0
AnyVersion == Version \cup {NoVersion}

ASSUME ResolutionAssumption ==
    /\ Version \subseteq Nat \ {0} /\ Root \subseteq Nat
    /\ Location \subseteq [root : Root, package : Package, version : AnyVersion]
    /\ IsFiniteSet(Location)

Required == [package : Package, range : SUBSET AnyVersion]
Object == [package : Package, version : Version]

Newest(R) == {r \in R : \A q \in R : q.version <= r.version}

(* Where a text comes from, which is read when its turn comes. *)
Source(from, url) == [from |-> from, url |-> url]
Resolved(version, from, url) == [version |-> version, source |-> Source(from, url)]
ReadOnly(source) == source.from = "repository"

(* The open files, and the files there are, are sets of locations.           *)
SameName(l, k) == l.package = k.package /\ l.version = k.version

(* open_files_resolver: of two files of one name that of the last path.  The *)
(* version is that in the name.                                              *)
Named(open) == {l \in open : \A k \in open : SameName(l, k) => k.root <= l.root}
FromOpen(open, p, range) ==
    Newest({Resolved(l.version, "editor", l) :
               l \in {l \in Named(open) : l.package = p /\ l.version \in range}})

(* find_by_range: an ephemeral file has the version it is published as. *)
PublishedAs(published, l) == IF l.version = NoVersion THEN published[l.package] ELSE l.version

(* Paths::resolve: the newest of the last path that has any. *)
FromPaths(disk, published, p, range) ==
    LET found == {l \in disk : l.package = p /\ PublishedAs(published, l) \in range}
        last == {l \in found : \A k \in found : k.root <= l.root}
    IN  Newest({Resolved(PublishedAs(published, l), "disk", l) : l \in last})

(* Repository::resolve; what comes out of a repository is read-only. *)
FromRepository(repository, p, range) ==
    Newest({Resolved(d.version, "repository", d) :
               d \in {d \in repository : d.package = p /\ d.version \in range}})

(* Resolvers::resolve: the first that finds something, in a set of one. *)
Resolve(open, disk, published, repository, required) ==
    LET o == FromOpen(open, required.package, required.range)
        p == FromPaths(disk, published, required.package, required.range)
    IN  IF o # {} THEN o
        ELSE IF p # {} THEN p
        ELSE FromRepository(repository, required.package, required.range)

(* resolve_packages, without what Manifest::resolve then passes over: of the *)
(* files of one name the open one, or that of the first path.                *)
ToBuild(open, disk) ==
    {[package |-> l.package, version |-> l.version, source |-> Source("editor", l)] :
        l \in Named(open)}
    \cup
    {[package |-> l.package, version |-> l.version, source |-> Source("disk", l)] :
        l \in {l \in disk : /\ \A k \in open : ~SameName(l, k)
                            /\ \A k \in disk : SameName(l, k) => l.root <= k.root}}
=============================================================================
