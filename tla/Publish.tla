------------------------------ MODULE Publish ------------------------------
(***************************************************************************)
(* `reproto publish` against a repository kept in a local directory        *)
(* (lib/repository): an object store of files named by their checksum, and *)
(* per package a metadata.json with one line per deployment, ordered by    *)
(* version.  When the directory holds a .git (tracked) every file written  *)
(* is also added to git and every published version is one commit.         *)
(*                                                                         *)
(* Several publishers (operating-system processes) may run against the     *)
(* same directory; nothing in the code locks it.  Every system call that   *)
(* another process can observe is an action of its own.  Files are         *)
(* replaced by writing `<name>..tmp` and renaming it; that name is the     *)
(* same for every process, so a descriptor opened on it may find itself on *)
(* the published file, or on a file that no longer has a name.             *)
(***************************************************************************)
EXTENDS Integers, Sequences, FiniteSets

CONSTANTS
    Proc,       \* publishers
    Package,    \* package names
    Version,    \* versions, as integers: the order is that of semver
    Content,    \* schema sources; a checksum is identified with its content
    NoFile,     \* the name is not bound to a file
    Partial,    \* an object file that was created but not completely written
    Bad,        \* a metadata line that does not parse
    Tracked,    \* whether the directory may be a git work tree, or may be none
    Edits,      \* a source may be edited while it is being published
    MaxMatches, \* bound: packages published by one run
    MaxStarted  \* bound: matches of all runs together

ASSUME VersionAssumption == Version \subseteq Int
ASSUME FileAssumption == /\ NoFile \notin Content /\ Partial \notin Content
                         /\ NoFile # Partial
ASSUME FlagAssumption == Tracked \subseteq BOOLEAN /\ Edits \in BOOLEAN
ASSUME BoundAssumption == MaxMatches \in Nat \ {0} /\ MaxStarted \in Nat

Deployment == [version : Version, object : Content]
ASSUME LineAssumption == Bad \notin Deployment /\ NoFile \notin Seq(Deployment \cup {Bad})

Match == [package : Package, version : Version, source : Content]
Line == Deployment \cup {Bad}
ObjectFile == Content \cup {NoFile, Partial}
\* What git keeps: the files of a tree.  An absent metadata.json and an empty
\* one read the same, so <<>> stands for both.
Tree == [object : [Content -> ObjectFile], metadata : [Package -> Seq(Line)]]

VARIABLES
    object,       \* object files of the work tree
    objectTmp,    \* their temporary files
    metadata,     \* metadata.json of each package in the work tree
    metadataTmp,  \* their temporary files
    tracked,      \* the directory is a git work tree; this does not change
    staged,       \* its git index
    head,         \* the tree of its last git commit
    pc,           \* where each publisher is
    todo,         \* the matches its run has still to publish
    force,        \* its --force flag
    pending,      \* the deployments it is going to write
    line,         \* the number of lines of them it has written
    fd,           \* the name its open descriptor currently has
    started,      \* matches of the runs started so far
    acked,        \* history: the publications that returned Ok and still hold
    orphans       \* history: objects whose publisher died before adding them,
                  \*   until some commit has them

repo == <<object, objectTmp, metadata, metadataTmp>>
git == <<tracked, staged, head>>
proc == <<todo, force, pending, line>>
hist == <<acked, orphans>>
vars == <<repo, git, pc, proc, fd, started, hist>>

Init ==
    /\ object = [c \in Content |-> NoFile]
    /\ objectTmp = [c \in Content |-> NoFile]
    /\ metadata = [k \in Package |-> <<>>]
    /\ metadataTmp = [k \in Package |-> NoFile]
    /\ tracked \in Tracked
    /\ staged = [object |-> object, metadata |-> metadata]
    /\ head = staged
    /\ pc = [p \in Proc |-> "idle"]
    /\ todo = [p \in Proc |-> <<>>]
    /\ force = [p \in Proc |-> FALSE]
    /\ pending = [p \in Proc |-> <<>>]
    /\ line = [p \in Proc |-> 0]
    /\ fd = [p \in Proc |-> "closed"]
    /\ started = 0
    /\ acked = {}
    /\ orphans = {}

Cur(p) == Head(todo[p])
Goto(p, label) == pc' = [pc EXCEPT ![p] = label]

Indices(s) == 1..Len(s)
Deployments(k) == {metadata[k][i] : i \in Indices(metadata[k])}
Published(k) == {d \in Deployments(k) : d # Bad}
\* read_package fails on the first line that is not a deployment.
Readable(k) == Bad \notin Deployments(k)

(***************************************************************************)
(* FileIndex::put_version: drop the deployment of the same version, push   *)
(* the new one, sort by version with a stable sort.                        *)
(***************************************************************************)
\* Mutants (here and below, named after what goes wrong): they stand in for a
\* definition to see that the properties notice.
Kept_KeepsSame(s, v) == Indices(s)
Kept_KeepsOnlySame(s, v) == {i \in Indices(s) : s[i].version = v}
Kept(s, v) == {i \in Indices(s) : s[i].version # v}
StableOrders_Unsorted(s, K) ==
    {f \in [1..Cardinality(K) -> K] :
        \A i, j \in 1..Cardinality(K) : i < j => f[i] < f[j]}
StableOrders(s, K) ==
    {f \in [1..Cardinality(K) -> K] :
        \A i, j \in 1..Cardinality(K) : i < j =>
            \/ s[f[i]].version < s[f[j]].version
            \/ s[f[i]].version = s[f[j]].version /\ f[i] < f[j]}
Merged(s, d) ==
    LET all == Append(s, d)
        K == Kept(s, d.version) \cup {Len(all)}
    IN  {[i \in 1..Cardinality(K) |-> all[f[i]]] : f \in StableOrders(all, K)}

PutLine_Overwrites(s, k, d) == IF s = <<>> THEN <<d>> ELSE [s EXCEPT ![1] = d]
\* The `k`th line goes to its offset in the file; what lies between the end
\* of the file and that offset is a hole.
PutLine(s, k, d) ==
    [i \in 1..(IF k > Len(s) THEN k ELSE Len(s)) |->
        IF i = k THEN d ELSE IF i <= Len(s) THEN s[i] ELSE Bad]

\* After the temporary file took over the name of the published one.
Renamed(q) == CASE fd[q] = "tmp" -> "file" [] fd[q] = "file" -> "gone" [] OTHER -> fd[q]

-----------------------------------------------------------------------------
(* A run ends: everything was published, or some call failed. *)
Stop(p) ==
    /\ Goto(p, "idle")
    /\ todo' = [todo EXCEPT ![p] = <<>>]
    /\ force' = [force EXCEPT ![p] = FALSE]
    /\ pending' = [pending EXCEPT ![p] = <<>>]
    /\ line' = [line EXCEPT ![p] = 0]

Begin(p) ==
    /\ pc[p] = "idle"
    /\ \E n \in 1..MaxMatches : \E ms \in [1..n -> Match] :
          /\ started + n <= MaxStarted
          /\ todo' = [todo EXCEPT ![p] = ms]
          /\ started' = started + n
    /\ \E f \in BOOLEAN : force' = [force EXCEPT ![p] = f]
    /\ Goto(p, "check")
    /\ UNCHANGED <<repo, git, pending, line, fd, hist>>

(* Repository::publish: get_deployments, refused when it exists already. *)
Check(p) ==
    /\ pc[p] = "check"
    /\ LET k == Cur(p).package
           exists == \E d \in Published(k) : d.version = Cur(p).version
       IN  IF Readable(k) /\ (exists => force[p])
           THEN Goto(p, "putObject") /\ UNCHANGED proc
           ELSE Stop(p)
    /\ UNCHANGED <<repo, git, fd, started, hist>>

PutObject_TrustsTmp(p) ==
    /\ pc[p] = "putObject"
    /\ LET c == Cur(p).source
       IN  IF (object[c] # NoFile \/ objectTmp[c] # NoFile) /\ ~force[p]
           THEN Goto(p, "putVersion")
           ELSE Goto(p, "createObject")
    /\ UNCHANGED <<repo, git, proc, fd, started, hist>>

(* FileObjects::put_object: nothing to do when the file is there already. *)
PutObject(p) ==
    /\ pc[p] = "putObject"
    /\ IF object[Cur(p).source] # NoFile /\ ~force[p]
       THEN Goto(p, "putVersion")
       ELSE Goto(p, "createObject")
    /\ UNCHANGED <<repo, git, proc, fd, started, hist>>

CreateObject_InPlace(p) ==
    /\ pc[p] = "createObject"
    /\ object' = [object EXCEPT ![Cur(p).source] = Partial]
    /\ fd' = [fd EXCEPT ![p] = "file"]
    /\ Goto(p, "copyObject")
    /\ UNCHANGED <<objectTmp, metadata, metadataTmp, git, proc, started, hist>>

(* File::create truncates the temporary file when there is one already. *)
CreateObject(p) ==
    /\ pc[p] = "createObject"
    /\ objectTmp' = [objectTmp EXCEPT ![Cur(p).source] = Partial]
    /\ fd' = [fd EXCEPT ![p] = "tmp"]
    /\ Goto(p, "copyObject")
    /\ UNCHANGED <<object, metadata, metadataTmp, git, proc, started, hist>>

(* io::copy: the source is read a second time, the checksum is of the first. *)
CopyObject(p) ==
    /\ pc[p] = "copyObject"
    /\ \E c \in IF Edits THEN Content ELSE {Cur(p).source} :
          /\ objectTmp' = IF fd[p] = "tmp" THEN [objectTmp EXCEPT ![Cur(p).source] = c]
                                          ELSE objectTmp
          /\ object' = IF fd[p] = "file" THEN [object EXCEPT ![Cur(p).source] = c]
                                        ELSE object
    /\ fd' = [fd EXCEPT ![p] = "closed"]
    /\ Goto(p, "renameObject")
    /\ UNCHANGED <<metadata, metadataTmp, git, proc, started, hist>>

(* fs::rename fails when another publisher has already taken the file away. *)
RenameObject(p) ==
    /\ pc[p] = "renameObject"
    /\ LET c == Cur(p).source
           writers == {q \in Proc : pc[q] = "copyObject" /\ Cur(q).source = c}
       IN  IF objectTmp[c] = NoFile
           THEN Stop(p) /\ UNCHANGED <<object, objectTmp, fd>>
           ELSE /\ object' = [object EXCEPT ![c] = objectTmp[c]]
                /\ objectTmp' = [objectTmp EXCEPT ![c] = NoFile]
                /\ fd' = [q \in Proc |-> IF q \in writers THEN Renamed(q) ELSE fd[q]]
                /\ Goto(p, IF tracked THEN "addObject" ELSE "putVersion")
                /\ UNCHANGED proc
    /\ UNCHANGED <<metadata, metadataTmp, git, started, hist>>

AddObject_Skipped(p) ==
    /\ pc[p] = "addObject"
    /\ Goto(p, "putVersion")
    /\ UNCHANGED <<repo, git, proc, fd, started, hist>>

(* GitObjects::put_object: `git add` of the object, only when it was written. *)
AddObject(p) ==
    /\ pc[p] = "addObject"
    /\ staged' = [staged EXCEPT !.object[Cur(p).source] = object[Cur(p).source]]
    /\ Goto(p, "putVersion")
    /\ UNCHANGED <<repo, tracked, head, proc, fd, started, hist>>

(* FileIndex::put_version up to the call of write_package. *)
PutVersion(p) ==
    /\ pc[p] = "putVersion"
    /\ LET k == Cur(p).package
           new == [version |-> Cur(p).version, object |-> Cur(p).source]
           exists == \E d \in Published(k) : d.version = new.version
       IN  IF Readable(k) /\ (exists => force[p])
           THEN /\ \E s \in Merged(metadata[k], new) : pending' = [pending EXCEPT ![p] = s]
                /\ Goto(p, "createIndex")
                /\ UNCHANGED <<todo, force, line>>
           ELSE Stop(p)
    /\ UNCHANGED <<repo, git, fd, started, hist>>

CreateIndex_InPlace(p) ==
    /\ pc[p] = "createIndex"
    /\ metadata' = [metadata EXCEPT ![Cur(p).package] = <<>>]
    /\ fd' = [fd EXCEPT ![p] = "file"]
    /\ Goto(p, "writeIndex")
    /\ UNCHANGED <<object, objectTmp, metadataTmp, git, proc, started, hist>>

CreateIndex(p) ==
    /\ pc[p] = "createIndex"
    /\ metadataTmp' = [metadataTmp EXCEPT ![Cur(p).package] = <<>>]
    /\ fd' = [fd EXCEPT ![p] = "tmp"]
    /\ Goto(p, "writeIndex")
    /\ UNCHANGED <<object, objectTmp, metadata, git, proc, started, hist>>

WriteLine(p) ==
    /\ pc[p] = "writeIndex"
    /\ LET k == Cur(p).package
           n == line[p] + 1
           d == pending[p][n]
       IN  /\ metadataTmp' = IF fd[p] = "tmp"
                             THEN [metadataTmp EXCEPT ![k] = PutLine(metadataTmp[k], n, d)]
                             ELSE metadataTmp
           /\ metadata' = IF fd[p] = "file"
                          THEN [metadata EXCEPT ![k] = PutLine(metadata[k], n, d)]
                          ELSE metadata
           /\ IF n < Len(pending[p])
              THEN /\ line' = [line EXCEPT ![p] = n]
                   /\ UNCHANGED <<pc, fd>>
              ELSE /\ line' = [line EXCEPT ![p] = 0]
                   /\ fd' = [fd EXCEPT ![p] = "closed"]
                   /\ Goto(p, "renameIndex")
    /\ UNCHANGED <<object, objectTmp, git, todo, force, pending, started, hist>>

\* The publications a forced run is about to replace.
Replaced(p) == {a \in acked : /\ a.package = Cur(p).package
                              /\ a.version = Cur(p).version /\ force[p]}
Publication(p) == [package |-> Cur(p).package, version |-> Cur(p).version,
                   object |-> Cur(p).source]

(* Repository::publish returned Ok: on to the next match of the run. *)
Finish(p) ==
    /\ todo' = [todo EXCEPT ![p] = Tail(todo[p])]
    /\ pending' = [pending EXCEPT ![p] = <<>>]
    /\ line' = line
    /\ IF Len(todo[p]) > 1
       THEN Goto(p, "check") /\ force' = force
       ELSE Goto(p, "idle") /\ force' = [force EXCEPT ![p] = FALSE]

RenameIndex(p) ==
    /\ pc[p] = "renameIndex"
    /\ LET k == Cur(p).package
           writers == {q \in Proc : pc[q] = "writeIndex" /\ Cur(q).package = k}
       IN  IF metadataTmp[k] = NoFile
           THEN Stop(p) /\ UNCHANGED <<metadata, metadataTmp, fd, acked>>
           ELSE /\ metadata' = [metadata EXCEPT ![k] = metadataTmp[k]]
                /\ metadataTmp' = [metadataTmp EXCEPT ![k] = NoFile]
                /\ fd' = [q \in Proc |-> IF q \in writers THEN Renamed(q) ELSE fd[q]]
                /\ IF tracked
                   THEN /\ Goto(p, "addIndex") /\ UNCHANGED proc
                        /\ acked' = acked \ Replaced(p)
                   ELSE /\ Finish(p)
                        /\ acked' = (acked \ Replaced(p)) \cup {Publication(p)}
    /\ UNCHANGED <<object, objectTmp, git, started, orphans>>

AddIndex_Skipped(p) ==
    /\ pc[p] = "addIndex"
    /\ Goto(p, "commit")
    /\ UNCHANGED <<repo, git, proc, fd, started, hist>>

(* GitIndex::put_version: `git add` of metadata.json ... *)
AddIndex(p) ==
    /\ pc[p] = "addIndex"
    /\ staged' = [staged EXCEPT !.metadata[Cur(p).package] = metadata[Cur(p).package]]
    /\ Goto(p, "commit")
    /\ UNCHANGED <<repo, tracked, head, proc, fd, started, hist>>

(* ... and `git commit`, which exits with an error when nothing changed. *)
Commit(p) ==
    /\ pc[p] = "commit"
    /\ IF staged = head
       THEN Stop(p) /\ UNCHANGED <<head, hist>>
       ELSE /\ head' = staged
            /\ Finish(p)
            /\ acked' = acked \cup {Publication(p)}
            /\ orphans' = {c \in orphans : staged.object[c] = NoFile}
    /\ UNCHANGED <<repo, tracked, staged, fd, started>>

(* The process is killed, or a call returns an I/O error or a git exit code. *)
Fail(p) ==
    /\ pc[p] # "idle"
    /\ Stop(p)
    /\ fd' = [fd EXCEPT ![p] = "closed"]
    /\ orphans' = IF pc[p] = "addObject" THEN orphans \cup {Cur(p).source} ELSE orphans
    /\ UNCHANGED <<repo, git, started, acked>>

Step(p) ==
    \/ Check(p) \/ PutObject(p) \/ CreateObject(p) \/ CopyObject(p) \/ RenameObject(p)
    \/ AddObject(p) \/ PutVersion(p) \/ CreateIndex(p) \/ WriteLine(p) \/ RenameIndex(p)
    \/ AddIndex(p) \/ Commit(p)

\* All publishers stay idle once the bound on matches is reached.
Done == started = MaxStarted /\ (\A p \in Proc : pc[p] = "idle") /\ UNCHANGED vars

Next == (\E p \in Proc : Begin(p) \/ Step(p) \/ Fail(p)) \/ Done

Spec == Init /\ [][Next]_vars
-----------------------------------------------------------------------------
Label == {"idle", "check", "putObject", "createObject", "copyObject", "renameObject",
          "addObject", "putVersion", "createIndex", "writeIndex", "renameIndex",
          "addIndex", "commit"}

(* Every variable has the type its Rust counterpart gives it. *)
TypeOK ==
    /\ object \in [Content -> ObjectFile] /\ objectTmp \in [Content -> ObjectFile]
    /\ metadata \in [Package -> Seq(Line)]
    /\ metadataTmp \in [Package -> Seq(Line) \cup {NoFile}]
    /\ tracked \in BOOLEAN /\ staged \in Tree /\ head \in Tree
    /\ pc \in [Proc -> Label]
    /\ todo \in [Proc -> Seq(Match)] /\ \A p \in Proc : pc[p] # "idle" => todo[p] # <<>>
    /\ force \in [Proc -> BOOLEAN]
    /\ pending \in [Proc -> Seq(Deployment)]
    /\ line \in [Proc -> Nat]
    /\ fd \in [Proc -> {"closed", "tmp", "file", "gone"}]
    /\ started \in Nat
    /\ acked \subseteq [package : Package, version : Version, object : Content]
    /\ orphans \subseteq Content

(* Repository::resolve never reports "missing object": whatever publishers  *)
(* and crashes have done to metadata.json, every deployment that can be     *)
(* read from it names an object file that exists.                           *)
IndexedStored ==
    \A k \in Package : \A d \in Published(k) : object[d.object] # NoFile

Committed(k) == {head.metadata[k][i] : i \in Indices(head.metadata[k])} \ {Bad}
BeingAdded == {Cur(p).source : p \in {q \in Proc : pc[q] = "addObject"}}

(* What `git push` sends out is closed: a committed deployment has its      *)
(* object committed, waiting in the git index, about to be added, or its    *)
(* publisher was killed between writing the object and adding it; nobody    *)
(* but a forced publication ever adds such an orphan.                       *)
CommittedStored ==
    \A k \in Package : \A d \in Committed(k) :
        \/ head.object[d.object] # NoFile
        \/ staged.object[d.object] # NoFile
        \/ d.object \in orphans \cup BeingAdded

StrictlySorted(s) ==
    /\ \A i \in Indices(s) : s[i] # Bad
    /\ \A i, j \in Indices(s) : i < j => s[i].version < s[j].version

-----------------------------------------------------------------------------
(***************************************************************************)
(* What nothing in the code provides, and the properties from here on need *)
(* in one way or another: that of the publishers working on one package,   *)
(* or writing one object, at most one is at certain steps.  Publishers     *)
(* whose packages and sources differ may overlap in any way.               *)
(***************************************************************************)
PackageApart(S) ==
    \A p, q \in Proc :
        pc[p] \in S /\ pc[q] \in S /\ Cur(p).package = Cur(q).package => p = q
SourceApart(S) ==
    \A p, q \in Proc :
        pc[p] \in S /\ pc[q] \in S /\ Cur(p).source = Cur(q).source => p = q

Storing == {"copyObject", "renameObject"}       \* an object's temporary file exists
Writing == {"writeIndex", "renameIndex"}        \* so does that of metadata.json
Indexing == {"createIndex"} \cup Writing        \* metadata.json was read
Committing == Indexing \cup {"addIndex", "commit"}

Apart == PackageApart(Committing) /\ SourceApart(Storing \cup {"addObject", "commit"})
ApartSpec == Init /\ [][Next /\ Apart']_vars


(* The last matching line is the newest version: metadata.json, in the work *)
(* tree and in git, lists every version once and in order, whenever it is   *)
(* looked at.                                                               *)
Ordered ==
    \A k \in Package : StrictlySorted(metadata[k]) /\ StrictlySorted(head.metadata[k])

(* An object file that exists is complete and has the content its name      *)
(* promises, in the work tree and in git, although it is written in steps   *)
(* any of which may be the last one.                                        *)
Intact ==
    \A c \in Content : object[c] \in {NoFile, c} /\ head.object[c] \in {NoFile, c}

(* What publish reported as done is there to be resolved, and committed, as *)
(* long as no forced publication replaced it: no crash of a later run takes *)
(* it back.                                                                 *)
AckedHeld ==
    \A a \in acked :
        LET d == [version |-> a.version, object |-> a.object]
        IN  /\ d \in Published(a.package) /\ object[a.object] = a.object
            /\ tracked => /\ d \in Committed(a.package)
                          /\ head.object[a.object] = a.object \/ a.object \in orphans

(* A deployment leaves metadata.json only through a forced publication of   *)
(* its own version.                                                         *)
OnlyForceReplaces ==
    [][\A k \in Package : \A d \in Published(k) :
          \/ d \in Published(k)'
          \/ \E p \in Proc : /\ pc[p] = "renameIndex" /\ force[p]
                             /\ Cur(p).package = k /\ Cur(p).version = d.version]_vars

(* The repository, read by name, behaves like the registry it implements.   *)
R == INSTANCE Registry WITH registry <- [k \in Package |-> Published(k)],
                            store <- {c \in Content : object[c] = c}
RegistrySpec == R!Spec
=============================================================================
