----------------------------- MODULE Workspace -----------------------------
(***************************************************************************)
(* The language server (lib/languageserver: lib.rs, workspace.rs): the     *)
(* files it loads for a project, over what the editor has open, what the   *)
(* build paths and the repository hold, and the questions it asks.  It     *)
(* handles one message at a time, in the order of the editor, which a load *)
(* is a part of, file by file; the disk is changed by others meanwhile.    *)
(*                                                                         *)
(* Of the diagnostics, those of the parser are modelled; what the compiler *)
(* finds in the same files is the subject of Session.                      *)
(***************************************************************************)
EXTENDS Resolution, Sequences, SequencesExt

CONSTANTS
    Text,         \* what a file may hold
    TextsAt(_),   \*   if it is at a location
    Uses(_),      \* the `use` declarations of a text, a sequence
    Broken,       \* texts that do not parse
    Manifest,     \* what reproto.toml may say
    Initial,      \* the manifest, and
    ExampleAt,    \*   where the example is, that initialize() writes
    Example,      \*   and the example itself
    None,
    Repositories, \* what the repository may hold
    MaxOpen,      \* bound: files open at a time
    MaxOthers,    \* bound: changes by others
    MaxQuestions  \* bound: questions asked

ListedFile == [package : Package, version : AnyVersion, at : Location]
Says == [auto : BOOLEAN, packages : Seq(Required), files : Seq(ListedFile),
         published : [Package -> AnyVersion]]

ASSUME WorkspaceAssumption ==
    /\ Manifest \ {None} \subseteq Says /\ {None, Initial} \subseteq Manifest /\ Initial # None
    /\ MaxQuestions \in Nat /\ MaxOthers \in Nat /\ MaxOpen \in Nat
    /\ \A r \in Repositories : DOMAIN r \subseteq Object /\ \A d \in DOMAIN r : r[d] \in Text
    /\ \A l \in Location : TextsAt(l) \subseteq Text
    /\ \A t \in Text : Uses(t) \in Seq(Required)
    /\ ExampleAt \in Location /\ Example \in TextsAt(ExampleAt)

VARIABLES
    \* The world.
    disk,          \* files in the build paths
    reproto,       \* reproto.toml, or None
    repository,    \* published objects
    others,        \* changes made by others so far
    \* The editor.
    open,          \* the texts of open files
    editing,       \* that of reproto.toml, None if it is not open
    shown,         \* the diagnostics it shows: files that do not parse
    questions,     \* questions the user has not answered
    \* The server.
    manifestError, packages, files, expected, nextId,
    started,       \* the first load was asked for
    initializing,  \* "no", or what initialize() does next: "manifest", "look" or "example"
    \* Its load.
    building,      \* the manifest that is being loaded, or None
    todo,          \* sources of the manifest that are left
    stack,         \* files that are being processed, the last one first
    required,      \* lookup_required: what was found for a requirement
    versioned,     \* lookup_versioned: packages that were come across
    \* History.
    gone,          \* packages whose file was not there when it was to be read
    current,       \* the last message led to a load, which went through
    steady,        \* no file changed during the load that is running or was the last
    lately,        \* files that others changed since initialize() began, and ...
    latelyManifest \* whether they changed the manifest

world == <<disk, reproto, repository, others>>
editor == <<open, editing>>
loaded == <<manifestError, packages, files>>
asked == <<questions, expected, nextId>>
lookups == <<required, versioned, gone>>
loading == <<building, todo, stack, lookups>>
creation == <<initializing, lately, latelyManifest>>
vars == <<world, editor, shown, loaded, asked, started, loading, current, steady, creation>>

Idle == building = None

With(f, x, y) == [z \in DOMAIN f \cup {x} |-> IF z = x THEN y ELSE f[z]]
Without(f, x) == [z \in DOMAIN f \ {x} |-> f[z]]

-----------------------------------------------------------------------------
(* What there is to load.                                                    *)
VersionedPackage(p, v) == [package |-> p, version |-> v]

(* The resolvers of a manifest, for files open as o, on a disk d. *)
Find(m, o, d, r) == Resolve(DOMAIN o, DOMAIN d, m.published, DOMAIN repository, r)

(* Open files come first, then the paths one by one; the files of a          *)
(* directory in any order.                                                   *)
Precedes(s, t) ==
    LET isOpen(x) == x.source.from = "editor"
    IN  \/ isOpen(s) /\ ~isOpen(t)
        \/ isOpen(s) /\ isOpen(t) /\ s.package = t.package /\ s.version < t.version
        \/ ~isOpen(s) /\ ~isOpen(t) /\ s.source.url.root < t.source.url.root

InOrder(seq) == \A i, j \in DOMAIN seq : i < j => ~Precedes(seq[j], seq[i])

ToProcess(p, v, source) == [package |-> p, version |-> v, source |-> source]

(* Manifest::resolve: the sources to process, in the orders there may be.  A *)
(* file that is listed is read from the disk.                                *)
Sources(m, o, d) ==
    LET auto == IF m.auto THEN {q \in SetToSeqs(ToBuild(DOMAIN o, DOMAIN d)) : InOrder(q)}
                ELSE {<<>>}
        listed == [i \in DOMAIN m.files |->
                      LET f == m.files[i]
                      IN  ToProcess(f.package, f.version, Source("disk", f.at))]
        packaged == [i \in DOMAIN m.packages |->
                        LET r == CHOOSE r \in Find(m, o, d, m.packages[i]) : TRUE
                        IN  ToProcess(m.packages[i].package, r.version, r.source)]
    IN  {q \o listed \o packaged : q \in auto}

Unresolved(m, o, d) == \E i \in DOMAIN m.packages : Find(m, o, d, m.packages[i]) = {}

(* open_manifest: what is being edited comes first. *)
ManifestSeen(e, r) == IF e # None THEN e ELSE r

Diagnosed(f) == {u \in DOMAIN f : f[u].text \in Broken}

(* send_workspace_diagnostics: nothing is sent for a file that is gone. *)
SendDiagnostics == shown' = (shown \ DOMAIN files) \cup Diagnosed(files)

GivenUp == SendDiagnostics /\ current' = FALSE /\ UNCHANGED <<packages, files, loading, steady>>

Reload_ClearsFirst(o, e, d) ==
    LET m == ManifestSeen(e, reproto)
    IN  \/ m = None /\ UNCHANGED manifestError /\ GivenUp
        \/ /\ m # None /\ Unresolved(m, o, d)
           /\ manifestError' = TRUE /\ packages' = <<>>
           /\ SendDiagnostics /\ current' = FALSE /\ UNCHANGED <<files, loading, steady>>
        \/ /\ m # None /\ ~Unresolved(m, o, d)
           /\ todo' \in Sources(m, o, d)
           /\ manifestError' = FALSE /\ packages' = <<>> /\ files' = <<>>
           /\ building' = m /\ stack' = <<>>
           /\ required' = <<>> /\ versioned' = {} /\ gone' = {}
           /\ current' = FALSE /\ steady' = TRUE
           /\ UNCHANGED shown

(* Workspace::reload, with the files open as o, reproto.toml open as e, on   *)
(* the disk d.  Without a manifest, or with one that asks for what there is  *)
(* not, everything stays as it was; one that does not parse is not told      *)
(* apart from the latter.                                                    *)
Reload(o, e, d) ==
    LET m == ManifestSeen(e, reproto)
    IN  \/ m = None /\ UNCHANGED manifestError /\ GivenUp
        \/ m # None /\ Unresolved(m, o, d) /\ manifestError' = TRUE /\ GivenUp
        \/ /\ m # None /\ ~Unresolved(m, o, d)
           /\ todo' \in Sources(m, o, d)
           /\ manifestError' = FALSE /\ packages' = <<>> /\ files' = <<>>
           /\ building' = m /\ stack' = <<>>
           /\ required' = <<>> /\ versioned' = {} /\ gone' = {}
           /\ current' = FALSE /\ steady' = TRUE
           /\ UNCHANGED shown

-----------------------------------------------------------------------------
(* The load.                                                                 *)
Missing(source) == source.from = "disk" /\ source.url \notin DOMAIN disk
Read(source) ==
    CASE source.from = "editor"     -> open[source.url]
      [] source.from = "disk"       -> disk[source.url]
      [] source.from = "repository" -> repository[source.url]

File(name, source) ==
    LET t == Read(source)
    IN  [package |-> name, url |-> source.url, text |-> t, readOnly |-> ReadOnly(source),
         uses |-> IF t \in Broken THEN <<>> ELSE Uses(t), prefixes |-> {}]

(* process_package: the first source of a versioned package stays, and a     *)
(* file that is not there has no URL.                                        *)
ProcessPackage(name, source, below) ==
    /\ versioned' = versioned \cup {name}
    /\ gone' = IF name \notin versioned /\ Missing(source) THEN gone \cup {name} ELSE gone
    /\ stack' = IF name \in versioned \/ Missing(source) THEN below
                ELSE <<File(name, source)>> \o below

ProcessSource ==
    /\ ~Idle /\ stack = <<>> /\ todo # <<>>
    /\ LET s == Head(todo)
       IN  ProcessPackage(VersionedPackage(s.package, s.version), s.source, <<>>)
    /\ todo' = Tail(todo)
    /\ UNCHANGED <<world, editor, shown, loaded, asked, started, building, required, current, steady>>

Prefix_Writable(name, source) == [package |-> name, readOnly |-> FALSE]
Prefix(name, source) == [package |-> name, readOnly |-> ReadOnly(source)]

(* process_file and process_required, for the next `use` of a file: what was *)
(* found for a requirement is remembered before it is loaded, which ends     *)
(* cycles.                                                                   *)
ProcessRequired ==
    /\ stack # <<>> /\ Head(stack).uses # <<>>
    /\ LET file == Head(stack)
           u == Head(file.uses)
           found == Find(building, open, disk, u)
           answer == IF u \in DOMAIN required THEN required[u]
                     ELSE {Prefix(VersionedPackage(u.package, r.version), r.source) : r \in found}
           below == <<[file EXCEPT !.uses = Tail(@), !.prefixes = @ \cup answer]>> \o Tail(stack)
       IN  /\ required' = With(required, u, answer)
           /\ \/ /\ u \in DOMAIN required \/ found = {}
                 /\ stack' = below /\ UNCHANGED <<versioned, gone>>
              \/ /\ u \notin DOMAIN required
                 /\ \E r \in found :
                       ProcessPackage(VersionedPackage(u.package, r.version), r.source, below)
    /\ UNCHANGED <<world, editor, shown, loaded, asked, started, building, todo, current, steady>>

(* The file goes into the maps when it has been processed. *)
ProcessFile ==
    /\ stack # <<>> /\ Head(stack).uses = <<>>
    /\ LET file == Head(stack)
       IN  /\ files' = With(files, file.url, file)
           /\ packages' = With(packages, file.package, file.url)
    /\ stack' = Tail(stack)
    /\ UNCHANGED <<world, editor, shown, manifestError, asked, started, building, todo, lookups,
                   current, steady>>

Loaded ==
    /\ ~Idle /\ stack = <<>> /\ todo = <<>>
    /\ building' = None
    /\ SendDiagnostics
    /\ current' = TRUE
    /\ UNCHANGED <<world, editor, loaded, asked, started, todo, stack, lookups, steady>>

-----------------------------------------------------------------------------
(* Messages.                                                                 *)
Files == UNION {{f \in [L -> Text] : \A l \in L : f[l] \in TextsAt(l)} : L \in SUBSET Location}

Init ==
    /\ disk \in Files
    /\ reproto \in Manifest
    /\ repository \in Repositories
    /\ others = 0
    /\ open = <<>> /\ editing = None
    /\ shown = {} /\ questions = {}
    /\ manifestError = FALSE /\ packages = <<>> /\ files = <<>>
    /\ expected = <<>> /\ nextId = 0
    /\ building = None /\ todo = <<>> /\ stack = <<>>
    /\ required = <<>> /\ versioned = {} /\ gone = {}
    /\ started = FALSE /\ current = FALSE /\ steady = TRUE
    /\ initializing = "no" /\ lately = {} /\ latelyManifest = FALSE

(* `initialized`: the first load. *)
Initialized ==
    /\ ~started /\ started' = TRUE
    /\ Reload(open, editing, disk)
    /\ UNCHANGED <<world, editor, asked>>

(* handle_manifest_error: what it asks depends on whether there is a manifest. *)
Ask ==
    LET kind == IF reproto # None THEN "ProjectAddMissing" ELSE "ProjectInit"
    IN  /\ nextId < MaxQuestions
        /\ questions' = questions \cup {[id |-> nextId, kind |-> kind]}
        /\ expected' = With(expected, nextId, kind)
        /\ nextId' = nextId + 1

(* It asks about a file that the last load did not come across. *)
DidOpen(l) ==
    /\ l \in DOMAIN disk \ DOMAIN open /\ Cardinality(DOMAIN open) < MaxOpen
    /\ open' = With(open, l, disk[l])
    /\ IF l \in DOMAIN files THEN UNCHANGED asked ELSE Ask
    /\ Reload(open', editing, disk)
    /\ UNCHANGED <<world, editing>>

DidChange_LoadsLater(l, t) ==
    /\ l \in DOMAIN open /\ t # open[l]
    /\ open' = With(open, l, t)
    /\ UNCHANGED <<world, editing, shown, loaded, asked, loading, current, steady>>

DidChange(l, t) ==
    /\ l \in DOMAIN open /\ t # open[l]
    /\ open' = With(open, l, t)
    /\ Reload(open', editing, disk)
    /\ UNCHANGED <<world, editing, asked>>

DidClose(l) ==
    /\ l \in DOMAIN open
    /\ open' = Without(open, l)
    /\ Reload(open', editing, disk)
    /\ UNCHANGED <<world, editing, asked>>

DidSave(l) ==
    /\ l \in DOMAIN open
    /\ disk' = With(disk, l, open[l])
    /\ Reload(open, editing, disk')
    /\ UNCHANGED <<reproto, repository, others, editor, asked>>

(* The same for reproto.toml, about which it never asks. *)
DidOpenManifest ==
    /\ editing = None /\ reproto # None
    /\ editing' = reproto
    /\ Reload(open, editing', disk)
    /\ UNCHANGED <<world, open, asked>>

DidChangeManifest(m) ==
    /\ editing # None /\ m \notin {None, editing}
    /\ editing' = m
    /\ Reload(open, editing', disk)
    /\ UNCHANGED <<world, open, asked>>

DidCloseManifest ==
    /\ editing # None
    /\ editing' = None
    /\ Reload(open, editing', disk)
    /\ UNCHANGED <<world, open, asked>>

DidSaveManifest ==
    /\ editing # None
    /\ reproto' = editing
    /\ Reload(open, editing, disk)
    /\ UNCHANGED <<disk, repository, others, editor, asked>>

Answered(q) ==
    /\ q \in questions
    /\ questions' = questions \ {q}
    /\ UNCHANGED <<world, editor, shown, loaded, nextId, started, loading, current, steady,
                   lately, latelyManifest>>

(* handle_response: an error is dropped before the question is looked up. *)
AnswerError(q) ==
    /\ Answered(q)
    /\ UNCHANGED <<expected, initializing>>

AnswerIgnore(q) ==
    /\ Answered(q)
    /\ expected' = Without(expected, q.id)
    /\ UNCHANGED initializing

(* env::initialize: it looks for a file, and creates it in a later step, by  *)
(* which time it may be there.                                               *)
LookForManifest_Skipped == initializing' = "manifest"
LookForManifest == initializing' = IF reproto = None THEN "manifest" ELSE "look"

(* handle_project_init, handle_project_add_missing: nothing is loaded before *)
(* the editor has opened the manifest as it is told to.                      *)
AnswerDo(q) ==
    /\ Answered(q)
    /\ q.id \in DOMAIN expected
    /\ expected' = Without(expected, q.id)
    /\ IF expected[q.id] = "ProjectInit" THEN LookForManifest ELSE UNCHANGED initializing

Creating == UNCHANGED <<repository, others, editor, shown, loaded, asked, started, loading,
                        current, steady>>
Created == initializing' = "no" /\ lately' = {} /\ latelyManifest' = FALSE

CreateManifest ==
    /\ initializing = "manifest"
    /\ reproto' = Initial
    /\ initializing' = "look"
    /\ Creating /\ UNCHANGED <<disk, lately, latelyManifest>>

LookForExample ==
    /\ initializing = "look"
    /\ IF ExampleAt \in DOMAIN disk THEN Created
       ELSE initializing' = "example" /\ UNCHANGED <<lately, latelyManifest>>
    /\ Creating /\ UNCHANGED <<disk, reproto>>

CreateExample ==
    /\ initializing = "example"
    /\ disk' = With(disk, ExampleAt, Example)
    /\ Created
    /\ Creating /\ UNCHANGED reproto

OneMore == others < MaxOthers /\ others' = others + 1

(* Others change the files, which the server is not told, also while it      *)
(* loads them.                                                               *)
OtherWrites(l, t) ==
    /\ disk' = IF t = None THEN Without(disk, l) ELSE With(disk, l, t)
    /\ disk' # disk
    /\ OneMore
    /\ steady' = (steady /\ Idle)
    /\ lately' = IF initializing = "no" THEN lately ELSE lately \cup {l}
    /\ UNCHANGED <<reproto, repository, editor, shown, loaded, asked, started, loading, current,
                   initializing, latelyManifest>>

OtherWritesManifest(m) ==
    /\ m # reproto /\ reproto' = m
    /\ OneMore
    /\ latelyManifest' = (initializing # "no")
    /\ UNCHANGED <<disk, repository, editor, shown, loaded, asked, started, loading, current, steady,
                   initializing, lately>>

Edit ==
    \/ \E l \in Location : DidOpen(l) \/ DidClose(l) \/ DidSave(l)
    \/ \E l \in Location : \E t \in TextsAt(l) : DidChange(l, t)
    \/ DidOpenManifest \/ DidCloseManifest \/ DidSaveManifest
    \/ \E m \in Manifest : DidChangeManifest(m)

Message ==
    \/ Initialized /\ UNCHANGED creation
    \/ started /\ UNCHANGED <<started, creation>> /\ Edit
    \/ \E q \in questions : AnswerError(q) \/ AnswerIgnore(q) \/ AnswerDo(q)

Load == UNCHANGED creation /\ (ProcessSource \/ ProcessRequired \/ ProcessFile \/ Loaded)

Initialize == CreateManifest \/ LookForExample \/ CreateExample

Other ==
    \/ \E l \in Location : \E t \in TextsAt(l) \cup {None} : OtherWrites(l, t)
    \/ \E m \in Manifest : OtherWritesManifest(m)

Next == (Idle /\ initializing = "no" /\ Message) \/ Load \/ Initialize \/ Other

Spec == Init /\ [][Next]_vars
-----------------------------------------------------------------------------
Own(l) == VersionedPackage(l.package, l.version)

Listed(l) == \E m \in Manifest \ {None} : \E i \in DOMAIN m.files : m.files[i].at = l

(* doc/usage/language-server.md: diagnostics "at the speed that you are      *)
(* typing".  After every message with a manifest that can be used, what is   *)
(* known about a file that is open, and what the editor shows of it, is      *)
(* about the text in the editor, whatever happened to the disk during the    *)
(* load or since.  It is not so for a file that is listed in `files`, or     *)
(* imported as the version it is published as.                               *)
AsYouType ==
    current =>
        \A l \in DOMAIN open \cap DOMAIN files :
            files[l].package = Own(l) /\ ~Listed(l) =>
                files[l].text = open[l] /\ (l \in shown <=> open[l] \in Broken)

(* A prefix in a loaded file leads to a file that is loaded, whichever       *)
(* imports of whichever files were resolved before it, and whatever became   *)
(* of the manifest since.  Only a file that was not there is in the way, be  *)
(* it listed or deleted during the load.                                     *)
Complete ==
    Idle => \A u \in DOMAIN files : \A p \in files[u].prefixes :
                p.package \in DOMAIN packages \cup gone

(* doc/usage/language-server.md: packages from the repository "cannot be     *)
(* modified through refactoring".  A prefix of a package whose file is       *)
(* read-only is itself read-only, also when other imports reached the        *)
(* package first, unless files came or went during the load.                 *)
ReadOnlyKept ==
    steady =>
        \A u \in DOMAIN files : \A p \in files[u].prefixes :
            p.package \in DOMAIN packages /\ files[packages[p.package]].readOnly => p.readOnly

(* An answer overwrites nothing that was created since it was asked for: the *)
(* files are looked for when it comes.  What initialize() does overwrite is  *)
(* only what others wrote at the very time it was at work.                   *)
AnswersOverwriteNothing ==
    [][initializing # "no" /\ UNCHANGED others =>
          /\ reproto \in {None, reproto'} \/ latelyManifest
          /\ \A l \in DOMAIN disk \ lately : l \in DOMAIN disk' /\ disk'[l] = disk[l]]_vars
=============================================================================
