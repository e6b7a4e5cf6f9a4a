# Verification of reproto

reproto compiles schemas: packages written in its own language are found
through a manifest and a repository, translated to a flavored intermediate
representation, and handed to one backend per target language. Around that
compiler stand the parts in which state outlives a function call: the
repository of published packages, its caches, the object server, the language
server, the watcher and the self-updater. This directory holds TLA+ models of
those parts and of the algorithms in the compiler whose results are easy to get
wrong, the TLC configurations that check them on small instances, and proofs
that TLAPS checks for every instance.

## 1. Inventory

| Component | State it keeps | Operations | What makes it hard | What makes it correct |
|---|---|---|---|---|
| Repository (`lib/repository`: `repository.rs`, `index/`, `objects/`) | `metadata.json` per package, object files by checksum, the git index and commits around them | publish, resolve, resolve_by_prefix, all, get_object | several processes, no lock; tmp-and-rename writes; a crash between any two steps; `--force`; retries | a readable deployment always names a stored object; one deployment per version, in order; nothing is replaced without `--force`; what was reported done stays |
| Object cache (`objects/cached_objects.rs`) in front of HTTP objects (`lib/repository-http`) | cached object files, markers for missing objects with their age | get, put | a download that dies half way, a marker that outlives the absence, the clock | a cached object is what the server holds; an object that exists is eventually served |
| Object server (`server/src`) | the object store behind a mutex | GET, PUT | concurrent uploads, an upload and a download of one object, the checksum is checked on the decoded body | only content that matches its checksum is stored; a download sees a whole object |
| Git checkouts (`git/`, `index/git_index.rs`) | a clone per remote | set up, update, open, publish to | set up in steps, any of which can fail; set up only when the directory is missing; no lock across calls of git | an update that succeeds brings what was upstream, unless another command is halfway through a fetch, a reset or a publication; a checkout that cannot be opened is one whose set-up failed |
| Resolvers (`resolver/`) | open files, source paths, repository | resolve, resolve_by_prefix | precedence of sources and of versions | the newest matching version; the same answer by name and by prefix |
| Compiler session (`lib/trans/session.rs`) | maps of required and versioned packages, files, types | import, import_source, process_file, packages | cyclic imports, a package reached through two ranges, failures that leave entries behind | what is translated is closed; a session is refused exactly when something is wrong with it |
| Names of packages (`session.rs`, `packages.rs`) | packages without a name, names given | packages, translate | rounds, versions that naming runs together | no package's file takes the place of another's |
| Translation of declarations (`lib/trans/into_model.rs`, `scope.rs`, `attributes.rs`) | scope, fields seen so far | into_model | duplicate names, sub-type and field keys, ordinals | what is accepted decodes unambiguously |
| Generated programs (`lib/backend-*`) | none, in the compiler | encode, decode | nine ways to tell a missing field from null, a sub-type from another, a number from a larger one | a value survives the exchange; what does not fit is refused |
| Services (`into_model.rs`, `lib/path-*`, the `reqwest` and `requests` modules, `lib/backend-openapi`) | none | declare, call | an argument is for the path or for the body; texts in paths; one document for all | a call reaches its endpoint with its arguments |
| OpenAPI documents (`lib/backend-openapi`) | a queue of components, names allocated | build | names shortened while others wait | a reference leads to the component of its name |
| Derive (`lib/derive`) | shapes seen per path, candidate types by hash | derive from examples | merging shapes, optional fields, the order of keys | the derived declaration accepts its examples |
| Semantic version checker (`lib/semck`) | none | check | rules differ per kind of change and per component of the version | releases of a major version can be upgraded, fixes both ways |
| Versions and ranges (`lib/semver`) | none | parse, cmp, matches, Display | pre-releases, partial versions, `^` and `~` on zeros | a range selects the interval it stands for, also after it is printed and read again |
| Publish gate (`cli/src/ops/publish.rs`, `cli/src/utils.rs`) | the index it validates against | semck_check, feature check | several conditions combined | nothing invalid is published |
| Language server (`lib/languageserver`) | open files, workspace (files, packages, import graph, diagnostics), requests expected by id | LSP requests and notifications | edits between a load and its answers, answers out of order, two texts of one file | what the client sees is what it typed; a rename changes no meaning |
| Watcher (`cli/src/ops/watch.rs`) | watched paths, files written | compile, watch, unwatch | events during a build, files that move, a failed build | an edit of a watched file is built; only outputs of the last build remain |
| Self-update (`cli/src/ops/self_update.rs`) | archives, binaries, a symlink | update | downloads and links done in steps | the link names a whole binary |
| Manifest (`lib/manifest`) | none | parse, resolve | presets, packages by prefix | - |
| Parser and lexers (`lib/parser`, `lib/lexer`, `lib/path-*`, `lib/regex-*`) | position | next token | look-ahead, string escapes | - |

How they interact: the CLI and the language server read the manifest, build a
`Resolver` out of open files, paths and the repository, and drive a `Session`
which asks the resolver for every import; `publish` asks the session to load
what it publishes, checks it against the repository's last version, and then
writes objects and index; the repository's objects may sit behind HTTP, served
by `server`, cached by `CachedObjects`; `update` fetches the git checkouts the
index and the objects live in. A translated session goes to a backend, and the
programs generated from it talk to each other in JSON and over HTTP.

## 2. Plan

What outlives a function call comes first, because it is what several
processes, crashes and orders of messages can spoil; then the compiler, from
the session outwards; then the algorithms whose results are easy to get wrong;
then the remaining drivers.

| # | Modules | Question | State |
|---|---|---|---|
| 1 | `Registry`, `Publish`, `PublishProofs` | does publishing keep the promises of a registry, through kills, retries and races | done |
| 2 | `ObjectServer`, `RemoteObjectsProofs` | do concurrent uploads and downloads see whole objects | done |
| 3 | `RemoteObjects` (composes `ObjectServer`), `RemoteObjectsProofs` | does a cache in front of it serve what is stored, and in the end everything that is | done |
| 4 | `Session`, `SessionProofs` | is a session that is translated closed, and nothing wrong passed over | done |
| 5 | `Semck`, `UpkeepProofs` | is what the checker accepts compatible, over a series of releases | done |
| 6 | `PublishGate`, `PublishGateProofs` | do options and verdicts combine to what the documentation says | done |
| 7 | `Resolution`, `Workspace` (composes `Resolution`), `WorkspaceProofs` | does the language server show what is typed, and load everything it refers to | done |
| 8 | `Declarations`, `Codec` and a module per backend, `Exchange` (composes them) | do the programs generated from an accepted declaration understand each other | done |
| 9 | `Derive` (composed in `Exchange`) | does a derived declaration accept every document it was derived from | done |
| 10 | `Watch`, `UpkeepProofs` | is every edit eventually built, is no output of the last build deleted | done |
| 11 | `PackageNames`, `VersionsProofs` | are translated packages named apart | done |
| 12 | `GitCheckout`, `UpkeepProofs` | can a checkout that was not set up be repaired, does an update lose what is upstream | done |
| 13 | `Versions`, `Requirements`, `VersionsProofs` | do ranges match the interval they stand for, through being printed | done |
| 14 | `OpenApi`, `CodecOpenApi`, `UpkeepProofs` | does a reference lead to what it names, does a schema describe the documents | done |
| 15 | `Services`, `UpkeepProofs` | does a call reach its endpoint | done |
| 16 | `SelfUpdate`, `UpkeepProofs`, `Navigation`, `NavigationProofs` | does the link name a whole binary, are all uses renamed | done |
| 17 | - | identifiers that are keywords of a target, code blocks, validations of strings | left |
| 18 | - | the Go and JAX-RS services, gRPC | left |

Theorems worth proving, in this order: type correctness, "no missing object"
and what is committed, of publishing, and what publishers that work apart keep
up to the registry they implement; the safety of the object server, and of the
cache in front of it; what sessions translate and refuse; what the publish
command claims; the updates of checkouts, the link of the self-updater and the
watcher; what ranges match, what packages are called, and what the checker's
verdicts mean for a chain of releases; the language server's view of its files,
and that a requirement is resolved whenever any source has a match; the names
and references of OpenAPI documents; what a call of a service carries; that
renames, definitions, references and completions agree with the compiler. These
are done (section 6).

## 3. Modules

Names follow the code: an action is named for the function it models, and a
label in `pc` or `at` for the call that comes next. Within a module an
operator `X_How` before an operator `X` is a variant of it with a plausible
mistake, kept to see that the properties notice; nothing else refers to it.

### Publishing: `Registry`, `Publish`, `PublishProofs`, `MCPublish`

`Publish` follows `reproto publish` from the check of one match to its commit
(`repository.rs`, `index/file_index.rs`, `objects/file_objects.rs` and their
git variants), system call by system call, for any number of publishers that
share a directory. `object` and `objectTmp` are the object files and their
temporary files, `metadata` and `metadataTmp` those of the packages, as lines
of which some may not parse (`Bad`); `staged` and `head` are the index and the
last commit of git. What a process has opened it keeps by descriptor: `fd` says
whether that is still the temporary file, by now the published file, or a file
without a name, which is how two publishers that use the same temporary name
get into each other's way. `Fail` stops a publisher anywhere, as a kill, an
I/O error or a bad exit code of git does; `Begin` starts it again, with the
same matches or with others. `todo`, `force`, `pending` and `line` are the
local variables of `publish` and `write_package`. `acked` and `orphans` are
history: what was reported as done, and objects whose publisher died before
adding them to git.

`Registry` is what the repository promises: one deployment per version, naming
an object that can be fetched; `Publish` implements it with the deployments
that can be read and the objects that are whole.

`ApartSpec` is `Spec` for publishers that do not get into each other's way
(`Apart`): of those working on one package at most one is between reading its
metadata and committing it, and of those writing one object at most one is
between copying, adding and committing it; and `Edits` is off, so sources stay
as they are. Nothing in the code sees to that, so these are conditions under
which its promises hold; they are weaker than one publisher at a time, for
publishers of other packages and objects overlap at will.

* `publish_apart`: two publishers of two packages, in a git work tree or not,
  with two versions and two contents, runs of up to two matches, three matches
  in all (`MaxStarted`). Metadata is ordered (`Ordered`), objects are whole
  (`Intact`), what was reported is there and is committed (`AckedHeld`), only
  `--force` replaces (`OnlyForceReplaces`), and the registry is implemented
  (`RegistrySpec`). Two versions show an insertion before and after another
  one; three matches a publication, a kill and a retry, or two publishers of
  which one takes up what the other left.
* `publish_race`: two publishers at once, sources edited while they are read.
  Ordering, one line per version and acknowledged publications do not survive
  this, and the code does not claim that they do; no deployment ever names a
  missing object (`IndexedStored`), and what is committed is closed but for
  orphans (`CommittedStored`).

`AckedHeld` has an exception that the code forces: a publisher that dies after
it renamed the object and before `git add` leaves an object that no later run
adds, since `put_object` then reports that it wrote nothing.

### Objects over HTTP: `ObjectServer`, `RemoteObjects`, `RemoteObjectsProofs`, `MCRemoteObjects`

`ObjectServer` is the handler of `server/src/reproto_service.rs`, one label per
point at which another handler can run, with the store's `create`, `copy` and
`rename` apart. The mutex is `lock`; a download releases it between finding the
file and opening it. Requests go wrong in every way the handler tells apart
(`Headers`), bodies need not match, I/O fails, and the process restarts, which
loses the requests and leaves temporary files.

`RemoteObjects` puts clients in front: `CachedObjects` over `HttpObjects`. The
cache and its markers outlive the processes and are shared by them; a client
blocks, so a client is named by its request. `marker` is an age that `Tick`
advances; `SetBack` puts the clock back, which leaves a marker in the future.

* `remote_two`: two clients in one cache; two uploads, two faults. `Partial`
  files in the cache are accounted for (`CacheAccounted`), an acknowledged
  upload stays (`PutStored`), and the server's own promises hold under real
  clients (`StoreMatches`, `StoredForGood`).
* `remote_live`: one client, two objects; that the client is served what it
  asked for (`ServedWhole`), that an object that exists gets into the cache
  (`EventuallyCached`), and that every request is answered (`AllAnswered`).

Fairness. Handlers are tasks of a runtime that polls them all
(`WF(Handler)`, `WF(ServerSide)`); a client that blocks goes on when it is
answered (`WF(Proceed)`); time passes (`WF(Tick)`). Nothing is assumed of whom
the mutex goes to: a waiting handler gets it because uploads are bounded.
`EventuallyCached` assumes that somebody keeps asking for the object
(`SF(GetObject)`), since nothing is fetched otherwise; it is strong fairness
because the client is busy with other calls in between. Failures are never
fair, and bounded.

### Compiler session: `Session`, `SessionProofs`

`Session` loads roots and what they use (`lib/trans/session.rs`, and the
`use` part of `into_model.rs`). The recursion `import` - `load_source_diag` -
`into_model` - `import` is a stack of frames. What there is to load is chosen
in `Init` and fixed: for every source its `use` declarations and what is wrong
with it, for every requirement what it resolves to. `driver` tells the command
line, which gives up when a root failed, from the language server, which goes
on to translate.

* `session`: two sources, requirements, packages, roots and uses per file:
  enough for a file that uses itself, two that use each other, a root that is
  also imported, and one package reached through two ranges.

What is translated is closed under `use` (`Closed`). `OpenedOnce` bounds the
loading by what was asked, which with the finite stack is why loading ends;
`NothingSilent` and `RefusedForCause` say together that a session is refused if
and only if something is wrong with it.

### The command: `PublishGate`, `PublishGateProofs`, `MCPublishGate`

`PublishGate` is one `reproto publish` or `reproto check`, above `Publish`:
which packages are meant and in which version (`cli/src/utils.rs`), validation
of all of them, the decision, and the publications. The publication of one
match is one step here. `Other` is somebody else who publishes meanwhile.

* `publish_gate`: all options, manifest entries of up to two packages, one
  named package, two versions of which one is a pre-release, three sources of
  which one cannot be loaded and one has features, one publication by others.
  A run that says it is careful publishes nothing that is not valid
  (`Careful`), and one that succeeds has published all it was asked to
  (`OkPublishes`).
* `publish_semck`: see the findings.

### Language server: `Resolution`, `Workspace`, `WorkspaceProofs`, `MCWorkspace`

`Resolution` says what a package resolves to: open files, then build paths,
then the repository; within each the newest, except that the last build path
wins on import and the first on build. `Workspace` is the server
(`lib/languageserver`): every notification that reloads, the load itself, the
diagnostics it sends, the questions it asks and the answers it handles. It
handles one message at a time, so that nothing the editor sends gets into a
load (`Idle`); the files, however, change on the disk at any time, in the
middle of a load too (`OtherWrites`), and so does the manifest. That holds for
`env::initialize` too, which carries out an answer: it looks for the manifest
(`LookForManifest`), creates it (`CreateManifest`), looks for the example
(`LookForExample`) and creates that (`CreateExample`), four steps with anything
others do in between, each of which overwrites what came since the look. A load starts
with the sources of the manifest (`Reload`, `todo`), in one of the orders in
which the files of a directory may be found, and processes them one by one
(`ProcessSource`). The recursion `process_package` - `process_file` -
`process_required` is a stack of files, each with the `use` declarations it has
left: `ProcessRequired` takes the next one, resolves it on the disk as it is by
then, and puts the file it leads to on top; `ProcessFile` takes a file that is
finished off the stack into the maps. `required` and `versioned` are
`lookup_required` and `lookup_versioned`. Whether a file is there and what it
holds is found out in one step, where the code canonicalizes its path and opens
it next. `gone`, `current` and `steady` are history: packages whose file was not
there, whether the last message led to a load that went through, and whether the
files stayed as they were during a load; `lately` and `latelyManifest`, what
others changed while `initialize` is at work. Of the diagnostics only those of the
parser are modelled; those of the compiler come from a `Session` over the same
resolver. The positions and ranges of changes in a text, and queries, are not
modelled.

* `workspace`: a package that uses another one twice, by any version and by
  version 1; the other one has files in two build paths and may be in the
  repository. Manifests: none, one that builds the paths and publishes and
  lists the second package, and the one `initialize` writes. Two files open,
  one change by others at any point, of an `initialize` too, two questions. The
  run does not check
  deadlock: with no file to open the editor may have nothing to do.

`AsYouType` is claimed for a file known by its own name: a file that is listed
in `files`, or imported as the version it is published as, is read from the
disk also while it is open, or resolved under two names. `ReadOnlyKept` is
claimed for loads during which no file came or went: a file that appears
between two requirements which a package meets makes it writable for one and
leaves it read-only for the other. `Complete` makes an exception of a file that
is deleted, or was listed and never there, when its turn comes.
`AnswersOverwriteNothing` makes one of what others write while `initialize` is
at work: the code checks with `is_file` and creates later, so it does overwrite
that. What was created from the question until the answer comes is kept.

### Declarations and what is generated from them: `Codec`, `Declarations`, `CodecRust` .. `CodecOpenApi`, `Derive`, `Exchange`, `MCExchange`

`Codec` has the declarations as they come out of the translation, values and
JSON documents, with the helpers of `lib/core`. `Declarations` says which of
them `into_model.rs` accepts, and what the attributes of a file make of the
fields of a type. A module per backend (`CodecRust`, `CodecJava` with Jackson,
`CodecPython`, `CodecJs`, `CodecGo`, `CodecCsharp` with Json.NET, `CodecSwift`
with both of its modules, `CodecDart`) has an encoder and a decoder for every
kind of declaration, the ones that the code written by that backend amounts to,
and whether the language's compiler takes that code at all. The libraries the
programs call (serde, Jackson, the standard ones) are external and modelled by
how the generated code uses them. `CodecOpenApi` says which documents the
schema of a declaration describes. `Derive` makes a declaration of a document,
as `reproto derive` does.

`Exchange` is two programs that hand a value back and forth: `Send` encodes what
a program holds, `Receive` decodes, `Lose` takes a field out of the document on
its way, and `Gain` adds one, which is what a writer generated from a later
declaration does. A behaviour starts with a sample (a declaration with a value)
or a document, from which the declaration is then derived.

* `exchange`: any two of nine libraries, 52 samples of the kinds of declaration
  and of types in files with attributes; every untagged interface of two
  sub-types over two fields that may be missing, required or optional (324
  cases: whether the order that `into_model.rs` asks for is enough takes two
  sub-types and two names to tell); 343 documents, each with two values that
  may have nothing, something or everything in common, in a field of two
  objects or next to each other in an array. Values survive (`Preserved`), fit
  the OpenAPI schema (`Described`), a decoder does not make up a required field
  (`Complete`), a field that was added is passed over (`Tolerant`), and derived
  declarations fit (`Fitting`). The run does not check deadlock: an exchange
  ends when a document is refused.
* `derive_documented`: see the findings.

Integers have widths of 3, 4 and 5 bits in the place of 32, 53 (those a double
holds exactly) and 64, so that the bounds of every kind of integer are in reach.
Numbers with a fraction are counted in halves.

The backends do not agree on everything, and no document of the repository says
that they do. `Lost`, `Misdescribed` and `Unfit` are the exact places; each
names a type, a backend and a value, and everything else is claimed:

* JavaScript rounds integers beyond 53 bits; Java's are signed; a whole number
  of type `double` is written without a point by JavaScript, Go and Swift, and
  then refused by Python and Dart;
* a tuple of one element is bare in Rust, and written bare but read as an array
  in Python; an empty one is null in Go; optional elements work only between
  Rust and Dart; Java does not compile one with fractions;
* Python reads sub-types by identifiers and not by names; so does Java to tell
  the sub-types of an untagged interface apart; Go keeps the variable that says
  so between two of them; C# reads an untagged interface in a field of another
  one wrongly; JavaScript writes `if ()` for a sub-type without required fields;
  Java names `Untagged` whatever the interface is called;
* OpenAPI describes fields by identifiers, calls fractions integers, and has
  every sub-type of an untagged interface that fits;
* Java, Go and C# have default values for missing required fields; Swift's
  simple module wants the exact keys of an untagged interface;
* `derive` passes over a null next to other values, and makes a list of
  sub-types in a field the interface of one.

### The parts around the compiler: `MCUpkeep`, `UpkeepProofs`, `VersionsProofs`

Nine parts share no state with each other: each is a module with its own
variables, initial states, actions, specification and properties, and `MCUpkeep`
holds their instances and their sum, where `part` chooses the one that moves and the others stay in one initial
state. A single run checks them all, with the same states as nine runs.
`upkeep` does not check deadlock, since an algorithm ends with its result.

* **`Versions`, `Requirements`** (`lib/semver`). Versions and their order,
  ranges from the tokens on, as they are read and printed. A requirement is
  read, printed, and read again, and matched with versions that went through
  an index. `Selects`: a range matches the versions in the intervals of its
  predicates (`Intended`: those of `lib.rs:127-160` with the order of versions
  for `>=` and `<`), and pre-releases only of versions it names one of. For the
  pre-releases of the bounds of a caret, tilde or wildcard (`OnBound`), where
  the code differs from the documentation, it says what the code does
  (section 4), and for `*`. Ranges have every operator and
  shape, and pairs that bound an interval from either side, or let one predicate
  name the pre-release that another one is asked about; `MaxNumber` stands for the largest
  u64, at which an increment fails.
* **`PackageNames`** (`trans/session.rs`, `trans/packages.rs`). Rounds in which
  packages get as little of their version into their names as tells them
  apart, then what naming and keywords of the backend make of them and which
  file is under a name in the end. `Distinct`: two packages share a name only
  when one without version is called like a version of the other, or when
  naming (C#, Swift) or keywords run names together; otherwise no file takes
  another's place. Up to four packages of nine, with versions that run
  together (1.11, 1.1.1) and pre-releases.
* **`OpenApi`** (`backend-openapi`). The queue of components of a document and
  the names they get, one type described in a step: `Refer` is `type_to_schema`
  with the queueing of whoever called it, `MetFor` what is met in a declaration,
  and `AddComponent` what `process_components` does when all of it is described.
  `Resolved`: a reference leads to the component of its name, but for those in
  arrays, maps and variables of paths, and to services; a document is refused
  because of a sub-type used as a type, a name numbered twice, or another name
  that reads like a numbered one (`PV100A0`). Declarations of each kind that
  refer to each other, three of which want the same short name, under several
  prefixes, and services of two endpoints: each reason to refuse occurs.
* **`Watch`** (`cli/src/ops/watch.rs`). Builds, watched paths, events, edits at
  any step. `Noticed`: no edit of a watched path is slept over. `Swept`: with
  `--delete` no older build leaves anything behind, and nothing that belongs
  there is deleted. Six states of a project of three files in two directories,
  four edits, two starts: one edit before, one during and one after a build,
  and one more.
* **`GitCheckout`** (`lib/repository/src/git`, `index/git_index.rs`,
  `index/file_index.rs`). Commands that share a checkout, in the steps others
  can get between, with calls that fail and commands that are killed anywhere.
  A fetch learns what is upstream and writes it to FETCH_HEAD later (`Fetch`,
  `Fetched`), so that of two the older one may be the last; a reset reads
  FETCH_HEAD and puts the files there later (`Reset`, `Checkout`); a
  publication reads metadata.json, writes a temporary file that has one name
  for all, and renames it (`PutVersion`, `Rename`), then adds and commits.
  `origin` is the history upstream, `commit` and `list` are what a command
  has read and goes on from, `stale` says (history) that others have changed it
  since. `Updated`: after an update that succeeded the checkout has, and keeps,
  everything that was upstream when it started, but for what nothing in the
  code prevents: a publisher that read metadata.json before or during the reset
  renames it after, or writes the temporary file with another; a fetch or reset
  is overtaken by another; a reset is killed halfway. Each exception is needed:
  without it TLC finds the property violated. And only a failed set-up, which
  nothing repairs, leaves a checkout nobody can open. Two commands at a time,
  three in all, one failure, two releases: an update, and one that overtakes it
  or goes on from what it read before, or two that publish at once. The commands
  differ in nothing, nor do the releases, so TLC takes both up to symmetry.
* **`SelfUpdate`** (`cli/src/ops/self_update.rs`). Two commands that choose,
  unpack, check and link a version, and are killed. `Linked`: the link names a
  whole binary, but for one whose unpacking was cut short, is under way, or had
  nothing in it. Two versions, one a pre-release; three commands, one killed.
* **`Semck`** (`lib/semck/src/lib.rs`, `cli/src/utils.rs`). The
  checks as operators over declarations, and a definition of what programs
  built from two schemas say to each other (`Sent`, `Understands`). Three
  releases of one declaration of every kind, each compared with its
  predecessor; three are what transitivity is about. `UpgradesWork`: a release
  can be replaced by any later one of its major version; `FixesMatch`: patch
  releases both ways. Both have two premises about the releases from the one to
  the other (`FromTo`): they were made in the order of their versions, none of
  them again (`InOrder`; what was made before or after them, such as a fix of an
  older release, does not matter), and they keep what the checker does not look
  at (`SameShape`). A release that is made when a newer one is there is never
  compared with that one, and without `InOrder` TLC finds both properties
  violated.
* **`Services`** (`into_model.rs`, `attributes.rs`, `lib/path-lexer`,
  `lib/path-parser`, the `reqwest` and `requests` modules, the paths of
  `backend-openapi`). An endpoint is declared, its path read character by
  character, accepted or refused; then a program calls it, the generated client
  makes a request, a server that follows the document hears it and answers.
  `Called`: through the Rust client the call reaches its endpoint with each
  argument once, can be heard as no other, and the answer is returned, as long
  as the service is served at the root of its host, each variable is the end of
  its path or followed by something that no escaped text has, and no text in
  the path is empty (`Sound`). A path is kept as its parts, a slash where a step
  starts. The characters are what the sets of the lexer tell apart and what is
  escaped (`Percent`); a percent sign of its own is not one of them. One
  endpoint with some eighty paths and seven lists of arguments, forms of
  endpoints, and pairs that share a method, a path or a name.
  `python_calls`, over `MCServices` alone: see the findings.
* **`Navigation`** (`languageserver/workspace.rs`, `loaded_file.rs`,
  `lib.rs`). What the language server registers for the names of loaded files,
  and from it renames with their edits, definitions, references and
  completions, next to what the compiler makes of the same names (`Meant`).
  `Navigates`: a definition is what the compiler finds, the references are
  those it takes for the same, what is offered is what can be there, and a
  rename to a fresh name changes the meaning of no name. A file is one that the
  parser and the compiler let pass (`WellNamed`: `into_model.rs:827`,
  `session.rs:536`), though its names may lead nowhere. Not promised is what a
  rename does to a sub-type (`hidden`) and to read-only files: neither is
  registered. 72 projects of three files: nested declarations, a sub-type, two
  versions of a package, a prefix with an underscore, read-only files and one
  that does not parse.

## 4. Hazards

`PROJECT.json` lists what is hard to test, at the line where it bites, and the
properties that watch it. Where it names none, the code gives no promise to
check: two publishers lose each other's version; a source is edited between its
checksum and its copy; diagnostics of files that went away.

The models also show behaviour that a reader of the code may not expect, most
of which no document or test of the repository speaks against. Properties make
an exception of it where they are stated, or it is outside of their premises:

* Publishing. The object left by a publisher that dies before `git add` is
  added by no later run. `put_object` over HTTP reports a new object whatever
  the server had.
* Releases. The checker does not look at kinds, keys of sub-types, positions in
  tuples and requests (`doc/semck.md:3` speaks of "semantic violations"
  without a list); a release made after a newer one is compared with its
  predecessor only (`utils.rs:290`).
* Ranges. `lib/semver/lib.rs:146` has `^1.2.3` stand for `>=1.2.3 <2.0.0`. They
  part on pre-releases of the two bounds, which another predicate of the range
  has to name: `^1.2.3` and `~1.2.3` match 1.2.3-alpha, as a missing pre-release
  counts as the first (`range.rs:356`), `>=1.2.3` does not (`range.rs:294`);
  `<2.0.0` matches 2.0.0-alpha, `^1.2.3` does not (`range.rs:320`). Wildcards are
  like that as well (`lib.rs:155-160`), but for `*`, which is no `>=0.0.0`: it
  matches every pre-release. `Intended` is what the documentation has,
  `Selects` names the exceptions; without the first TLC finds
  `>=1.0.0-1, ^1.0` to match 1.0.0-1.
* Resolvers. The first one with a match wins over a newer version further on,
  and among build paths the last on import and the first on build
  (`resolvers.rs:21`).
* Translation. What an interface reserves is not checked against its own common
  fields. A `format` on a field that is no string is passed over with the
  feature. A variant without value after one with a value gets that value, and
  is refused as a conflict. `lower_snake` naming leaves names as they are
  written.
* Services. A `path` is not asked for; two endpoints may share a path and a
  method, and are one in the document. The Rust client drops the path of its
  base URL, takes `//` at the start of a path for a host, does not look at the
  status, reads texts as JSON, and does not compile with `UPDATE`. The Python
  client has no bodies, writes its parameters without commas, and escapes
  nothing. Braces in segments are not escaped in the document.
* OpenAPI. The counter gives the first number twice, so that a third component
  of one name is refused; one declaration is a component for every prefix it is
  imported by.
* Watching. A path that is removed ends the command when it is watched again;
  files read by a failed build are not watched; when one file of a directory
  leaves the build the others are watched no longer; an edit before its file is
  watched starts no build.
* Git. A failed set-up leaves a directory that only deleting repairs;
  `reset --hard` drops publications that are not pushed; two commands share a
  FETCH_HEAD, so that an update may end up with what an older fetch of another
  brought; a publication that read metadata.json before an update resets it
  writes the old one, and its own release, over the new one.
* Self-update. A response without location is refused also when it is no
  redirect; a download that was cut off is linked the next time; an archive
  without a binary leaves a link to nothing, which the next link fails on; mode
  0755 is decimal.
* Names. Sub-types, and declarations in them, are not registered, so a rename
  misses their references, and one that starts from such a reference changes
  references only. Read-only files that refer to a renamed declaration are not
  changed; files that do not parse are skipped; a reference with an unknown
  prefix leads to the file's own declaration; after a prefix with an underscore
  nothing is offered.
* Language server. An answer that is an error leaves its question in the table
  for good; a change that cannot be applied leaves those before it applied; one
  file whose name has no valid version fails every import from its directory.

## 5. Findings

* `cli/src/ops/publish.rs:120`: violations of semantic versioning do not stop a
  publication (`publish_semck`): `!no_semck || semck_errors.is_empty()` is true
  whenever --no-semck is not given, and with it, where it may be false, line 122
  refuses only a schema that also has features enabled. The option is inverted.
  For the same reason a schema with enabled features is published, which
  `doc/schema_versioning.md:35` rules out: line 122 asks for both to be wrong.
* `lib/derive/lib.rs:438`: for a list of objects that a key other than `type`
  tells apart, `reproto derive` writes an attribute that the compiler refuses
  as unknown, where `doc/derive.md:88` shows one with the strategy and the tag
  (`derive_documented`).
* `lib/backend-python/src/module/requests.rs:96`: the Python client joins the
  pieces of a path, its slashes among them, with slashes, so that no call
  reaches its endpoint (`python_calls`); `doc/spec.md:809` says that `path` is
  the path the endpoint uses, and `it/structures/python2` joins without any.

## 6. Proofs

A behaviour of any length, with any number of publishers, clients, commands,
packages, versions, contents and requests, and whatever the bounds: for that
TLAPS proves the theorems below. Each rests on an inductive invariant, shown to
hold in `Init` and to survive every action, one step of the proof per action.
The invariants say what the properties leave out, which is what makes them
inductive.

* `PublishProofs`. `TypeCorrect` (`TypeOK`) needs two facts more, since what a
  publisher writes is `pending[p][line[p] + 1]`, into whichever file its
  descriptor is on: the lines written so far are fewer than those to write
  (`LineOK`), and a descriptor on the temporary file is on a file that exists
  (`OpenOK`); `TypeInv` is the conjunction. `NeverMissing` (`IndexedStored`) is
  not inductive either, because a line gets into `metadata` by the rename of a
  file any publisher may have written, or through a descriptor after that
  rename: `StoredInv` says that the lines of every file, temporary ones too, and
  those a publisher still has to write name stored objects, and that from
  `addObject` on the object of a publication is stored. `ObjectsStay` is why it
  is preserved: no step removes an object. `MergedElements` and
  `PutLineElements` say what the lines of a rewritten file are made of.
  `PushedClosed` (`CommittedStored`) adds git: what is committed was staged,
  what is staged was in the work tree, where every line names a stored object,
  so `CommitInv` accounts for every stored object: it is staged, an orphan, or
  somebody is about to add it.
* Publishers that work apart, in `PublishProofs` too. Each theorem is of `Spec`
  and excludes no more than it needs: `OrderedApart` (`Ordered`) that two publishers write the temporary file
  of one package, `ReplacedByForce` (`OnlyForceReplaces`) that one of them reads
  the metadata while the other is about to replace it, `IntactApart` (`Intact`)
  that two write one object, or that sources are edited; `AckedApart`
  (`AckedHeld`) needs `Apart`, up to the commit. The invariants say what one
  publisher may count on while the others move: the temporary file holds the
  lines it has written so far, of a list in order (`OrderInv`); that list is the
  metadata as it is now, with its own deployment merged in (`IndexInv`), which
  rests on what `put_version` makes of a list in order (`MergedSorted`); the
  object it is about to rename is whole (`IntactInv`); and what was acknowledged
  is in the work tree, the index of git and the commit (`HeldInv`).
  `ImplementsRegistry` (`RegistrySpec`) maps each step to one of `Registry` or to
  a stutter: an object is stored by the rename of its file, a version published
  by the rename of `metadata.json`, and no other step is visible. It needs
  nothing about git. `WorkingApart` puts all together for `ApartSpec`, the
  specification `publish_apart` runs. Of publishers that race they are false.
* The object server, in `RemoteObjectsProofs`. `Inv` adds to the type and to `StoreMatches` what
  handlers know between their steps: an upload past its checksum has a body
  that is its object, one about to rename has a whole temporary file, a download
  about to open its file has found it, and an answer of success is right.
  `Exclusion` (two uploads are never both under the mutex) is why another
  handler cannot spoil the temporary file in between. From `Inv` follow
  `MutexHeld` (`ServerTypeOK`), `OnlyMatching` (`StoreMatches`), `Delivered`
  (`DownloadMatches`), `Acknowledged` (`UploadStored`), and `ForGood`
  (`StoredForGood`), a property of steps.
* The cache, in `RemoteObjectsProofs`. `BehindTheCache` shows that a step of a client, of the
  clock or of a fault is a step of `ObjectServer` or leaves its variables alone,
  so that everything above holds under real clients. On top of it `RemoteInv`
  says what a client knows while it waits: its request has not been forgotten,
  what it has got stays its own until it is in the cache, and a cached file it is
  about to read exists (`Serving`). `CacheTrue` (`CacheAccounted`) and `PutKept`
  (`PutStored`) follow for any number of clients in one cache; `Served`
  (`ServedWhole`) is for a client that has the cache for itself (`Alone`), as two
  that share it can read each other's half-written files.
* `SessionProofs`. `SessionInv` follows a file from its opening to its
  registration. A frame on the stack has looked up everything it used so far and
  has a diagnostic exactly when something of that was not found (`FrameOK`); a
  registered file has found all it uses (`FilesOK`); and as long as nothing is
  reported, every package found is registered or on the stack, and every source
  opened is fine or on the stack (`Pending`). That a failure empties the stack
  without registering anything is no exception, because it reports first, and
  nothing is translated from then on (`Decided`, `Blamed`). With an empty stack
  this is `ClosedAtTheEnd` (`Closed`), `NothingPassedOver` (`NothingSilent`) and
  `RefusedFairly` (`RefusedForCause`). `LoadedOnce` (`OpenedOnce`) counts: a
  source is opened by the step that remembers what required it.
* `PublishGateProofs`. `Gated` says what is settled in each phase: up to the
  decision nothing is published, what was validated could be loaded, and only
  `publish` gets past it. `PutHolds` and `PutAdds` say what a publication does to
  the index. `AlwaysCareful` (`Careful`), `PublishesWhatItClaims` (`OkPublishes`).
* `UpkeepProofs`, in six parts. `GitInv` says where a command can be, and that
  what it has fetched or read is no older than when it started and than what
  others brought, unless it is `stale` (`Located`, `Fresh`); and that what an
  update brought is in the tree and in all that others go on from (`Brought`).
  What makes it hold with several commands in one checkout is that a step which
  overtakes another marks it, and that what is upstream only grows, so that no
  other reset or rename undoes what an update before it brought. `NothingLost`
  (`Updated`). `UpdateInv`: whatever was unpacked at all is
  whole, under way, or known to be torn or hollow, and so is what a command is
  about to link. `LinkHolds` (`Linked`). `Heard`: an edit since the build that
  is running or was the last is in the queue, or was one nobody could hear of;
  `Tracked`: the command knows of everything it wrote. `NoticesAll` (`Noticed`)
  and `SweepsAll` (`Swept`). Of releases: what the checker finds nothing wrong
  with is a relation, `Extends` for minor and `Repeats` for patch releases, and
  both are transitive (`ExtendsChain`, `RepeatsChain`); a release is compared
  with the newest full one below it (`HasNewest`, which keeps that there is one
  without induction over finite sets), which lies between it and any older one
  that was there, so that full releases of a major version that were made in
  order are a chain (`Chained`), and a declaration that extends another understands all that is
  sent for it (`GrowsUnderstood`). `EveryUpgradeWorks` (`UpgradesWork`),
  `EveryFixMatches` (`FixesMatch`). They take from the compiler that fields,
  names, variants and endpoints of one declaration are different
  (`SchemaAssumption`, `into_model.rs:379`, 1283, 1506 and 1743). Of documents:
  while one is built a name is plain or has the first number of its base, which
  is taken by then, and no base was numbered twice (`NamesApart`); what is being
  described has a name or is about to get one (`Subjected`), everything
  described before has its component (`Placed`). As a base is either numbered
  or not, a numbered name that is taken is taken by a plain one
  (`AllocateApart`). `EveryReferenceResolves` (`Resolved`). Of calls:
  `ServiceInv` says what an accepted service is (`Known`), what was sent and
  what a reply may be; all that is hard is in the paths. Their readers and their
  text are recursive functions of a sequence, which are first shown to exist
  (`LexedFor`, `ParsedFor`, `FlatFor`) and then used by their equations, with a
  least counterexample (`Least`) in the place of induction. A path that can be
  read starts with one slash and has text in each part (`PathRead`), so that no
  URL is taken for another host (`UrlKept`); each piece of a text has a place in
  it (`Laid`), and at the first piece two readings disagree on, the shorter one
  would meet what cannot be escaped too early (`NoShorter`, `ReadBack`).
  `EveryCallArrives` (`Called`).
* `WorkspaceProofs`. Between loads nothing the properties speak of changes but
  `current`, so `Settled` is the properties themselves; what makes them true is
  settled during a load (`Loading`). A source on the list or found later leads
  where it says, and to an open file under its own name only by way of the
  editor, unless the file is listed (`Sound`), so a file that was read holds what
  the editor has (`AsTyped`); a package that was come across is in the maps, on
  the stack or gone, which is what a cycle of imports relies on that finds its
  requirement answered before it is loaded; and as long as the files stay, what
  was read from the repository has no file (`Unreached`), while what a prefix
  that is not read-only leads to has one (`Writable`). `FindTells` says this of
  every answer of the resolvers, from what they looked at first and did not find
  (`FromOpenFinds`, `FromPathsFinds`), and `FindAgrees` that several files which
  tie are of one version. That something is found at all where there is a match
  rests on finite sets having a greatest member (`Greatest`), which is a smallest
  counterexample, as there is no induction here. Since the editor does not get
  into a load, and what others do only ends `steady`, each step keeps this
  (`LoadGoesOn`). `Initializing`: a file that `initialize` is about to create is
  not there, or others put it there meanwhile. `ShownAsTyped` (`AsYouType`), `LoadsWhole` (`Complete`),
  `StaysReadOnly` (`ReadOnlyKept`), `OverwritesNothing`
  (`AnswersOverwriteNothing`); `FoundIfAnywhere` is about `Resolve` alone.
* `NavigationProofs`, of any number of files with declarations nested to any
  depth. The path of a declaration and whether the server gets to it
  (`Processed`) are recursive functions of its place in the file. Each is first
  shown to exist, on ever longer beginnings of the file, and then used by its
  equations; that two declarations have different paths (`PathsDiffer`) and what
  a rename makes of all paths (`PathsRenewed`) is shown for the first
  declaration for which it fails, whose parent comes before it. For a fixed
  project the server's answers are right because what it registers has exactly
  one key (`KeysAre`), the package and path that the compiler gives the name
  (`StepIs`), and different keys name different declarations (`NamedOnly`): this
  is `TracedHolds`, and `SuitableHolds` for completions. Of a rename
  `PrefixEdited` and `TypeEdited` say which names are edited: those with the
  prefix in that file, or every declaration and every step of a reference that
  has the key. Then the path of a declaration becomes `Renewed`, the name where
  the key ends replaced in all that is at or below it, and the path of a
  reference becomes the same of what it was, step by step
  (`RenewedReference`), whether it is relative or not. As the new name was
  nowhere, different paths stay different (`RenewedApart`), so each name finds
  what it found (`PrefixKeeps`, `TypeKeeps`). `NavigationInv` adds to `Renamed`
  what the next rename needs: the files still are what the compiler accepts
  (`StaysWellNamed`), and the names not given yet are still nowhere
  (`StaysUnused`). `NamesKeepMeaning` (`Navigates`).
* `VersionsProofs`, about data of any size: texts of any number of tokens,
  ranges of any number of predicates, pre-releases of any length. Nothing here
  is recursive, so no induction over data is needed: texts are taken apart by
  position, and two pre-releases by the least position in which they differ
  (`PresCompare`). What is printed is read again, versions as they are
  (`VersionsRead`) and predicates up to what their wildcard leaves unread
  (`Printed`; `OperatorsRead`, `WildcardsRead`), which changes nothing that is
  matched (`PrintedMatches`); the code's cases are intervals (`CasesMatch`),
  which differ from the documented ones in the pre-releases of their bounds
  alone (`BoundsRounded`, `IntendedMatches`). `ReadingInv` is where a requirement can be between its
  readings. `RequirementsSelect` (`Selects`). `NamesInv` follows the rounds:
  all that wait have come as far, each because of another with its name
  (`WaitingInv`); a name was nobody's else in its round (`NamedInv`). Names get
  two, three, four and then all parts of the version, a package without version
  can be called like a version at one level at most, and at the last level
  versions are told apart: so there are never more than four rounds, and
  versions never share a name. `NamesDistinct` (`Distinct`).

The theorems assume what the modules assume of their constants, each named
where it is declared and evaluated by TLC in every run: distinct markers for
absent and partial files, versions that are integers, bounds that are numbers, a
finite set of matches, a release to publish; texts that consist of tokens;
packages and releases of an index that differ in more than the build of their
version, as they are the keys of a map; declarations that the compiler accepts;
services made of endpoints, types and declarations; finitely many places for
files, and manifests that speak of them; characters that are still different
when escaped, and are none of those that are not; files that the parser and the
compiler let pass, each of a package of its own, and new names for renames that
are all different and not in them yet.

`TypeCorrect`, `MutexHeld`, `Delivered` and `Acknowledged` are not checked by a
run of their own: the first two are parts of the invariants the others need, and
under real clients the last two are what `ServedWhole` and `PutStored` are about.

The attempt to prove `Selects` showed the two ways to leave out a pre-release
(section 4), which no instance that had been checked before could tell apart;
`upkeep` has such ranges since.

The attempt to prove what `Workspace` promises made the load a matter of steps.
It had been a function of the files there are when it starts, in which nothing
could happen meanwhile; with others at work `Complete` and `ReadOnlyKept` have
the exceptions named in section 3, and `AsYouType` has none.

The attempt to prove `Resolved` made the description of a document a matter of
steps too, and showed the third reason to refuse one: texts had been compared
word by word, so that no name could read like a numbered one.

The attempt to prove `Called` showed that it asked for more than it needs: what
comes before a variable does not matter to reading it back, and an argument may
be empty unless it is in the path.

The attempt to prove `Navigates` showed what it rests on and had not said: the
project has no two declarations of one path and no two `use` declarations of one
prefix, and a rename leaves it so.

Only model-checked: `Exchange`. Liveness (`AllAnswered`, `EventuallyCached`)
stays with TLC, as TLAPS does not reason about fairness here. The codecs and
`Derive` recurse over data that is nested, which the prover cannot do induction
on.

## 7. Not modelled

* Code that turns a package into text without keeping state and without a
  reader whose answer could be wrong in steps: formatting, imports, comments,
  getters and builders of generated code, the documentation, JSON and reproto
  outputs, messages (`cli/src/output`), the drivers of `build`, `doc`, `derive`
  and `init`, and the WebAssembly front-end (`eval/reproto_wasm.rs`).
* Text below the level of tokens, but for paths of endpoints: the lexer and the
  generated parser of the language, positions in a text, the change of case in
  `lib/naming` (the conventions are a function from identifiers to names; that
  camel case drops underscores is in `PackageNames`), identifiers that are
  keywords of a target, and JSON as characters.
* The content of `any` is without fractions and within 53 bits. Validations of
  strings, code blocks and the bodies of `option`s are left out.
* Services other than the Rust and Python clients: JAX-RS and Go scaffolding
  without a transport, and gRPC.
* git's own locks, directories that become empty when outputs are deleted,
  platforms of releases, the search for symbols and the completion of packages
  in the language server, and the diagnostics of the compiler there.
* Integration tests, examples, editor settings and build files.
