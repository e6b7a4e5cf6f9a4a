------------------------------ MODULE Navigation ------------------------------
(***************************************************************************)
(* What the language server answers about names (lib/languageserver:       *)
(* workspace.rs, loaded_file.rs, lib.rs): renames, definitions, references *)
(* and completions, from what it registered when it loaded the files, next *)
(* to what the compiler makes of the same names (lib/trans).               *)
(*                                                                         *)
(* A file is what a parser keeps of it: `use` declarations, and            *)
(* declarations with the names that their fields refer to.  A range is the *)
(* one name in it: an alias or last part of a package, the name of a       *)
(* declaration, the prefix (0) or a step of a reference.                   *)
(***************************************************************************)
EXTENDS Integers, FiniteSetsExt, SequencesExt

CONSTANTS
    Layouts,      \* the files that a project may have
    FreshType,    \* names that no declaration has, one for each rename
    FreshPrefix,  \* names that no prefix has
    Underscored,  \* prefixes with an underscore in them
    MaxRenames    \* bound: renames

VARIABLES
    texts,    \* the files as they are
    earlier,  \* history: as they were before the last rename
    hidden,   \* history: the last rename was of what is not registered
    renames   \* renames so far

navigationVars == <<texts, earlier, hidden, renames>>

UseAt(i) == [k |-> "use", i |-> i, r |-> 0, step |-> 0]
DeclAt(d) == [k |-> "decl", i |-> d, r |-> 0, step |-> 0]
StepAt(d, r, j) == [k |-> "ref", i |-> d, r |-> r, step |-> j]

(* Declarations are in the order of their file, inner ones after their       *)
(* parents; 0 is the file itself.                                            *)
PathsOf(t) ==
    LET P[d \in 0 .. Len(t.decls)] ==
            IF d = 0 THEN <<>> ELSE Append(P[t.decls[d].parent], t.decls[d].name)
    IN  P

(* process_file and process_decl get to declarations and to declarations in  *)
(* them, and not to the sub-types of interfaces.                             *)
Processed(t) ==
    LET S[d \in 0 .. Len(t.decls)] ==
            d = 0 \/ (t.decls[d].kind # "subtype" /\ S[t.decls[d].parent])
    IN  IF t.parses THEN {d \in DOMAIN t.decls : S[d]} ELSE {}

References(t) == UNION {{d} \X DOMAIN t.decls[d].refs : d \in Processed(t)}
-----------------------------------------------------------------------------
(* The projects there are.  Names and `use` declarations may lead nowhere.   *)
UsePrefix(u) == IF u.alias # <<>> THEN u.alias[1] ELSE u.last

WrittenRef == [relative : BOOLEAN, prefix : Seq(STRING), path : Seq(STRING)]
WrittenUse == [package : STRING, last : STRING, alias : Seq(STRING)]
WrittenDecl == [name : STRING, parent : Nat, kind : STRING, refs : Seq(WrittenRef)]
WrittenFile == [package : STRING, readOnly : BOOLEAN, parses : BOOLEAN,
                uses : Seq(WrittenUse), decls : Seq(WrittenDecl)]

(* The parser gives a relative name no prefix; the compiler accepts no two   *)
(* prefixes, and no two declarations in one place, with the same name.       *)
RefParses(ref) == ref.path # <<>> /\ Len(ref.prefix) <= 1 /\ (ref.relative => ref.prefix = <<>>)

NamedOnce(t) ==
    /\ \A i, j \in DOMAIN t.uses : UsePrefix(t.uses[i]) = UsePrefix(t.uses[j]) => i = j
    /\ \A d, e \in DOMAIN t.decls :
          t.decls[d].parent = t.decls[e].parent /\ t.decls[d].name = t.decls[e].name => d = e

WellNamed(t) ==
    /\ t \in WrittenFile
    /\ \A i \in DOMAIN t.uses : Len(t.uses[i].alias) <= 1
    /\ \A d \in DOMAIN t.decls :
          t.decls[d].parent < d /\ \A r \in DOMAIN t.decls[d].refs : RefParses(t.decls[d].refs[r])
    /\ NamedOnce(t)

ProjectFiles(T) ==
    /\ \A f \in DOMAIN T : WellNamed(T[f])
    /\ \A f, g \in DOMAIN T : T[f].package = T[g].package => f = g

UnusedIn(t, type, prefix) ==
    /\ \A i \in DOMAIN t.uses : UsePrefix(t.uses[i]) # prefix
    /\ \A d \in DOMAIN t.decls :
          /\ t.decls[d].name # type
          /\ \A r \in DOMAIN t.decls[d].refs :
                /\ t.decls[d].refs[r].prefix # <<prefix>>
                /\ \A j \in DOMAIN t.decls[d].refs[r].path : t.decls[d].refs[r].path[j] # type

(* From this rename on the names to give are nowhere yet, and all different. *)
Unused(T, from) ==
    \A i \in from .. MaxRenames : \A f \in DOMAIN T : UnusedIn(T[f], FreshType[i], FreshPrefix[i])

ASSUME NavigationAssumption ==
    /\ MaxRenames \in Nat
    /\ \A new \in {FreshType, FreshPrefix} :
          /\ new \in Seq(STRING) /\ MaxRenames <= Len(new)
          /\ \A i, j \in DOMAIN new : new[i] = new[j] => i = j
    /\ \A T \in Layouts : ProjectFiles(T) /\ Unused(T, 1)
-----------------------------------------------------------------------------
(* What is registered. *)
PackagesOf(T) == {T[f].package : f \in DOMAIN T}
FileOf(T, q) == CHOOSE f \in DOMAIN T : T[f].package = q

(* LoadedFile::prefixes: the last `use` that was resolved. *)
PrefixOf(T, t, p) ==
    LET some == {i \in DOMAIN t.uses : UsePrefix(t.uses[i]) = p /\ t.uses[i].package \in PackagesOf(T)}
    IN  IF ~t.parses \/ some = {} THEN {} ELSE {t.uses[Max(some)].package}

PackageOf(T, t, ref) ==
    IF ref.prefix = <<>> THEN {t.package} ELSE PrefixOf(T, t, ref.prefix[1])

Full_Short(t, d, ref, j) == SubSeq(ref.path, 1, j)

(* The path of a step from the root of its package. *)
Full(t, d, ref, j) ==
    IF ref.relative THEN PathsOf(t)[d] \o SubSeq(ref.path, 1, j) ELSE SubSeq(ref.path, 1, j)

Steps(t) ==
    UNION {{StepAt(p[1], p[2], j) : j \in DOMAIN t.decls[p[1]].refs[p[2]].path} : p \in References(t)}

RefAt(t, at) == t.decls[at.i].refs[at.r]

(* register_type_rename, and process_name for relative names: packages that  *)
(* cannot be changed are left alone.                                         *)
Renamable(T, t, ref) ==
    ~t.readOnly /\ \A q \in PackageOf(T, t, ref) : ~T[FileOf(T, q)].readOnly

Entry(at, package, path) == [at |-> at, package |-> package, path |-> path]

DeclEntries(t) == {Entry(DeclAt(d), t.package, PathsOf(t)[d]) : d \in Processed(t)}
StepEntries(T, t, ats) ==
    UNION {{Entry(at, q, Full(t, at.i, RefAt(t, at), at.step)) : q \in PackageOf(T, t, RefAt(t, at))} :
              at \in ats}

TypeRanges(T, t) ==
    (IF t.readOnly THEN {} ELSE DeclEntries(t))
    \cup StepEntries(T, t, {at \in Steps(t) : RefAt(t, at).relative \/ Renamable(T, t, RefAt(t, at))})

ReferenceRanges(T, t) == DeclEntries(t) \cup StepEntries(T, t, Steps(t))

PrefixSteps(t, p) ==
    {StepAt(x[1], x[2], 0) : x \in {x \in References(t) : t.decls[x[1]].refs[x[2]].prefix = <<p>>}}
Aliases(t, p) == {UseAt(i) : i \in {i \in DOMAIN t.uses : t.uses[i].alias = <<p>>}}

PrefixRanges(t, p) ==
    IF t.readOnly \/ ~t.parses THEN {} ELSE PrefixSteps(t, p) \cup Aliases(t, p)

ImplicitPrefixes(t, p) == {i \in DOMAIN t.uses : t.uses[i].alias = <<>> /\ t.uses[i].last = p}
-----------------------------------------------------------------------------
(* Workspace::find_rename.  The edits of a prefix that has no alias add one. *)
PrefixAt(t, at) ==
    IF at.k = "use" THEN UsePrefix(t.uses[at.i]) ELSE RefAt(t, at).prefix[1]

PrefixTriggers(t) ==
    IF t.readOnly \/ ~t.parses THEN {}
    ELSE {UseAt(i) : i \in DOMAIN t.uses}
         \cup {StepAt(p[1], p[2], 0) : p \in {p \in References(t) : t.decls[p[1]].refs[p[2]].prefix # <<>>}}

TypeTriggers(T, t) ==
    IF t.readOnly THEN {}
    ELSE {DeclAt(d) : d \in Processed(t)}
         \cup {at \in Steps(t) : PackageOf(T, t, RefAt(t, at)) # {}
                                 /\ (RefAt(t, at).relative \/ Renamable(T, t, RefAt(t, at)))}

RenamedPrefix(T, f, at) ==
    LET t == T[f]
        p == PrefixAt(t, at)
        implicit == ImplicitPrefixes(t, p)
    IN  IF PrefixRanges(t, p) = {} THEN {}
        ELSE {[file |-> f, at |-> r] : r \in PrefixRanges(t, p)}
             \cup IF implicit = {} THEN {} ELSE {[file |-> f, at |-> UseAt(Max(implicit))]}

KeyOfEntry(e) == [package |-> e.package, path |-> e.path]
KeyAt(T, t, at) ==
    {KeyOfEntry(e) : e \in {e \in ReferenceRanges(T, t) : e.at = at}}

RenamedType(T, f, at) ==
    UNION {{[file |-> g, at |-> e.at] :
               e \in {e \in TypeRanges(T, T[g]) : KeyOfEntry(e) \in KeyAt(T, T[f], at)}} :
              g \in DOMAIN T}

(* text_document_rename, as the editor applies its answer. *)
EditedUse(f, t, edits, new, i) ==
    [t.uses[i] EXCEPT !.alias = IF [file |-> f, at |-> UseAt(i)] \in edits THEN <<new>> ELSE @]

EditedRef(f, t, edits, new, d, r) ==
    LET ref == t.decls[d].refs[r]
    IN  [ref EXCEPT !.prefix = IF [file |-> f, at |-> StepAt(d, r, 0)] \in edits THEN <<new>> ELSE @,
                    !.path = [j \in DOMAIN ref.path |->
                                 IF [file |-> f, at |-> StepAt(d, r, j)] \in edits THEN new ELSE ref.path[j]]]

EditedDecl(f, t, edits, new, d) ==
    [t.decls[d] EXCEPT !.name = IF [file |-> f, at |-> DeclAt(d)] \in edits THEN new ELSE @,
                       !.refs = [r \in DOMAIN @ |-> EditedRef(f, t, edits, new, d, r)]]

Edited(f, t, edits, new) ==
    [t EXCEPT !.uses = [i \in DOMAIN @ |-> EditedUse(f, t, edits, new, i)],
              !.decls = [d \in DOMAIN @ |-> EditedDecl(f, t, edits, new, d)]]
-----------------------------------------------------------------------------
(* definition: where a step leads.  Without a package it is looked up in the *)
(* file itself, also when the package is one that was not found.             *)
JumpFrom(T, f, at) ==
    LET t == T[f]
        ref == RefAt(t, at)
        packages == PackageOf(T, t, ref)
        g == IF packages = {} THEN f ELSE FileOf(T, CHOOSE q \in packages : TRUE)
        path == Full(t, at.i, ref, at.step)
    IN  {[file |-> g, decl |-> d] : d \in {d \in Processed(T[g]) : PathsOf(T[g])[d] = path}}

(* find_reference. *)
FindReferences(T, f, at) ==
    UNION {{[file |-> g, at |-> e.at] :
               e \in {e \in ReferenceRanges(T, T[g]) : KeyOfEntry(e) \in KeyAt(T, T[f], at)}} :
              g \in DOMAIN T}

(* type_completion and completion_items, for the name at the end of a        *)
(* reference: names to put there, without those of the declarations in the   *)
(* one that is there, and without prefixes and built-in types.               *)
NamesBelow(t, path) ==
    {PathsOf(t)[d][Len(path) + 1] :
        d \in {d \in Processed(t) : Len(PathsOf(t)[d]) = Len(path) + 1
                                    /\ SubSeq(PathsOf(t)[d], 1, Len(path)) = path}}

Completions(T, f, d, ref) ==
    LET t == T[f]
        scope == Full(t, d, ref, Len(ref.path) - 1)
        lowercase == ref.prefix # <<>> /\ ref.prefix[1] \notin Underscored
    IN  IF ref.prefix = <<>> THEN NamesBelow(t, scope)
        ELSE IF lowercase THEN UNION {NamesBelow(T[FileOf(T, q)], scope) : q \in PrefixOf(T, t, ref.prefix[1])}
        ELSE NamesBelow(t, ref.prefix \o scope)
-----------------------------------------------------------------------------
(* The compiler: Scope and Name::into_model.  Prefixes are those of the      *)
(* `use` declarations, a relative name starts at the declaration it is in,   *)
(* and a sub-type is a declaration like any other.                           *)
LookupPrefix(T, t, p) ==
    LET some == {i \in DOMAIN t.uses : UsePrefix(t.uses[i]) = p /\ t.uses[i].package \in PackagesOf(T)}
    IN  IF some = {} THEN {} ELSE {t.uses[Min(some)].package}

NamePackage(T, t, ref) ==
    IF ref.prefix = <<>> THEN {t.package} ELSE LookupPrefix(T, t, ref.prefix[1])
NamePath(t, d, ref, j) ==
    (IF ref.relative THEN PathsOf(t)[d] ELSE <<>>) \o SubSeq(ref.path, 1, j)

(* The declaration that a name is taken for. *)
Meant(T, f, d, ref, j) ==
    {[file |-> x[1], decl |-> x[2]] : x \in
        UNION {LET g == FileOf(T, q)
               IN  {g} \X {e \in DOMAIN T[g].decls : PathsOf(T[g])[e] = NamePath(T[f], d, ref, j)} :
                  q \in NamePackage(T, T[f], ref)}}
-----------------------------------------------------------------------------
NavigationInit ==
    /\ texts \in Layouts
    /\ earlier = texts
    /\ hidden = FALSE
    /\ renames = 0

Renaming(edits, new, unregistered) ==
    /\ renames < MaxRenames /\ renames' = renames + 1
    /\ edits # {}
    /\ earlier' = texts
    /\ texts' = [f \in DOMAIN texts |-> Edited(f, texts[f], edits, new)]
    /\ hidden' = unregistered

RenamePrefix ==
    \E f \in DOMAIN texts : \E at \in PrefixTriggers(texts[f]) :
        Renaming(RenamedPrefix(texts, f, at), FreshPrefix[renames + 1], FALSE)

RenameType ==
    \E f \in DOMAIN texts : \E at \in TypeTriggers(texts, texts[f]) :
        Renaming(RenamedType(texts, f, at), FreshType[renames + 1],
                 at.k = "ref" /\ \E m \in Meant(texts, f, at.i, RefAt(texts[f], at), at.step) :
                                     m.decl \notin Processed(texts[m.file]))

NavigationNext == RenamePrefix \/ RenameType

NavigationSpec == NavigationInit /\ [][NavigationNext]_navigationVars
-----------------------------------------------------------------------------
(* Names keep their meaning when something is renamed, in every file that    *)
(* can be changed and outside of sub-types; the new name has to be fresh.    *)
Renamed ==
    hidden \/ \A f \in DOMAIN earlier : ~earlier[f].readOnly =>
        \A p \in References(earlier[f]) :
            LET ref(T) == T[f].decls[p[1]].refs[p[2]]
                n == Len(ref(texts).path)
            IN  Meant(texts, f, p[1], ref(texts), n) = Meant(earlier, f, p[1], ref(earlier), n)

(* A definition is what the compiler takes a name for, and the references of *)
(* one are the names that it takes for the same.                             *)
Traced ==
    \A f \in DOMAIN texts : \A at \in Steps(texts[f]) :
        LET meant(g, x) == Meant(texts, g, x.i, RefAt(texts[g], x), x.step)
            m == meant(f, at)
            found == {y \in FindReferences(texts, f, at) : y.at.k = "ref"}
        IN  \A x \in m : x.decl \in Processed(texts[x.file]) =>
                /\ JumpFrom(texts, f, at) = m
                /\ found = UNION {{[file |-> g, at |-> y] : y \in {y \in Steps(texts[g]) : meant(g, y) = m}} :
                                     g \in DOMAIN texts}

(* What is offered at the end of a reference is what can be there.           *)
Suitable ==
    \A f \in DOMAIN texts : \A p \in References(texts[f]) :
        LET ref == texts[f].decls[p[1]].refs[p[2]]
            n == Len(ref.path)
            changed(name) == [ref EXCEPT !.path[n] = name]
        IN  (ref.prefix = <<>> \/ ref.prefix[1] \notin Underscored) =>
                Completions(texts, f, p[1], ref) =
                    {x \in UNION {{PathsOf(texts[g])[e][Len(PathsOf(texts[g])[e])] : e \in DOMAIN texts[g].decls} :
                                     g \in DOMAIN texts} :
                        \E m \in Meant(texts, f, p[1], changed(x), n) : m.decl \in Processed(texts[m.file])}

(* The server and the compiler agree on names: an answer about one leads to  *)
(* what the compiler finds, and a rename changes no meaning.                 *)
Navigates == Renamed /\ Traced /\ Suitable
=============================================================================
