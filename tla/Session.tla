------------------------------ MODULE Session ------------------------------
(***************************************************************************)
(* Loading a set of packages into a compiler session                       *)
(* (lib/trans/session.rs): every root is loaded, and whatever its `use`    *)
(* declarations require is resolved and loaded while the file that uses it *)
(* is being loaded itself.  The recursion is a stack here, one frame per   *)
(* file between its opening and its registration.  A file that fails fails *)
(* the one that uses it, the roots are then tried one after the other all  *)
(* the same (cli/src/utils.rs, languageserver), and translation refuses a  *)
(* session in which anything was reported.                                 *)
(***************************************************************************)
EXTENDS Naturals, Sequences, FiniteSets

CONSTANTS
    Source,    \* sources: what a path or an object holds
    Required,  \* required packages: a package and a range
    Package,   \* versioned packages
    NoPackage, \* no package matches
    Broken,    \* the resolver fails
    MaxRoots,  \* bound: roots of a build
    MaxUses    \* bound: `use` declarations of a file

ASSUME OutcomeAssumption == /\ NoPackage \notin Package \cup Source
                            /\ Broken \notin Package \cup Source
                            /\ NoPackage # Broken
ASSUME LimitAssumption == MaxRoots \in Nat /\ MaxUses \in Nat

VARIABLES
    \* The world: what there is to load.  It does not change.
    uses,       \* the `use` declarations of each source
    flaw,       \* what is wrong with each source itself
    resolver,   \* what each required package resolves to
    versionOf,  \* the package and version a resolved source gets
    driver,     \* who drives the session
    \* The session.
    roots,      \* roots still to be imported
    stack,      \* files being loaded, the innermost first
    lookupRequired,   \* required packages and what they were resolved to
    lookupVersioned,  \* packages imported as roots
    files,      \* registered files
    reported,   \* the reporter has diagnostics
    errors,     \* some root failed to import
    outcome,    \* of the build
    opened,     \* history: how often each source was opened
    duplicate   \* history: a package was a root twice

world == <<uses, flaw, resolver, versionOf, driver>>
hist == <<opened, duplicate>>
session == <<lookupRequired, lookupVersioned, files>>
vars == <<world, roots, stack, session, reported, errors, outcome, hist>>

Frame(p, s) == [package |-> p, source |-> s, next |-> 1, diag |-> FALSE]
Root == [package : Package, source : Source]

\* It cannot be read or parsed, a `use` or a declaration of it is refused, or
\* two declarations register one name.
Flaws == {"none", "unreadable", "malformed", "conflict"}

Init ==
    /\ uses \in [Source -> UNION {[1..n -> Required] : n \in 0..MaxUses}]
    /\ flaw \in [Source -> Flaws]
    /\ resolver \in [Required -> Source \cup {NoPackage, Broken}]
    /\ versionOf \in [Required -> Package]
    /\ driver \in {"cli", "languageserver"}
    /\ roots \in UNION {[1..n -> Root] : n \in 1..MaxRoots}
    /\ stack = <<>>
    /\ lookupRequired = <<>>
    /\ lookupVersioned = {}
    /\ files = <<>>
    /\ reported = FALSE /\ errors = FALSE
    /\ outcome = "none"
    /\ opened = [s \in Source |-> 0]
    /\ duplicate = FALSE

With(f, x, y) == [z \in DOMAIN f \cup {x} |-> IF z = x THEN y ELSE f[z]]
Top == Head(stack)
Loading == stack # <<>>

(* load_source_diag opens the source and parses it. *)
Open(p, s) ==
    /\ stack' = <<Frame(p, s)>> \o stack
    /\ opened' = [opened EXCEPT ![s] = @ + 1]

(* Session::import_source. *)
ImportSource ==
    /\ roots # <<>> /\ ~Loading
    /\ roots' = Tail(roots)
    /\ LET root == Head(roots)
       IN  IF root.package \in lookupVersioned
           THEN /\ errors' = TRUE /\ duplicate' = TRUE
                /\ UNCHANGED <<stack, opened, lookupVersioned>>
           ELSE /\ lookupVersioned' = lookupVersioned \cup {root.package}
                /\ Open(root.package, root.source)
                /\ UNCHANGED <<errors, duplicate>>
    /\ UNCHANGED <<world, lookupRequired, files, reported, outcome>>

(* try_with_diag: what was found wrong is reported, and the import fails.    *)
(* with_span makes that the end of the file that is waiting for it, and so   *)
(* on up to the root.                                                        *)
Abort ==
    /\ reported' = TRUE
    /\ stack' = <<>>
    /\ errors' = TRUE

NextUse == uses[Top.source][Top.next]
HasUse == Loading /\ flaw[Top.source] # "unreadable" /\ Top.next <= Len(uses[Top.source])
Skip(diag) ==
    stack' = <<[Top EXCEPT !.next = @ + 1, !.diag = @ \/ diag]>> \o Tail(stack)

UseKnown_RefusesCycles ==
    /\ HasUse /\ NextUse \in DOMAIN lookupRequired
    /\ Skip(lookupRequired[NextUse] \notin DOMAIN files)
    /\ UNCHANGED <<world, roots, session, reported, errors, outcome, hist>>

(* Session::import of the next `use`, required before. *)
UseKnown ==
    /\ HasUse /\ NextUse \in DOMAIN lookupRequired
    /\ Skip(lookupRequired[NextUse] = NoPackage)
    /\ UNCHANGED <<world, roots, session, reported, errors, outcome, hist>>

UseMissing_Forgiven ==
    /\ HasUse /\ NextUse \notin DOMAIN lookupRequired
    /\ resolver[NextUse] = NoPackage
    /\ lookupRequired' = With(lookupRequired, NextUse, NoPackage)
    /\ Skip(FALSE)
    /\ UNCHANGED <<world, roots, lookupVersioned, files, reported, errors, outcome, hist>>

(* The resolver finds nothing: an error of the using file, which goes on. *)
UseMissing ==
    /\ HasUse /\ NextUse \notin DOMAIN lookupRequired
    /\ resolver[NextUse] = NoPackage
    /\ lookupRequired' = With(lookupRequired, NextUse, NoPackage)
    /\ Skip(TRUE)
    /\ UNCHANGED <<world, roots, lookupVersioned, files, reported, errors, outcome, hist>>

(* The resolver fails: so does the import, and nothing is remembered. *)
UseBroken ==
    /\ HasUse /\ NextUse \notin DOMAIN lookupRequired
    /\ resolver[NextUse] = Broken
    /\ Abort
    /\ UNCHANGED <<world, roots, session, outcome, hist>>

UseFound_RemembersLate ==
    /\ HasUse /\ NextUse \notin DOMAIN lookupRequired
    /\ resolver[NextUse] \in Source
    /\ stack' = <<Frame(versionOf[NextUse], resolver[NextUse]),
                  [Top EXCEPT !.next = @ + 1]>> \o Tail(stack)
    /\ opened' = [opened EXCEPT ![resolver[NextUse]] = @ + 1]
    /\ UNCHANGED <<world, roots, lookupRequired, lookupVersioned, files, reported, errors,
                   outcome, duplicate>>

(* It is remembered before it is loaded, which ends cycles. *)
UseFound ==
    /\ HasUse /\ NextUse \notin DOMAIN lookupRequired
    /\ resolver[NextUse] \in Source
    /\ lookupRequired' = With(lookupRequired, NextUse, versionOf[NextUse])
    /\ stack' = <<Frame(versionOf[NextUse], resolver[NextUse]),
                  [Top EXCEPT !.next = @ + 1]>> \o Tail(stack)
    /\ opened' = [opened EXCEPT ![resolver[NextUse]] = @ + 1]
    /\ UNCHANGED <<world, roots, lookupVersioned, files, reported, errors, outcome,
                   duplicate>>

Reject ==
    /\ Loading /\ ~HasUse
    /\ flaw[Top.source] \in {"unreadable", "malformed"} \/ Top.diag
    /\ Abort
    /\ UNCHANGED <<world, roots, session, outcome, hist>>

(* Session::process_file: the first file of a package stays, and only its    *)
(* types are registered; it stays also when that meets a conflict.           *)
ProcessFile ==
    /\ Loading /\ ~HasUse
    /\ flaw[Top.source] \in {"none", "conflict"} /\ ~Top.diag
    /\ LET present == Top.package \in DOMAIN files
       IN  /\ files' = IF present THEN files ELSE With(files, Top.package, Top.source)
           /\ IF ~present /\ flaw[Top.source] = "conflict"
              THEN Abort
              ELSE stack' = Tail(stack) /\ UNCHANGED <<reported, errors>>
    /\ UNCHANGED <<world, roots, lookupRequired, lookupVersioned, outcome, hist>>

Translate_Anyway ==
    /\ roots = <<>> /\ ~Loading /\ outcome = "none"
    /\ outcome' = "translated"
    /\ UNCHANGED <<world, roots, stack, session, reported, errors, hist>>

(* Session::translate.  The command line does not even get there when the    *)
(* import of a root failed; the language server does.                        *)
Translate ==
    /\ roots = <<>> /\ ~Loading /\ outcome = "none"
    /\ outcome' = IF reported \/ (errors /\ driver = "cli") THEN "refused" ELSE "translated"
    /\ UNCHANGED <<world, roots, stack, session, reported, errors, hist>>

Finished == outcome # "none" /\ UNCHANGED vars

Next ==
    \/ ImportSource \/ UseKnown \/ UseMissing \/ UseBroken \/ UseFound
    \/ Reject \/ ProcessFile \/ Translate \/ Finished

Spec == Init /\ [][Next]_vars
-----------------------------------------------------------------------------
(* What a translated session refers to is part of it: the package a `use`    *)
(* resolved to has a registered file, in spite of cycles, of packages        *)
(* remembered before they were loaded, and of failures remembered as found.  *)
(* A root that was imported without an error is registered, from its own     *)
(* source unless a cycle brought in its package from another one first.      *)
Closed ==
    outcome = "translated" =>
        /\ lookupVersioned \subseteq DOMAIN files
        /\ \A p \in DOMAIN files : \A i \in DOMAIN uses[files[p]] :
              LET r == uses[files[p]][i]
              IN  r \in DOMAIN lookupRequired /\ lookupRequired[r] \in DOMAIN files

(* No required package is loaded twice, and no root is: the stack cannot     *)
(* grow for ever, however the packages use each other.                       *)
OpenedOnce ==
    \A s \in Source :
        opened[s] <= Cardinality({r \in DOMAIN lookupRequired : resolver[r] = s})
                     + Cardinality(lookupVersioned)

(* A source that can be reached through `use` is good. *)
Good(s) ==
    /\ flaw[s] = "none"
    /\ \A i \in DOMAIN uses[s] : resolver[uses[s][i]] \in Source

(* Nothing wrong is passed over: whatever was opened in a session that is    *)
(* translated could be read and modelled, and all it uses could be resolved, *)
(* also when the first to run into it was another root.                      *)
NothingSilent ==
    outcome = "translated" =>
        \A s \in Source : opened[s] > 0 =>
            \/ Good(s)
            \/ flaw[s] = "conflict" /\ \A p \in DOMAIN files : files[p] # s

(* And the other way round: a session is refused only when some source it    *)
(* opened is at fault, or the command line was given a package twice.        *)
RefusedForCause ==
    outcome = "refused" => \/ \E s \in Source : opened[s] > 0 /\ ~Good(s)
                           \/ duplicate /\ driver = "cli"
=============================================================================
