---------------------------- MODULE PackageNames ----------------------------
(***************************************************************************)
(* The names that packages get in generated code (lib/trans/session.rs).   *)
(* Versions of a package may be used next to each other, so a version      *)
(* becomes a part of the name, as little of it as tells the packages apart *)
(* that are left; then a backend's naming and keywords change the parts.   *)
(*                                                                         *)
(* A package is [path, version], the version a sequence of at most one.  A *)
(* part of a path is a sequence of what underscores separate in it, each   *)
(* a number or a word.                                                     *)
(***************************************************************************)
EXTENDS Versions

CONSTANTS
    Loaded,    \* sets of packages that a session may have loaded
    Keyword,   \* replacements of parts that are keywords: those of each backend
    VWord      \* the word "v"

(* The files of a session are in a map by package and version, in which      *)
(* versions that differ in their build alone are one.                        *)
LoadedPackage ==
    [path : Seq(Seq(Identifier)), version : {s \in Seq(SemVersion) : Len(s) <= 1}]
SamePackage(p, q) ==
    /\ p.path = q.path
    /\ \/ p.version = <<>> /\ q.version = <<>>
       \/ p.version # <<>> /\ q.version # <<>> /\ Equal(p.version[1], q.version[1])

ASSUME LoadedAssumption ==
    \A P \in Loaded : \A p, q \in P : p \in LoadedPackage /\ (SamePackage(p, q) => p = q)
ASSUME VWordAssumption == VWord \in Identifier

VARIABLES
    waiting,  \* packages without a name yet, with the level each has reached
    named,    \* the names given
    rounds,   \* history: the round in which each got its name
    round,
    joins,     \* whether the naming of the backend drops underscores
    keyword,   \* the replacements of the backend
    translated  \* the package whose file each name of the translated session has

backend == <<joins, keyword>>
nameVars == <<waiting, named, rounds, round, backend, translated>>

NamesInit ==
    /\ joins \in BOOLEAN /\ keyword \in Keyword
    /\ \E P \in Loaded : waiting = [p \in P |-> 0]
    /\ named = <<>> /\ rounds = <<>> /\ round = 0 /\ translated = <<>>

(* Session::version_package.  Past level 4 comes a number that differs.      *)
VersionPackage_NoPre(v, level) ==
    <<VWord, Numeric(v.major)>>
    \o (IF level > 0 THEN <<Numeric(v.minor)>> ELSE <<>>)
    \o (IF level > 1 THEN <<Numeric(v.patch)>> ELSE <<>>)
    \o (IF level > 2 THEN v.build ELSE <<>>)

VersionPackage(v, level) ==
    <<VWord, Numeric(v.major)>>
    \o (IF level > 0 THEN <<Numeric(v.minor)>> ELSE <<>>)
    \o (IF level > 1 THEN <<Numeric(v.patch)>> ELSE <<>>)
    \o (IF level > 2 THEN v.pre ELSE <<>>)
    \o (IF level > 3 THEN v.build ELSE <<>>)

PackageWithLevel(p, level) ==
    IF p.version = <<>> THEN p.path
    ELSE Append(p.path, VersionPackage(p.version[1], level))

(* One round of Session::packages: who is alone with its name keeps it, the  *)
(* others go on with a longer one.                                           *)
Round ==
    LET name == [p \in DOMAIN waiting |-> PackageWithLevel(p, waiting[p])]
        alone == {p \in DOMAIN waiting : \A q \in DOMAIN waiting : name[q] = name[p] => q = p}
    IN  /\ waiting # <<>>
        /\ named' = [p \in alone \cup DOMAIN named |-> IF p \in alone THEN name[p] ELSE named[p]]
        /\ rounds' = [p \in alone \cup DOMAIN rounds |-> IF p \in alone THEN round ELSE rounds[p]]
        /\ waiting' = [p \in DOMAIN waiting \ alone |-> waiting[p] + 1]
        /\ round' = round + 1
        /\ UNCHANGED <<backend, translated>>

(* Packages::package: the naming first, then the keywords.                   *)
Figures(n) == IF n < 10 THEN <<Numeric(n)>> ELSE <<Numeric(n \div 10), Numeric(n % 10)>>
Camel(part) ==
    LET f[i \in 0..Len(part)] ==
            IF i = 0 THEN <<>>
            ELSE f[i - 1] \o (IF part[i].num THEN Figures(part[i].n) ELSE <<part[i]>>)
    IN  f[Len(part)]
Converted(part) == IF joins THEN Camel(part) ELSE part
Replaced(part) == IF part \in DOMAIN keyword THEN keyword[part] ELSE part
Translated(p) == [i \in DOMAIN named[p] |-> Replaced(Converted(named[p][i]))]

(* Session::translate: files.insert keeps the last one that has a name; the  *)
(* order of the packages decides which that is.                              *)
Translate ==
    /\ waiting = <<>> /\ translated = <<>>
    /\ \E last \in [{Translated(p) : p \in DOMAIN named} -> DOMAIN named] :
          /\ \A n \in DOMAIN last : Translated(last[n]) = n
          /\ translated' = last
    /\ UNCHANGED <<waiting, named, rounds, round, backend>>

NamesNext == Round \/ Translate
NamesSpec == NamesInit /\ [][NamesNext]_nameVars
-----------------------------------------------------------------------------
(* Two packages share a name only when one has no version and is named like  *)
(* a version of the other, or when naming or keywords make equal what was    *)
(* not; but for those no file of a session takes the place of another.  The  *)
(* version always does: what tells packages apart by chance is not needed.   *)
Shared(p, q) == p # q /\ named[p] = named[q]
Lost == {p \in DOMAIN named : \A n \in DOMAIN translated : translated[n] # p}
Distinct ==
    /\ \A p \in DOMAIN waiting : waiting[p] <= 4
    /\ \A p, q \in DOMAIN named :
          Shared(p, q) => /\ rounds[p] # rounds[q]
                          /\ p.version = <<>> \/ q.version = <<>>
    /\ translated # <<>> => \A p \in Lost : \E q \in DOMAIN named \ Lost :
          \/ Shared(p, q)
          \/ Translated(p) = Translated(q) /\ (joins \/ keyword # <<>>)
=============================================================================
