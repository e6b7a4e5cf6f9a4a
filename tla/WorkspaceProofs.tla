-------------------------- MODULE WorkspaceProofs --------------------------
(***************************************************************************)
(* Proofs about the language server: what it knows of an open file is what *)
(* is in the editor, what is referred to is loaded, and what comes out of  *)
(* a repository stays read-only, for any project, edited in any way, and   *)
(* with others changing it at any time.                                    *)
(***************************************************************************)
EXTENDS Workspace, FiniteSetTheorems, SequenceTheorems, TLAPS

-----------------------------------------------------------------------------
(* The invariant.                                                          *)
Name == [package : Package, version : AnyVersion]
SourceUrl == Location \cup Object
SourceRec == [from : {"editor", "disk", "repository"}, url : SourceUrl]
Task == [package : Package, version : AnyVersion, source : SourceRec]
PrefixRec == [package : Name, readOnly : BOOLEAN]
FileRec == [package : Name, url : SourceUrl, text : Text, readOnly : BOOLEAN,
            uses : Seq(Required), prefixes : SUBSET PrefixRec]

NameOf(s) == VersionedPackage(s.package, s.version)

(* A source leads to where it says, and to an open file under its own name   *)
(* only by way of the editor, unless the file is listed.                     *)
Sound(s, o) ==
    /\ s \in Task
    /\ s.source.from = "editor" => s.source.url \in DOMAIN o /\ NameOf(s) = Own(s.source.url)
    /\ s.source.from = "disk" =>
          /\ s.source.url \in Location
          /\ s.source.url \in DOMAIN o /\ NameOf(s) = Own(s.source.url) => Listed(s.source.url)
    /\ s.source.from = "repository" =>
          s.source.url \in DOMAIN repository /\ NameOf(s) = Own(s.source.url)

(* There is a file for a package, open or in a build path. *)
Reached(n, m, o, d) ==
    \/ \E l \in DOMAIN o : Own(l) = n
    \/ \E l \in DOMAIN d : l.package = n.package /\ PublishedAs(m.published, l) = n.version

AsTyped(f, o) ==
    f.url \in DOMAIN o /\ f.package = Own(f.url) /\ ~Listed(f.url) => f.text = o[f.url]

(* The files that were read since the load began. *)
Known == ToSet(stack) \cup {files[u] : u \in DOMAIN files}

WorkspaceTypeOK ==
    /\ disk \in Files /\ open \in Files /\ repository \in Repositories
    /\ reproto \in Manifest /\ editing \in Manifest /\ building \in Manifest
    /\ todo \in Seq(Task) /\ stack \in Seq(FileRec)
    /\ \A u \in DOMAIN required : required[u] \in SUBSET PrefixRec
    /\ \A u \in DOMAIN files : files[u] \in FileRec /\ files[u].url = u
    /\ \A n \in DOMAIN packages : packages[n] \in DOMAIN files

(* What a load does not lose sight of: an open file is read from the editor, *)
(* a package that was come across is loaded, being processed or gone, what   *)
(* comes out of the repository has no file, and, as long as nobody changes   *)
(* the files, what does not come out of it has one.                          *)
Writable(p) == p.readOnly \/ Reached(p.package, building, open, disk)
Unreached(n) == ~Reached(n, building, open, disk)

TaskOK(s) == Sound(s, open) /\ (steady /\ ReadOnly(s.source) => Unreached(NameOf(s)))
PrefixOK(p) == p.package \in versioned /\ (steady => Writable(p))
FileOK(f) ==
    /\ AsTyped(f, open)
    /\ f.readOnly <=> f.url \in Object
    /\ f.readOnly => f.package = Own(f.url) /\ (steady => Unreached(f.package))
    /\ \A p \in f.prefixes : PrefixOK(p)

Loading ==
    /\ ~current
    /\ \A s \in ToSet(todo) : TaskOK(s)
    /\ \A f \in Known : FileOK(f)
    /\ \A u \in DOMAIN required : \A p \in required[u] : PrefixOK(p)
    /\ versioned \subseteq DOMAIN packages \cup gone \cup {f.package : f \in ToSet(stack)}
    /\ \A n \in DOMAIN packages : packages[n] \in Object => n = Own(packages[n])

(* What is left of a load does not change before the next one begins. *)
Settled == stack = <<>> /\ AsYouType /\ Complete /\ ReadOnlyKept

WorkspaceInv == WorkspaceTypeOK /\ (~Idle => Loading) /\ (Idle => Settled)

-----------------------------------------------------------------------------
(* Sequences, as sets of what is in them.                                  *)

(* The first element and the rest. *)
LEMMA TakenApart ==
    ASSUME NEW S, NEW q \in Seq(S), q # <<>>
    PROVE  Head(q) \in S /\ Tail(q) \in Seq(S) /\ ToSet(q) = {Head(q)} \cup ToSet(Tail(q))
<1>1. /\ Head(q) \in S /\ Tail(q) \in Seq(S)
      /\ Len(q) \in Nat \ {0} /\ DOMAIN q = 1..Len(q)
      /\ DOMAIN Tail(q) = 1..(Len(q) - 1)
      /\ \A i \in 1..(Len(q) - 1) : Tail(q)[i] = q[i + 1]
  BY HeadTailProperties, LenProperties, EmptySeq
<1>2. Head(q) = q[1]
  OBVIOUS
<1>3. ASSUME NEW x \in ToSet(q) PROVE x \in {Head(q)} \cup ToSet(Tail(q))
  <2>1. PICK i \in 1..Len(q) : x = q[i]
    BY <1>1 DEF ToSet
  <2>2. CASE i = 1
    BY <1>2, <2>1, <2>2
  <2>3. CASE i # 1
    <3>1. i - 1 \in 1..(Len(q) - 1) /\ Tail(q)[i - 1] = q[i]
      BY <1>1, <2>1, <2>3
    <3> QED
      BY <1>1, <2>1, <3>1 DEF ToSet
  <2> QED
    BY <2>2, <2>3
<1>4. ASSUME NEW x \in ToSet(Tail(q)) PROVE x \in ToSet(q)
  BY <1>1 DEF ToSet
<1>5. Head(q) \in ToSet(q)
  BY <1>1, <1>2 DEF ToSet
<1> QED
  BY <1>1, <1>3, <1>4, <1>5

(* One sequence after another. *)
LEMMA Joined ==
    ASSUME NEW S, NEW q \in Seq(S), NEW r \in Seq(S)
    PROVE  q \o r \in Seq(S) /\ ToSet(q \o r) = ToSet(q) \cup ToSet(r)
<1>1. /\ q \o r \in Seq(S)
      /\ Len(q) \in Nat /\ Len(r) \in Nat
      /\ DOMAIN q = 1..Len(q) /\ DOMAIN r = 1..Len(r) /\ DOMAIN (q \o r) = 1..(Len(q) + Len(r))
      /\ \A i \in 1..(Len(q) + Len(r)) : (q \o r)[i] = IF i <= Len(q) THEN q[i] ELSE r[i - Len(q)]
  BY ConcatProperties, LenProperties
<1>2. ASSUME NEW x \in ToSet(q \o r) PROVE x \in ToSet(q) \cup ToSet(r)
  <2>1. PICK i \in 1..(Len(q) + Len(r)) : x = (q \o r)[i]
    BY <1>1 DEF ToSet
  <2>2. CASE i <= Len(q)
    <3>1. i \in DOMAIN q /\ x = q[i]
      BY <1>1, <2>1, <2>2
    <3> QED
      BY <3>1 DEF ToSet
  <2>3. CASE ~(i <= Len(q))
    <3>1. i - Len(q) \in DOMAIN r /\ x = r[i - Len(q)]
      BY <1>1, <2>1, <2>3
    <3> QED
      BY <3>1 DEF ToSet
  <2> QED
    BY <2>2, <2>3
<1>3. ASSUME NEW i \in DOMAIN q PROVE q[i] \in ToSet(q \o r)
  BY <1>1 DEF ToSet
<1>4. ASSUME NEW i \in DOMAIN r PROVE r[i] \in ToSet(q \o r)
  <2>1. i + Len(q) \in DOMAIN (q \o r) /\ (q \o r)[i + Len(q)] = r[i]
    BY <1>1
  <2> QED
    BY <2>1 DEF ToSet
<1> QED
  BY <1>1, <1>2, <1>3, <1>4 DEF ToSet

(* One element before a sequence. *)
LEMMA Pushed ==
    ASSUME NEW S, NEW q \in Seq(S), NEW x \in S
    PROVE  <<x>> \o q \in Seq(S) /\ ToSet(<<x>> \o q) = {x} \cup ToSet(q)
<1> DEFINE one == <<x>>
<1>1. one \in Seq(S) /\ ToSet(one) = {x}
  BY DEF ToSet
<1>2. one \o q \in Seq(S) /\ ToSet(one \o q) = ToSet(one) \cup ToSet(q)
  <2> HIDE DEF one
  <2> QED
    BY <1>1, Joined
<1> QED
  BY <1>1, <1>2

LEMMA NothingIn == ToSet(<<>>) = {}
BY DEF ToSet

-----------------------------------------------------------------------------
(* What a requirement resolves to.                                         *)

(* Of finitely many things with a number one has the greatest number: if     *)
(* not, take the least number of things of which that is wrong.              *)
LEMMA Greatest ==
    ASSUME NEW S, IsFiniteSet(S), S # {}, NEW f, \A x \in S : f[x] \in Int
    PROVE  \E x \in S : \A y \in S : f[y] <= f[x]
<1> DEFINE Top(T) == \E x \in T : \A y \in T : f[y] <= f[x]
           Sizes == {n \in Nat : \E T \in SUBSET S : T # {} /\ Cardinality(T) = n /\ ~Top(T)}
<1>1. SUFFICES ASSUME ~Top(S) PROVE FALSE
  OBVIOUS
<1>2. Cardinality(S) \in Sizes
  BY <1>1, FS_CardinalityType
<1>3. PICK n \in Sizes : \A m \in Sizes : ~(m < n)
  <2>1. PICK n \in Sizes : \A m \in Sizes : <<m, n>> \notin OpToRel(<, Nat)
    BY <1>2, NatLessThanWellFounded, WFMin
  <2> QED
    BY <2>1 DEF OpToRel
<1>4. PICK T \in SUBSET S : T # {} /\ Cardinality(T) = n /\ ~Top(T)
  OBVIOUS
<1>5. PICK x \in T : TRUE
  BY <1>4
<1> DEFINE R == T \ {x}
<1>6. IsFiniteSet(T) /\ Cardinality(R) = n - 1 /\ Cardinality(R) \in Nat
  BY <1>4, <1>5, FS_Subset, FS_RemoveElement, FS_CardinalityType
<1>7. CASE R = {}
  BY <1>4, <1>5, <1>7
<1>8. CASE R # {}
  <2>1. Top(R)
    <3>1. SUFFICES ASSUME ~Top(R) PROVE FALSE
      OBVIOUS
    <3>2. R \in SUBSET S /\ Cardinality(R) \in Sizes
      BY <1>4, <1>6, <1>8, <3>1
    <3>3. n - 1 < n
      OBVIOUS
    <3> QED
      BY <1>3, <1>6, <3>2, <3>3
  <2>2. PICK z \in R : \A y \in R : f[y] <= f[z]
    BY <2>1
  <2>3. \E w \in {x, z} : f[x] <= f[w] /\ f[z] <= f[w]
    BY <1>5, <2>2
  <2>4. Top(T)
    BY <1>5, <2>2, <2>3
  <2> QED
    BY <1>4, <2>4
<1> QED
  BY <1>7, <1>8

LEMMA NumbersAreNat == AnyVersion \subseteq Nat /\ Root \subseteq Nat
BY ResolutionAssumption DEF AnyVersion, NoVersion

LEMMA LocationsTyped ==
    \A l \in Location :
        /\ l.root \in Nat /\ l.package \in Package /\ l.version \in AnyVersion
        /\ l.version \in Nat /\ l \notin Object /\ Own(l) \in Name
<1> SUFFICES ASSUME NEW l \in Location
             PROVE  /\ l.root \in Nat /\ l.package \in Package /\ l.version \in AnyVersion
                    /\ l.version \in Nat /\ l \notin Object /\ Own(l) \in Name
  OBVIOUS
<1>1. l \in [root : Root, package : Package, version : AnyVersion]
  BY ResolutionAssumption
<1>2. l.root \in Nat /\ l.package \in Package /\ l.version \in AnyVersion /\ l.version \in Nat
  <2>1. l.root \in Root /\ l.package \in Package /\ l.version \in AnyVersion
    BY <1>1
  <2> QED
    BY <2>1, NumbersAreNat
<1>3. DOMAIN l = {"root", "package", "version"} /\ \A d \in Object : DOMAIN d = {"package", "version"}
  BY <1>1 DEF Object
<1> QED
  BY <1>2, <1>3 DEF Own, VersionedPackage, Name

(* An open file is found by its name. *)
LEMMA FromOpenFinds ==
    ASSUME NEW o \in SUBSET Location, NEW l \in o, NEW range, l.version \in range
    PROVE  FromOpen(o, l.package, range) # {}
<1>1. \A k \in o : k.root \in Int /\ k.version \in Int
  BY LocationsTyped
<1>2. PICK k \in o : SameName(l, k) /\ \A j \in o : SameName(l, j) => j.root <= k.root
  <2> DEFINE S == {j \in o : SameName(l, j)}
             f == [j \in S |-> j.root]
  <2>1. IsFiniteSet(S) /\ S # {}
    BY ResolutionAssumption, FS_Subset DEF SameName
  <2>2. PICK k \in S : \A j \in S : f[j] <= f[k]
    <3>1. \A j \in S : f[j] \in Int
      BY <1>1
    <3> HIDE DEF S, f
    <3> QED
      BY <2>1, <3>1, Greatest
  <2> QED
    BY <2>2
<1>3. k \in Named(o) /\ k.package = l.package /\ k.version \in range
  BY <1>2 DEF Named, SameName
<1> DEFINE T == {j \in Named(o) : j.package = l.package /\ j.version \in range}
           g == [j \in T |-> j.version]
<1>4. PICK m \in T : \A j \in T : g[j] <= g[m]
  <2>1. IsFiniteSet(T) /\ T # {} /\ \A j \in T : g[j] \in Int
    BY <1>1, <1>3, ResolutionAssumption, FS_Subset DEF Named
  <2> HIDE DEF T, g
  <2> QED
    BY <2>1, Greatest
<1>5. Resolved(m.version, "editor", m) \in FromOpen(o, l.package, range)
  <2>1. \A j \in T : j.version <= m.version
    BY <1>4
  <2>2. \A j \in T : Resolved(j.version, "editor", j).version = j.version
    BY DEF Resolved
  <2> HIDE DEF T
  <2>3. Resolved(m.version, "editor", m) \in Newest({Resolved(j.version, "editor", j) : j \in T})
    BY <2>1, <2>2 DEF Newest
  <2> QED
    BY <2>3 DEF FromOpen, T
<1> QED
  BY <1>5

(* A file in a build path is found as what it is published as. *)
LEMMA FromPathsFinds ==
    ASSUME NEW d \in SUBSET Location, NEW l \in d, NEW range,
           NEW published \in [Package -> AnyVersion], PublishedAs(published, l) \in range
    PROVE  FromPaths(d, published, l.package, range) # {}
<1> DEFINE As(k) == PublishedAs(published, k)
           found == {k \in d : k.package = l.package /\ As(k) \in range}
           last == {k \in found : \A j \in found : j.root <= k.root}
           f == [k \in found |-> k.root]
           g == [k \in last |-> As(k)]
<1>1. ASSUME NEW k \in d PROVE k.root \in Int /\ As(k) \in Int
  <2>1. k.root \in Int /\ k.version \in AnyVersion /\ published[k.package] \in AnyVersion
    BY LocationsTyped
  <2>2. As(k) \in AnyVersion
    BY <2>1 DEF PublishedAs
  <2>3. AnyVersion \subseteq Int
    BY NumbersAreNat
  <2> HIDE DEF As
  <2> QED
    BY <2>1, <2>2, <2>3
<1>2. last # {}
  <2>1. IsFiniteSet(found) /\ found # {} /\ \A k \in found : f[k] \in Int
    BY <1>1, ResolutionAssumption, FS_Subset
  <2>2. PICK k \in found : \A j \in found : f[j] <= f[k]
    <3> HIDE DEF found, f
    <3> QED
      BY <2>1, Greatest
  <2> QED
    BY <2>2
<1>3. PICK m \in last : \A k \in last : g[k] <= g[m]
  <2>1. IsFiniteSet(last) /\ \A k \in last : g[k] \in Int
    BY <1>1, ResolutionAssumption, FS_Subset
  <2> HIDE DEF last, g
  <2> QED
    BY <1>2, <2>1, Greatest
<1>4. Resolved(As(m), "disk", m) \in FromPaths(d, published, l.package, range)
  <2>1. \A k \in last : As(k) <= As(m)
    BY <1>3
  <2>2. \A k \in last : Resolved(As(k), "disk", k).version = As(k)
    BY DEF Resolved
  <2>3. Resolved(As(m), "disk", m) \in Newest({Resolved(As(k), "disk", k) : k \in last})
    <3> HIDE DEF last, As
    <3> QED
      BY <2>1, <2>2 DEF Newest
  <2> QED
    BY <2>3 DEF FromPaths
<1> QED
  BY <1>4

LEMMA FilesTyped ==
    ASSUME NEW f \in Files
    PROVE  /\ DOMAIN f \in SUBSET Location
           /\ \A l \in DOMAIN f : f[l] \in TextsAt(l) /\ f[l] \in Text
<1>1. PICK L \in SUBSET Location : f \in [L -> Text] /\ \A l \in L : f[l] \in TextsAt(l)
  BY DEF Files
<1> QED
  BY <1>1

(* What is found, and what was not found before it. *)
LEMMA FindCases ==
    ASSUME NEW m \in Says, NEW o, NEW d, NEW u, NEW r \in Find(m, o, d, u)
    PROVE  \/ \E l \in DOMAIN o :
                 l.package = u.package /\ l.version \in u.range /\ r = Resolved(l.version, "editor", l)
           \/ /\ FromOpen(DOMAIN o, u.package, u.range) = {}
              /\ \E l \in DOMAIN d :
                    /\ l.package = u.package /\ PublishedAs(m.published, l) \in u.range
                    /\ r = Resolved(PublishedAs(m.published, l), "disk", l)
           \/ /\ FromOpen(DOMAIN o, u.package, u.range) = {}
              /\ FromPaths(DOMAIN d, m.published, u.package, u.range) = {}
              /\ \E x \in DOMAIN repository :
                    /\ x.package = u.package /\ x.version \in u.range
                    /\ r = Resolved(x.version, "repository", x)
<1> DEFINE found == {l \in DOMAIN d : /\ l.package = u.package
                                      /\ PublishedAs(m.published, l) \in u.range}
           last == {l \in found : \A k \in found : k.root <= l.root}
           paths == {Resolved(PublishedAs(m.published, l), "disk", l) : l \in last}
           opened == {Resolved(l.version, "editor", l) :
                         l \in {l \in Named(DOMAIN o) :
                                   l.package = u.package /\ l.version \in u.range}}
           stored == {Resolved(x.version, "repository", x) :
                         x \in {x \in DOMAIN repository :
                                   x.package = u.package /\ x.version \in u.range}}
<1>1. /\ FromOpen(DOMAIN o, u.package, u.range) \subseteq opened
      /\ FromPaths(DOMAIN d, m.published, u.package, u.range) \subseteq paths
      /\ FromRepository(DOMAIN repository, u.package, u.range) \subseteq stored
  <2>1. FromOpen(DOMAIN o, u.package, u.range) \subseteq opened
    BY DEF FromOpen, Newest
  <2>2. FromPaths(DOMAIN d, m.published, u.package, u.range) \subseteq paths
    BY DEF FromPaths, Newest
  <2>3. FromRepository(DOMAIN repository, u.package, u.range) \subseteq stored
    BY DEF FromRepository, Newest
  <2> QED
    BY <2>1, <2>2, <2>3
<1>2. CASE FromOpen(DOMAIN o, u.package, u.range) # {}
  <2>1. r \in opened
    BY <1>1, <1>2 DEF Find, Resolve
  <2> QED
    BY <2>1 DEF Named
<1>3. CASE /\ FromOpen(DOMAIN o, u.package, u.range) = {}
           /\ FromPaths(DOMAIN d, m.published, u.package, u.range) # {}
  <2>1. r \in paths
    BY <1>1, <1>3 DEF Find, Resolve
  <2> QED
    BY <1>3, <2>1
<1>4. CASE /\ FromOpen(DOMAIN o, u.package, u.range) = {}
           /\ FromPaths(DOMAIN d, m.published, u.package, u.range) = {}
  <2>1. r \in stored
    BY <1>1, <1>4 DEF Find, Resolve
  <2> QED
    BY <1>4, <2>1
<1> QED
  BY <1>2, <1>3, <1>4

(* It is what the requirement asks for, it is not what another source would  *)
(* have to give first, and a file has precedence over an object.             *)
LEMMA FindTells ==
    ASSUME NEW m \in Says, NEW o \in Files, NEW d \in Files, repository \in Repositories,
           NEW u \in Required, NEW r \in Find(m, o, d, u)
    PROVE  LET s == ToProcess(u.package, r.version, r.source)
           IN  Sound(s, o) /\ (ReadOnly(s.source) <=> ~Reached(NameOf(s), m, o, d))
<1> DEFINE p == u.package
           range == u.range
           s == ToProcess(p, r.version, r.source)
<1> SUFFICES Sound(s, o) /\ (ReadOnly(s.source) <=> ~Reached(NameOf(s), m, o, d))
  OBVIOUS
<1>1. /\ p \in Package /\ range \in SUBSET AnyVersion
      /\ DOMAIN o \in SUBSET Location /\ DOMAIN d \in SUBSET Location
      /\ DOMAIN repository \subseteq Object
      /\ m.published \in [Package -> AnyVersion]
  BY FilesTyped, WorkspaceAssumption DEF Required, Says
<1>2. FromOpen(DOMAIN o, p, range) = {} =>
         \A l \in DOMAIN o : ~(l.package = p /\ l.version \in range)
  BY <1>1, FromOpenFinds
<1>3. FromPaths(DOMAIN d, m.published, p, range) = {} =>
         \A l \in DOMAIN d : ~(l.package = p /\ PublishedAs(m.published, l) \in range)
  BY <1>1, FromPathsFinds
<1>4. /\ s.package = p /\ s.version = r.version /\ s.source = r.source
      /\ NameOf(s) = VersionedPackage(p, r.version)
  BY DEF ToProcess, NameOf
<1> HIDE DEF s
<1>5. CASE \E l \in DOMAIN o :
              l.package = p /\ l.version \in range /\ r = Resolved(l.version, "editor", l)
  <2>1. PICK l \in DOMAIN o :
              l.package = p /\ l.version \in range /\ r = Resolved(l.version, "editor", l)
    BY <1>5
  <2>2. r.version = l.version /\ r.source.from = "editor" /\ r.source.url = l
        /\ r.source = Source("editor", l)
    BY <2>1 DEF Resolved, Source
  <2>3. NameOf(s) = Own(l)
    BY <1>4, <2>1, <2>2 DEF Own
  <2>4. s \in Task
    BY <1>1, <2>1, <2>2 DEF s, ToProcess, Task, SourceRec, SourceUrl, Source
  <2>5. Sound(s, o)
    BY <1>4, <2>2, <2>3, <2>4 DEF Sound
  <2>6. Reached(NameOf(s), m, o, d)
    BY <2>3 DEF Reached
  <2>7. ~ReadOnly(s.source)
    BY <1>4, <2>2 DEF ReadOnly
  <2> QED
    BY <2>5, <2>6, <2>7
<1>6. CASE /\ FromOpen(DOMAIN o, p, range) = {}
           /\ \E l \in DOMAIN d :
                 /\ l.package = p /\ PublishedAs(m.published, l) \in range
                 /\ r = Resolved(PublishedAs(m.published, l), "disk", l)
  <2>1. PICK l \in DOMAIN d :
                 /\ l.package = p /\ PublishedAs(m.published, l) \in range
                 /\ r = Resolved(PublishedAs(m.published, l), "disk", l)
    BY <1>6
  <2>2. r.version = PublishedAs(m.published, l) /\ r.source.from = "disk" /\ r.source.url = l
        /\ r.source = Source("disk", l)
    BY <2>1 DEF Resolved, Source
  <2>3. NameOf(s) = VersionedPackage(l.package, PublishedAs(m.published, l))
    BY <1>4, <2>1, <2>2
  <2>4. s \in Task
    BY <1>1, <2>1, <2>2 DEF s, ToProcess, Task, SourceRec, SourceUrl, Source
  <2>5. ~(l \in DOMAIN o /\ NameOf(s) = Own(l))
    BY <1>2, <1>6, <2>1, <2>3 DEF Own, VersionedPackage
  <2>6. Reached(NameOf(s), m, o, d)
    BY <2>3 DEF Reached, VersionedPackage
  <2>7. Sound(s, o)
    BY <1>1, <1>4, <2>2, <2>4, <2>5 DEF Sound
  <2>8. ~ReadOnly(s.source)
    BY <1>4, <2>2 DEF ReadOnly
  <2> QED
    BY <2>6, <2>7, <2>8
<1>7. CASE /\ FromOpen(DOMAIN o, p, range) = {}
           /\ FromPaths(DOMAIN d, m.published, p, range) = {}
           /\ \E x \in DOMAIN repository :
                 /\ x.package = p /\ x.version \in range
                 /\ r = Resolved(x.version, "repository", x)
  <2>1. PICK x \in DOMAIN repository :
                 /\ x.package = p /\ x.version \in range
                 /\ r = Resolved(x.version, "repository", x)
    BY <1>7
  <2>2. r.version = x.version /\ r.source.from = "repository" /\ r.source.url = x
        /\ r.source = Source("repository", x)
    BY <2>1 DEF Resolved, Source
  <2>3. NameOf(s) = Own(x)
    BY <1>4, <2>1, <2>2 DEF Own
  <2>4. s \in Task
    BY <1>1, <2>1, <2>2 DEF s, ToProcess, Task, SourceRec, SourceUrl, Source
  <2>5. ASSUME NEW l \in DOMAIN o PROVE Own(l) # NameOf(s)
    <3>1. ~(l.package = x.package /\ l.version = x.version)
      BY <1>2, <1>7, <2>1
    <3> QED
      BY <2>3, <3>1 DEF Own, VersionedPackage
  <2>6. ~\E l \in DOMAIN d : l.package = NameOf(s).package
                             /\ PublishedAs(m.published, l) = NameOf(s).version
    BY <1>3, <1>7, <2>1, <2>3 DEF Own, VersionedPackage
  <2>7. Sound(s, o)
    BY <1>4, <2>2, <2>3, <2>4 DEF Sound
  <2>8. ~Reached(NameOf(s), m, o, d)
    BY <2>5, <2>6 DEF Reached
  <2>9. ReadOnly(s.source)
    BY <1>4, <2>2 DEF ReadOnly
  <2> QED
    BY <2>7, <2>8, <2>9
<1> QED
  <2> HIDE DEF p, range
  <2>1. \/ \E l \in DOMAIN o :
              l.package = p /\ l.version \in range /\ r = Resolved(l.version, "editor", l)
        \/ /\ FromOpen(DOMAIN o, p, range) = {}
           /\ \E l \in DOMAIN d :
                 /\ l.package = p /\ PublishedAs(m.published, l) \in range
                 /\ r = Resolved(PublishedAs(m.published, l), "disk", l)
        \/ /\ FromOpen(DOMAIN o, p, range) = {}
           /\ FromPaths(DOMAIN d, m.published, p, range) = {}
           /\ \E x \in DOMAIN repository :
                 /\ x.package = p /\ x.version \in range
                 /\ r = Resolved(x.version, "repository", x)
    BY FindCases DEF p, range
  <2> QED
    BY <1>5, <1>6, <1>7, <2>1

(* All that is found for a requirement is of one version, and from one place. *)
LEMMA FindAgrees ==
    ASSUME NEW m \in Says, NEW o \in Files, NEW d \in Files, repository \in Repositories,
           NEW u \in Required, NEW r \in Find(m, o, d, u), NEW q \in Find(m, o, d, u)
    PROVE  r.version = q.version
<1>1. r.version \in Nat /\ q.version \in Nat
  <2>1. \A x \in Find(m, o, d, u) : ToProcess(u.package, x.version, x.source) \in Task
    BY FindTells DEF Sound
  <2>2. \A x \in Find(m, o, d, u) : x.version \in AnyVersion
    BY <2>1 DEF ToProcess, Task
  <2> QED
    BY <2>2, NumbersAreNat
<1>2. PICK R : r \in Newest(R) /\ q \in Newest(R)
  BY DEF Find, Resolve, FromOpen, FromPaths, FromRepository
<1>3. r.version <= q.version /\ q.version <= r.version
  BY <1>2 DEF Newest
<1> QED
  BY <1>1, <1>3

-----------------------------------------------------------------------------
(* What there is to load.                                                  *)

LEMMA ToBuildFinite ==
    ASSUME NEW O \in SUBSET Location, NEW D \in SUBSET Location
    PROVE  IsFiniteSet(ToBuild(O, D))
<1> DEFINE f == [s \in ToBuild(O, D) |-> s.source.url]
<1>1. ASSUME NEW s \in ToBuild(O, D)
      PROVE  \/ \E l \in O : s = ToProcess(l.package, l.version, Source("editor", l))
             \/ \E l \in D \ O : s = ToProcess(l.package, l.version, Source("disk", l))
  BY DEF ToBuild, Named, SameName, ToProcess
<1>2. ASSUME NEW s \in ToBuild(O, D)
      PROVE  \E l \in Location :
                /\ f[s] = l
                /\ s = ToProcess(l.package, l.version,
                                 Source(IF l \in O THEN "editor" ELSE "disk", l))
  <2>1. CASE \E l \in O : s = ToProcess(l.package, l.version, Source("editor", l))
    <3>1. PICK l \in O : s = ToProcess(l.package, l.version, Source("editor", l))
      BY <2>1
    <3>2. f[s] = l /\ l \in Location
      BY <3>1 DEF ToProcess, Source
    <3> QED
      BY <3>1, <3>2
  <2>2. CASE \E l \in D \ O : s = ToProcess(l.package, l.version, Source("disk", l))
    <3>1. PICK l \in D \ O : s = ToProcess(l.package, l.version, Source("disk", l))
      BY <2>2
    <3>2. f[s] = l /\ l \in Location
      BY <3>1 DEF ToProcess, Source
    <3> QED
      BY <3>1, <3>2
  <2> QED
    BY <1>1, <2>1, <2>2
<1>3. f \in [ToBuild(O, D) -> Location]
  BY <1>2
<1>4. \A s, t \in ToBuild(O, D) : f[s] = f[t] => s = t
  <2> HIDE DEF f
  <2> QED
    BY <1>2
<1>5. f \in Injection(ToBuild(O, D), Location)
  <2> HIDE DEF f
  <2> QED
    BY <1>3, <1>4 DEF Injection, IsInjective
<1> QED
  BY <1>5, FS_Injection, ResolutionAssumption

(* All that is to be loaded is sound, and what comes out of a repository has *)
(* no file.                                                                  *)
LEMMA SourcesTell ==
    ASSUME NEW m \in Manifest \ {None}, NEW o \in Files, NEW d \in Files,
           repository \in Repositories, ~Unresolved(m, o, d), NEW t \in Sources(m, o, d)
    PROVE  /\ t \in Seq(Task)
           /\ \A s \in ToSet(t) :
                 Sound(s, o) /\ (ReadOnly(s.source) => ~Reached(NameOf(s), m, o, d))
<1> DEFINE Good == {s \in Task : Sound(s, o)
                                 /\ (ReadOnly(s.source) => ~Reached(NameOf(s), m, o, d))}
           Chosen(i) == CHOOSE r \in Find(m, o, d, m.packages[i]) : TRUE
           listed == [i \in DOMAIN m.files |->
                         ToProcess(m.files[i].package, m.files[i].version,
                                   Source("disk", m.files[i].at))]
           packaged == [i \in DOMAIN m.packages |->
                           ToProcess(m.packages[i].package, Chosen(i).version, Chosen(i).source)]
<1>1. /\ m \in Says /\ m.files \in Seq(ListedFile) /\ m.packages \in Seq(Required)
      /\ DOMAIN o \in SUBSET Location /\ DOMAIN d \in SUBSET Location
  BY FilesTyped, WorkspaceAssumption DEF Says
<1>2. ToBuild(DOMAIN o, DOMAIN d) \subseteq Good
  <2>1. ASSUME NEW l \in DOMAIN o, NEW s, s = ToProcess(l.package, l.version, Source("editor", l))
        PROVE  s \in Good
    <3>1. /\ s.package = l.package /\ s.version = l.version
          /\ s.source.from = "editor" /\ s.source.url = l
      BY <2>1 DEF ToProcess, Source
    <3>2. s \in Task
      BY <1>1, <2>1, LocationsTyped DEF ToProcess, Task, SourceRec, SourceUrl, Source
    <3>3. Sound(s, o)
      BY <3>1, <3>2 DEF Sound, NameOf, Own
    <3> QED
      BY <3>1, <3>2, <3>3 DEF ReadOnly
  <2>2. ASSUME NEW l \in DOMAIN d \ DOMAIN o, NEW s,
               s = ToProcess(l.package, l.version, Source("disk", l))
        PROVE  s \in Good
    <3>1. /\ s.package = l.package /\ s.version = l.version
          /\ s.source.from = "disk" /\ s.source.url = l
      BY <2>2 DEF ToProcess, Source
    <3>2. s \in Task
      BY <1>1, <2>2, LocationsTyped DEF ToProcess, Task, SourceRec, SourceUrl, Source
    <3>3. Sound(s, o)
      BY <1>1, <3>1, <3>2 DEF Sound
    <3> QED
      BY <3>1, <3>2, <3>3 DEF ReadOnly
  <2>3. ASSUME NEW s \in ToBuild(DOMAIN o, DOMAIN d)
        PROVE  \/ \E l \in DOMAIN o : s = ToProcess(l.package, l.version, Source("editor", l))
               \/ \E l \in DOMAIN d \ DOMAIN o :
                     s = ToProcess(l.package, l.version, Source("disk", l))
    BY DEF ToBuild, Named, SameName, ToProcess
  <2> HIDE DEF Good
  <2> QED
    BY <2>1, <2>2, <2>3
<1>3. ASSUME NEW q \in SetToSeqs(ToBuild(DOMAIN o, DOMAIN d)) PROVE q \in Seq(Good)
  <2>1. Cardinality(ToBuild(DOMAIN o, DOMAIN d)) \in Nat
    BY <1>1, ToBuildFinite, FS_CardinalityType
  <2>2. q \in [1..Cardinality(ToBuild(DOMAIN o, DOMAIN d)) -> Good]
    BY <1>2 DEF SetToSeqs
  <2> HIDE DEF Good
  <2> QED
    BY <2>1, <2>2
<1>4. listed \in Seq(Good)
  <2>1. ASSUME NEW i \in DOMAIN m.files PROVE listed[i] \in Good
    <3> DEFINE s == listed[i]
               l == m.files[i].at
    <3>1. m.files[i] \in ListedFile
      BY <1>1
    <3>2. l \in Location /\ s.source.from = "disk" /\ s.source.url = l
      BY <3>1 DEF ToProcess, Source, ListedFile
    <3>3. s \in Task
      BY <3>1 DEF ListedFile, ToProcess, Task, SourceRec, SourceUrl, Source
    <3>4. Listed(l)
      BY DEF Listed
    <3>5. Sound(s, o)
      <4> HIDE DEF s, l
      <4> QED
        BY <3>2, <3>3, <3>4 DEF Sound
    <3> QED
      BY <3>2, <3>3, <3>5 DEF ReadOnly
  <2>2. DOMAIN m.files = 1..Len(m.files) /\ Len(m.files) \in Nat
    BY <1>1, LenProperties
  <2>3. listed \in [1..Len(m.files) -> Good]
    <3> HIDE DEF Good
    <3> QED
      BY <2>1, <2>2
  <2> HIDE DEF Good, listed
  <2> QED
    BY <2>2, <2>3
<1>5. packaged \in Seq(Good)
  <2>1. ASSUME NEW i \in DOMAIN m.packages PROVE packaged[i] \in Good
    <3>1. m.packages[i] \in Required
      BY <1>1
    <3>2. Chosen(i) \in Find(m, o, d, m.packages[i])
      BY DEF Unresolved
    <3>3. LET s == packaged[i]
          IN  Sound(s, o) /\ (ReadOnly(s.source) <=> ~Reached(NameOf(s), m, o, d))
      <4> HIDE DEF Chosen
      <4> QED
        BY <1>1, <3>1, <3>2, FindTells
    <3> HIDE DEF packaged
    <3> QED
      BY <3>3 DEF Sound
  <2>2. DOMAIN m.packages = 1..Len(m.packages) /\ Len(m.packages) \in Nat
    BY <1>1, LenProperties
  <2>3. packaged \in [1..Len(m.packages) -> Good]
    <3> HIDE DEF Good, Chosen
    <3> QED
      BY <2>1, <2>2
  <2> HIDE DEF Good, packaged
  <2> QED
    BY <2>2, <2>3
<1>6. PICK q : /\ q = <<>> \/ q \in SetToSeqs(ToBuild(DOMAIN o, DOMAIN d))
               /\ t = q \o listed \o packaged
  BY DEF Sources
<1>7. t \in Seq(Good)
  <2>1. q \in Seq(Good)
    <3> HIDE DEF Good, listed, packaged
    <3>1. CASE q = <<>>
      BY <3>1, EmptySeq
    <3>2. CASE q \in SetToSeqs(ToBuild(DOMAIN o, DOMAIN d))
      BY <1>3, <3>2
    <3> QED
      BY <1>6, <3>1, <3>2
  <2> HIDE DEF Good, listed, packaged
  <2>2. q \o listed \in Seq(Good)
    BY <1>4, <2>1, ConcatProperties
  <2> QED
    BY <1>5, <1>6, <2>2, ConcatProperties
<1>8. ASSUME NEW s \in ToSet(t) PROVE s \in Good
  <2> HIDE DEF Good
  <2> QED
    BY <1>7 DEF ToSet
<1>9. t \in Seq(Task)
  <2>1. Good \subseteq Task
    OBVIOUS
  <2> HIDE DEF Good
  <2> QED
    BY <1>7, <2>1, SeqMonotonic
<1> QED
  BY <1>8, <1>9

-----------------------------------------------------------------------------
(* The steps of a load.                                                    *)

(* What is fine stays so while the editor does not change; the rest is about *)
(* loads during which the files do not change.                               *)
LEMMA StillOK ==
    ASSUME UNCHANGED <<open, building, repository>>, versioned \subseteq versioned',
           steady' => steady /\ disk' = disk
    PROVE  /\ \A s : TaskOK(s) => TaskOK(s)'
           /\ \A p : PrefixOK(p) => PrefixOK(p)'
           /\ \A f : FileOK(f) => FileOK(f)'
<1>1. \A n : steady' => (Unreached(n) <=> Unreached(n)')
  BY DEF Unreached, Reached
<1>2. \A p : PrefixOK(p) => PrefixOK(p)'
  BY DEF PrefixOK, Writable, Reached
<1>3. \A s : TaskOK(s) => TaskOK(s)'
  BY <1>1 DEF TaskOK, Sound
<1>4. \A f : FileOK(f) => FileOK(f)'
  BY <1>1, <1>2 DEF FileOK, AsTyped
<1> QED
  BY <1>2, <1>3, <1>4

LEMMA LoadGoesOn ==
    ASSUME Loading, UNCHANGED <<open, building, repository, packages, files, current>>,
           versioned \subseteq versioned', gone \subseteq gone', steady' => steady /\ disk' = disk,
           ToSet(todo') \subseteq ToSet(todo),
           \A f \in ToSet(stack') : FileOK(f)',
           \A u \in DOMAIN required' : \A p \in required'[u] : PrefixOK(p)',
           versioned' \subseteq DOMAIN packages \cup gone' \cup {f.package : f \in ToSet(stack')}
    PROVE  Loading'
<1>1. /\ \A s \in ToSet(todo') : TaskOK(s)'
      /\ \A f \in Known' : FileOK(f)'
  BY StillOK DEF Loading, Known
<1> QED
  BY <1>1 DEF Loading

(* A file that is read is what its source says. *)
LEMMA FileMade ==
    ASSUME WorkspaceTypeOK, NEW s, TaskOK(s), ~Missing(s.source)
    PROVE  LET f == File(NameOf(s), s.source)
           IN  f \in FileRec /\ f.package = NameOf(s) /\ FileOK(f)
<1> DEFINE source == s.source
           f == File(NameOf(s), source)
<1>1. /\ s \in Task /\ Sound(s, open) /\ NameOf(s) \in Name
      /\ source.from \in {"editor", "disk", "repository"} /\ source.url \in SourceUrl
      /\ DOMAIN open \in SUBSET Location /\ DOMAIN disk \in SUBSET Location
      /\ DOMAIN repository \subseteq Object
  BY FilesTyped, WorkspaceAssumption
     DEF WorkspaceTypeOK, TaskOK, Sound, Task, SourceRec, NameOf, VersionedPackage, Name
<1>2. /\ f.package = NameOf(s) /\ f.url = source.url /\ f.text = Read(source)
      /\ f.readOnly = ReadOnly(source) /\ f.prefixes = {}
      /\ f.uses = IF Read(source) \in Broken THEN <<>> ELSE Uses(Read(source))
  BY DEF File
<1>3. /\ Read(source) \in Text
      /\ ReadOnly(source) <=> source.url \in Object
      /\ ReadOnly(source) => NameOf(s) = Own(source.url)
      /\ AsTyped(f, open)
  <2>1. CASE source.from = "editor"
    <3>1. /\ source.url \in DOMAIN open /\ source.url \in Location
          /\ Read(source) = open[source.url] /\ ~ReadOnly(source)
      BY <1>1, <2>1 DEF Sound, Read, ReadOnly
    <3>2. source.url \notin Object /\ Read(source) \in Text
      BY <3>1, LocationsTyped, FilesTyped DEF WorkspaceTypeOK
    <3>3. AsTyped(f, open)
      BY <1>2, <3>1 DEF AsTyped
    <3> QED
      BY <3>1, <3>2, <3>3
  <2>2. CASE source.from = "disk"
    <3>1. /\ source.url \in DOMAIN disk /\ source.url \in Location
          /\ Read(source) = disk[source.url] /\ ~ReadOnly(source)
      BY <1>1, <2>2 DEF Sound, Read, ReadOnly, Missing
    <3>2. source.url \notin Object /\ Read(source) \in Text
      BY <3>1, LocationsTyped, FilesTyped DEF WorkspaceTypeOK
    <3>3. source.url \in DOMAIN open /\ NameOf(s) = Own(source.url) => Listed(source.url)
      BY <1>1, <2>2 DEF Sound
    <3>4. AsTyped(f, open)
      BY <1>2, <3>3 DEF AsTyped
    <3> QED
      BY <3>1, <3>2, <3>4
  <2>3. CASE source.from = "repository"
    <3>1. /\ source.url \in DOMAIN repository /\ source.url \in Object
          /\ NameOf(s) = Own(source.url)
          /\ Read(source) = repository[source.url] /\ ReadOnly(source)
      BY <1>1, <2>3 DEF Sound, Read, ReadOnly
    <3>2. source.url \notin DOMAIN open /\ Read(source) \in Text
      BY <1>1, <3>1, LocationsTyped, WorkspaceAssumption DEF WorkspaceTypeOK
    <3>3. AsTyped(f, open)
      BY <1>2, <3>2 DEF AsTyped
    <3> QED
      BY <3>1, <3>2, <3>3
  <2> QED
    BY <1>1, <2>1, <2>2, <2>3
<1>4. f \in FileRec
  <2>1. ReadOnly(source) \in BOOLEAN
    BY DEF ReadOnly
  <2>2. <<>> \in Seq(Required) /\ Uses(Read(source)) \in Seq(Required)
    BY <1>3, EmptySeq, WorkspaceAssumption
  <2> HIDE DEF source
  <2> QED
    BY <1>1, <1>3, <2>1, <2>2 DEF File, FileRec
<1>5. FileOK(f)
  BY <1>2, <1>3 DEF FileOK, TaskOK
<1> QED
  BY <1>2, <1>4, <1>5

LEMMA PackageProcessed ==
    ASSUME WorkspaceTypeOK, NEW s, TaskOK(s), NEW below \in Seq(FileRec),
           ProcessPackage(NameOf(s), s.source, below)
    PROVE  /\ stack' \in Seq(FileRec)
           /\ versioned' = versioned \cup {NameOf(s)} /\ gone \subseteq gone'
           /\ ToSet(below) \subseteq ToSet(stack')
           /\ \A f \in ToSet(stack') : f \in ToSet(below) \/ FileOK(f)
           /\ NameOf(s) \in versioned \cup gone' \cup {f.package : f \in ToSet(stack')}
<1>1. CASE NameOf(s) \in versioned \/ Missing(s.source)
  BY <1>1 DEF ProcessPackage
<1>2. CASE ~(NameOf(s) \in versioned \/ Missing(s.source))
  <2> DEFINE f == File(NameOf(s), s.source)
  <2>1. f \in FileRec /\ f.package = NameOf(s) /\ FileOK(f)
    BY <1>2, FileMade
  <2>2. stack' = <<f>> \o below /\ versioned' = versioned \cup {NameOf(s)} /\ gone' = gone
    BY <1>2 DEF ProcessPackage
  <2> HIDE DEF f
  <2>3. stack' \in Seq(FileRec) /\ ToSet(stack') = {f} \cup ToSet(below)
    BY <2>1, <2>2, Pushed
  <2> QED
    BY <2>1, <2>2, <2>3
<1> QED
  BY <1>1, <1>2

LEMMA ProcessSourceStep ==
    ASSUME WorkspaceInv, ProcessSource
    PROVE  WorkspaceInv'
<1> DEFINE s == Head(todo)
<1>1. /\ WorkspaceTypeOK /\ Loading /\ stack = <<>>
      /\ TaskOK(s) /\ Tail(todo) \in Seq(Task) /\ ToSet(todo') \subseteq ToSet(todo)
  <2>1. todo \in Seq(Task) /\ todo # <<>> /\ todo' = Tail(todo)
    BY DEF WorkspaceInv, WorkspaceTypeOK, ProcessSource
  <2>2. s \in ToSet(todo) /\ Tail(todo) \in Seq(Task) /\ ToSet(todo') \subseteq ToSet(todo)
    BY <2>1, TakenApart
  <2> HIDE DEF s
  <2> QED
    BY <2>2 DEF WorkspaceInv, ProcessSource, Loading
<1>2. <<>> \in Seq(FileRec) /\ ProcessPackage(NameOf(s), s.source, <<>>)
  BY EmptySeq DEF ProcessSource, NameOf
<1>3. /\ todo' = Tail(todo)
      /\ UNCHANGED <<disk, reproto, repository, open, editing, packages, files, building,
                     required, current, steady>>
  BY DEF ProcessSource, world, editor, loaded
<1> HIDE DEF s
<1>4. /\ stack' \in Seq(FileRec)
      /\ versioned' = versioned \cup {NameOf(s)} /\ gone \subseteq gone'
      /\ \A f \in ToSet(stack') : FileOK(f)
      /\ NameOf(s) \in versioned \cup gone' \cup {f.package : f \in ToSet(stack')}
  BY <1>1, <1>2, PackageProcessed, NothingIn
<1>5. WorkspaceTypeOK'
  BY <1>1, <1>3, <1>4 DEF WorkspaceTypeOK
<1>6. /\ \A f \in ToSet(stack') : FileOK(f)'
      /\ \A u \in DOMAIN required' : \A p \in required'[u] : PrefixOK(p)'
  BY <1>1, <1>3, <1>4, StillOK DEF Loading
<1>7. versioned' \subseteq DOMAIN packages \cup gone' \cup {f.package : f \in ToSet(stack')}
  BY <1>1, <1>4, NothingIn DEF Loading
<1>8. Loading'
  BY <1>1, <1>3, <1>4, <1>6, <1>7, LoadGoesOn
<1>9. ~Idle'
  BY <1>3 DEF ProcessSource, Idle
<1> QED
  BY <1>5, <1>8, <1>9 DEF WorkspaceInv

LEMMA ProcessFileStep ==
    ASSUME WorkspaceInv, ProcessFile
    PROVE  WorkspaceInv'
<1> DEFINE file == Head(stack)
<1>1. /\ WorkspaceTypeOK /\ Loading /\ ~Idle
      /\ file \in FileRec /\ Tail(stack) \in Seq(FileRec)
      /\ ToSet(stack) = {file} \cup ToSet(Tail(stack))
  <2>1. WorkspaceTypeOK /\ stack \in Seq(FileRec) /\ stack # <<>>
    BY DEF WorkspaceInv, WorkspaceTypeOK, ProcessFile
  <2>2. ~Idle /\ Loading
    BY <2>1 DEF WorkspaceInv, Settled
  <2> QED
    BY <2>1, <2>2, TakenApart
<1>2. /\ files' = With(files, file.url, file)
      /\ packages' = With(packages, file.package, file.url)
      /\ stack' = Tail(stack)
      /\ UNCHANGED <<disk, reproto, repository, open, editing, building, todo,
                     required, versioned, gone, current, steady>>
  BY DEF ProcessFile, world, editor, lookups
<1> HIDE DEF file
<1>3. WorkspaceTypeOK'
  <2>1. \A u \in DOMAIN files' : files'[u] \in FileRec /\ files'[u].url = u
    BY <1>1, <1>2 DEF With, WorkspaceTypeOK
  <2>2. \A n \in DOMAIN packages' : packages'[n] \in DOMAIN files'
    BY <1>1, <1>2 DEF With, WorkspaceTypeOK
  <2> QED
    BY <1>1, <1>2, <2>1, <2>2 DEF WorkspaceTypeOK
<1>4. /\ Known' \subseteq Known
      /\ DOMAIN packages' = DOMAIN packages \cup {file.package}
      /\ \A n \in DOMAIN packages' :
            packages'[n] = IF n = file.package THEN file.url ELSE packages[n]
  BY <1>1, <1>2 DEF With, Known
<1>5. /\ \A f \in Known' : FileOK(f)'
      /\ \A s \in ToSet(todo') : TaskOK(s)'
      /\ \A u \in DOMAIN required' : \A p \in required'[u] : PrefixOK(p)'
  BY <1>1, <1>2, <1>4, StillOK DEF Loading
<1>6. versioned' \subseteq DOMAIN packages' \cup gone' \cup {f.package : f \in ToSet(stack')}
  BY <1>1, <1>2, <1>4 DEF Loading
<1>7. ASSUME NEW n \in DOMAIN packages', packages'[n] \in Object PROVE n = Own(packages'[n])
  <2>1. CASE n = file.package
    <3>1. packages'[n] = file.url /\ FileOK(file)
      BY <1>1, <1>4, <2>1 DEF Loading, Known
    <3> QED
      BY <1>7, <2>1, <3>1 DEF FileOK
  <2>2. CASE n # file.package
    BY <1>1, <1>4, <1>7, <2>2 DEF Loading
  <2> QED
    BY <2>1, <2>2
<1>8. Loading'
  BY <1>1, <1>2, <1>5, <1>6, <1>7 DEF Loading
<1> QED
  BY <1>1, <1>2, <1>3, <1>8 DEF WorkspaceInv, Idle

LEMMA ProcessRequiredStep ==
    ASSUME WorkspaceInv, ProcessRequired
    PROVE  WorkspaceInv'
<1>0. PICK file : file = Head(stack)
  OBVIOUS
<1> DEFINE u == Head(file.uses)
           found == Find(building, open, disk, u)
           answer == IF u \in DOMAIN required THEN required[u]
                     ELSE {Prefix(VersionedPackage(u.package, r.version), r.source) : r \in found}
           TaskFor(r) == ToProcess(u.package, r.version, r.source)
<1>1. /\ WorkspaceTypeOK /\ Loading /\ ~Idle
      /\ file \in FileRec /\ Tail(stack) \in Seq(FileRec)
      /\ ToSet(stack) = {file} \cup ToSet(Tail(stack))
  <2>1. WorkspaceTypeOK /\ stack \in Seq(FileRec) /\ stack # <<>>
    BY DEF WorkspaceInv, WorkspaceTypeOK, ProcessRequired
  <2>2. ~Idle /\ Loading
    BY <2>1 DEF WorkspaceInv, Settled
  <2> QED
    BY <1>0, <2>1, <2>2, TakenApart
<1>2. u \in Required /\ Tail(file.uses) \in Seq(Required)
  <2>1. file.uses \in Seq(Required) /\ file.uses # <<>>
    BY <1>0, <1>1 DEF FileRec, ProcessRequired
  <2> QED
    BY <2>1, HeadTailProperties
<1>2a. PICK read : read = [file EXCEPT !.uses = Tail(@), !.prefixes = @ \cup answer]
  OBVIOUS
<1> DEFINE below == <<read>> \o Tail(stack)
<1>3. /\ UNCHANGED <<disk, reproto, repository, open, editing, packages, files, building, todo,
                     current, steady>>
      /\ required' = With(required, u, answer)
      /\ \/ /\ u \in DOMAIN required \/ found = {}
            /\ stack' = below /\ UNCHANGED <<versioned, gone>>
         \/ /\ u \notin DOMAIN required
            /\ \E r \in found :
                  ProcessPackage(VersionedPackage(u.package, r.version), r.source, below)
  BY <1>0, <1>2a DEF ProcessRequired, world, editor, loaded
<1>4. ASSUME NEW r \in found
      PROVE  /\ TaskOK(TaskFor(r)) /\ TaskFor(r).source = r.source
             /\ NameOf(TaskFor(r)) = VersionedPackage(u.package, r.version)
             /\ NameOf(TaskFor(r)) \in Name
             /\ ReadOnly(r.source) \/ Reached(NameOf(TaskFor(r)), building, open, disk)
             /\ \A q \in found : q.version = r.version
  <2>1. building \in Says /\ open \in Files /\ disk \in Files /\ repository \in Repositories
    BY <1>1, WorkspaceAssumption DEF Idle, WorkspaceTypeOK
  <2> HIDE DEF u
  <2>2. /\ Sound(TaskFor(r), open)
        /\ ReadOnly(TaskFor(r).source) <=> ~Reached(NameOf(TaskFor(r)), building, open, disk)
    BY <1>2, <2>1, FindTells
  <2>3. TaskFor(r).source = r.source /\ NameOf(TaskFor(r)) = VersionedPackage(u.package, r.version)
    BY DEF ToProcess, NameOf
  <2>4. TaskFor(r) \in Task
    BY <2>2 DEF Sound
  <2>5. NameOf(TaskFor(r)) \in Name
    BY <2>4 DEF NameOf, Task, Name, VersionedPackage
  <2>6. \A q \in found : q.version = r.version
    BY <1>2, <2>1, FindAgrees
  <2> HIDE DEF TaskFor
  <2> QED
    BY <2>2, <2>3, <2>5, <2>6 DEF TaskOK, Unreached
<1>5. answer \in SUBSET PrefixRec
  <2>1. CASE u \in DOMAIN required
    BY <1>1, <2>1 DEF WorkspaceTypeOK
  <2>2. ASSUME NEW r \in found
        PROVE  Prefix(VersionedPackage(u.package, r.version), r.source) \in PrefixRec
    <3>1. VersionedPackage(u.package, r.version) \in Name /\ ReadOnly(r.source) \in BOOLEAN
      BY <1>4 DEF ReadOnly
    <3> QED
      BY <3>1 DEF Prefix, PrefixRec
  <2> HIDE DEF u, found
  <2> QED
    BY <2>1, <2>2
<1>6. /\ read \in FileRec /\ read.package = file.package
      /\ AsTyped(read, open) <=> AsTyped(file, open)
      /\ read.readOnly = file.readOnly /\ read.url = file.url
      /\ read.prefixes = file.prefixes \cup answer
  <2> HIDE DEF answer
  <2>1. file \in FileRec
    BY <1>1
  <2>2. read = [package |-> file.package, url |-> file.url, text |-> file.text,
                readOnly |-> file.readOnly, uses |-> Tail(file.uses),
                prefixes |-> file.prefixes \cup answer]
    BY <1>2a, <2>1 DEF FileRec
  <2> QED
    BY <1>2, <1>5, <2>1, <2>2 DEF FileRec, AsTyped
<1>7. /\ below \in Seq(FileRec)
      /\ ToSet(below) = {read} \cup ToSet(Tail(stack))
  BY <1>1, <1>6, Pushed
<1> HIDE DEF below, TaskFor
<1>8. /\ stack' \in Seq(FileRec)
      /\ versioned \subseteq versioned' /\ gone \subseteq gone'
      /\ \A f \in ToSet(stack') : f \in ToSet(below) \/ FileOK(f)
      /\ versioned' \subseteq versioned \cup gone' \cup {f.package : f \in ToSet(stack')}
      /\ \A p \in answer : p.package \in versioned' /\ (steady => Writable(p))
      /\ ToSet(below) \subseteq ToSet(stack')
  <2>1. CASE u \in DOMAIN required
    <3>1. \A p \in answer : PrefixOK(p)
      BY <1>1, <2>1 DEF Loading
    <3> HIDE DEF u, answer, found
    <3> QED
      BY <1>3, <1>7, <2>1, <3>1 DEF PrefixOK
  <2>2. CASE u \notin DOMAIN required /\ found = {}
    <3>1. answer = {}
      BY <2>2
    <3> HIDE DEF u, answer, found
    <3> QED
      BY <1>3, <1>7, <2>2, <3>1
  <2>3. CASE u \notin DOMAIN required /\ found # {}
    <3>1. PICK r \in found :
             ProcessPackage(VersionedPackage(u.package, r.version), r.source, below)
      BY <1>3, <2>3
    <3>2. ProcessPackage(NameOf(TaskFor(r)), TaskFor(r).source, below) /\ TaskOK(TaskFor(r))
      BY <1>4, <3>1
    <3>3. /\ stack' \in Seq(FileRec)
          /\ versioned' = versioned \cup {NameOf(TaskFor(r))} /\ gone \subseteq gone'
          /\ ToSet(below) \subseteq ToSet(stack')
          /\ \A f \in ToSet(stack') : f \in ToSet(below) \/ FileOK(f)
          /\ NameOf(TaskFor(r)) \in versioned \cup gone' \cup {f.package : f \in ToSet(stack')}
      BY <1>1, <1>7, <3>2, PackageProcessed
    <3>4. ASSUME NEW p \in answer PROVE p.package \in versioned' /\ Writable(p)
      <4>1. PICK q \in found : p = Prefix(VersionedPackage(u.package, q.version), q.source)
        BY <2>3
      <4>2. /\ p.package = NameOf(TaskFor(q)) /\ p.readOnly = ReadOnly(q.source)
            /\ NameOf(TaskFor(q)) = NameOf(TaskFor(r))
        BY <1>4, <4>1 DEF Prefix
      <4> QED
        BY <1>4, <3>3, <4>2 DEF Writable
    <3> HIDE DEF u, answer, found
    <3> QED
      BY <3>3, <3>4
  <2> QED
    BY <2>1, <2>2, <2>3
<1> HIDE DEF u, found, answer
<1>9. WorkspaceTypeOK'
  <2>1. \A x \in DOMAIN required' : required'[x] \in SUBSET PrefixRec
    BY <1>1, <1>3, <1>5 DEF With, WorkspaceTypeOK
  <2> QED
    BY <1>1, <1>3, <1>8, <2>1 DEF WorkspaceTypeOK
<1>10. \A p \in answer : PrefixOK(p)'
  BY <1>3, <1>8 DEF PrefixOK, Writable, Reached
<1>11. /\ \A f : FileOK(f) => FileOK(f)'
       /\ \A p : PrefixOK(p) => PrefixOK(p)'
  BY <1>3, <1>8, StillOK
<1>12. FileOK(read)'
  <2>1. FileOK(file)'
    BY <1>1, <1>11 DEF Loading, Known
  <2>2. AsTyped(read, open)' <=> AsTyped(file, open)'
    BY <1>3, <1>6 DEF AsTyped
  <2> QED
    BY <1>6, <1>10, <2>1, <2>2 DEF FileOK
<1>13. \A f \in ToSet(stack') : FileOK(f)'
  BY <1>1, <1>7, <1>8, <1>11, <1>12 DEF Loading, Known
<1>14. \A x \in DOMAIN required' : \A p \in required'[x] : PrefixOK(p)'
  BY <1>1, <1>3, <1>10, <1>11 DEF With, Loading
<1>15. versioned' \subseteq DOMAIN packages \cup gone' \cup {f.package : f \in ToSet(stack')}
  <2>1. {f.package : f \in ToSet(stack)} \subseteq {f.package : f \in ToSet(stack')}
    BY <1>1, <1>6, <1>7, <1>8
  <2> QED
    BY <1>1, <1>8, <2>1 DEF Loading
<1>16. Loading'
  BY <1>1, <1>3, <1>8, <1>13, <1>14, <1>15, LoadGoesOn
<1> QED
  BY <1>1, <1>3, <1>9, <1>16 DEF WorkspaceInv, Idle

(* What is loaded as read-only has no file, so what refers to it is too. *)
LEMMA ReadOnlyInLoad ==
    ASSUME WorkspaceTypeOK, Loading
    PROVE  ReadOnlyKept
<1> SUFFICES ASSUME steady, NEW u \in DOMAIN files, NEW p \in files[u].prefixes,
                    p.package \in DOMAIN packages, files[packages[p.package]].readOnly
             PROVE  p.readOnly
  BY DEF ReadOnlyKept
<1> DEFINE f == files[packages[p.package]]
<1>1. /\ FileOK(f) /\ f.url = packages[p.package] /\ PrefixOK(p)
  <2>1. packages[p.package] \in DOMAIN files
    BY DEF WorkspaceTypeOK
  <2>2. FileOK(f) /\ FileOK(files[u])
    BY <2>1 DEF Loading, Known
  <2> QED
    BY <2>1, <2>2 DEF WorkspaceTypeOK, FileOK
<1>2. f.package = p.package /\ Unreached(f.package)
  BY <1>1 DEF FileOK, Loading
<1> QED
  BY <1>1, <1>2 DEF PrefixOK, Writable, Unreached

LEMMA LoadedStep ==
    ASSUME WorkspaceInv, Loaded
    PROVE  WorkspaceInv'
<1>1. /\ WorkspaceTypeOK /\ Loading /\ stack = <<>>
      /\ UNCHANGED <<disk, reproto, repository, open, editing, packages, files, todo, stack,
                     required, versioned, gone, steady>>
      /\ building' = None /\ current'
      /\ shown' = (shown \ DOMAIN files) \cup Diagnosed(files)
  BY DEF WorkspaceInv, Loaded, world, editor, loaded, lookups, SendDiagnostics
<1>2. WorkspaceTypeOK'
  BY <1>1, WorkspaceAssumption DEF WorkspaceTypeOK
<1>3. AsYouType'
  <2> SUFFICES ASSUME NEW l \in DOMAIN open \cap DOMAIN files,
                      files[l].package = Own(l), ~Listed(l)
               PROVE  files[l].text = open[l] /\ (l \in shown' <=> open[l] \in Broken)
    BY <1>1 DEF AsYouType
  <2>1. files[l].url = l /\ AsTyped(files[l], open)
    BY <1>1 DEF WorkspaceTypeOK, Loading, Known, FileOK
  <2>2. files[l].text = open[l]
    BY <2>1 DEF AsTyped
  <2> QED
    BY <1>1, <2>2 DEF Diagnosed
<1>4. Complete'
  <2> SUFFICES ASSUME NEW u \in DOMAIN files, NEW p \in files[u].prefixes
               PROVE  p.package \in DOMAIN packages \cup gone
    BY <1>1 DEF Complete
  <2>1. p.package \in versioned
    BY <1>1 DEF Loading, Known, FileOK, PrefixOK
  <2> QED
    BY <1>1, <2>1, NothingIn DEF Loading
<1>5. ReadOnlyKept'
  BY <1>1, ReadOnlyInLoad DEF ReadOnlyKept
<1> QED
  BY <1>1, <1>2, <1>3, <1>4, <1>5 DEF WorkspaceInv, Settled, Idle

-----------------------------------------------------------------------------
(* The steps of the editor and of others.                                  *)

(* A file that is written or removed leaves files. *)
LEMMA FilesWith ==
    ASSUME NEW f \in Files, NEW l \in Location, NEW t \in TextsAt(l)
    PROVE  With(f, l, t) \in Files
<1> DEFINE L == DOMAIN f \cup {l}
           g == With(f, l, t)
<1>1. DOMAIN f \in SUBSET Location /\ \A k \in DOMAIN f : f[k] \in TextsAt(k) /\ f[k] \in Text
  BY FilesTyped
<1>2. t \in Text
  BY WorkspaceAssumption
<1>3. L \in SUBSET Location /\ g \in [L -> Text] /\ \A k \in L : g[k] \in TextsAt(k)
  BY <1>1, <1>2 DEF With
<1> QED
  BY <1>3 DEF Files

LEMMA FilesWithout ==
    ASSUME NEW f \in Files, NEW l
    PROVE  Without(f, l) \in Files
<1> DEFINE L == DOMAIN f \ {l}
           g == Without(f, l)
<1>1. DOMAIN f \in SUBSET Location /\ \A k \in DOMAIN f : f[k] \in TextsAt(k) /\ f[k] \in Text
  BY FilesTyped
<1>2. L \in SUBSET Location /\ g \in [L -> Text] /\ \A k \in L : g[k] \in TextsAt(k)
  BY <1>1 DEF Without
<1> QED
  BY <1>2 DEF Files

LEMMA OthersStep ==
    ASSUME WorkspaceInv, Other
    PROVE  WorkspaceInv'
<1>1. /\ WorkspaceTypeOK
      /\ UNCHANGED <<repository, open, editing, shown, packages, files, building, todo, stack,
                     required, versioned, gone, current>>
  BY DEF WorkspaceInv, Other, OtherWrites, OtherWritesManifest, editor, loaded, loading, lookups
<1>2. disk' \in Files /\ reproto' \in Manifest /\ (steady' => steady)
      /\ (steady' /\ ~Idle => disk' = disk)
  <2>1. ASSUME NEW l \in Location, NEW t \in TextsAt(l) \cup {None}, OtherWrites(l, t)
        PROVE  /\ disk' \in Files /\ reproto' = reproto /\ (steady' => steady /\ Idle)
    <3>1. CASE t = None
      BY <1>1, <2>1, <3>1, FilesWithout DEF OtherWrites, WorkspaceTypeOK
    <3>2. CASE t # None
      BY <1>1, <2>1, <3>2, FilesWith DEF OtherWrites, WorkspaceTypeOK
    <3> QED
      BY <3>1, <3>2
  <2>2. ASSUME NEW m \in Manifest, OtherWritesManifest(m)
        PROVE  reproto' = m /\ disk' = disk /\ (steady' => steady)
    BY <2>2 DEF OtherWritesManifest
  <2> QED
    BY <1>1, <2>1, <2>2 DEF Other, WorkspaceTypeOK
<1>3. WorkspaceTypeOK'
  BY <1>1, <1>2 DEF WorkspaceTypeOK
<1>4. CASE ~Idle
  <2>1. Loading
    BY <1>4 DEF WorkspaceInv
  <2>2. /\ \A f : FileOK(f) => FileOK(f)'
        /\ \A p : PrefixOK(p) => PrefixOK(p)'
    BY <1>1, <1>2, <1>4, StillOK
  <2>3. Loading'
    BY <1>1, <1>2, <1>4, <2>1, <2>2, LoadGoesOn DEF Loading, Known
  <2> QED
    BY <1>1, <1>3, <1>4, <2>3 DEF WorkspaceInv, Idle
<1>5. CASE Idle
  <2>1. Settled
    BY <1>5 DEF WorkspaceInv
  <2>2. Settled'
    BY <1>1, <1>2, <1>5, <2>1 DEF Settled, AsYouType, Complete, ReadOnlyKept, Idle
  <2> QED
    BY <1>1, <1>3, <1>5, <2>2 DEF WorkspaceInv, Idle
<1> QED
  BY <1>4, <1>5

(* A message that leads to a load, or to one that is given up. *)
LEMMA ReloadStep ==
    ASSUME WorkspaceInv, Idle, NEW o \in Files, NEW e \in Manifest, NEW d \in Files,
           Reload(o, e, d), open' = o, disk' = d,
           editing' \in Manifest, reproto' \in Manifest, repository' = repository
    PROVE  WorkspaceInv'
<1> DEFINE m == ManifestSeen(e, reproto)
<1>1. WorkspaceTypeOK /\ Settled /\ m \in Manifest
  BY DEF WorkspaceInv, ManifestSeen, WorkspaceTypeOK
<1>2. CASE GivenUp
  <2>1. ~current' /\ UNCHANGED <<packages, files, building, todo, stack, required, versioned,
                                 gone, steady>>
    BY <1>2 DEF GivenUp, loading, lookups
  <2>2. WorkspaceTypeOK'
    BY <1>1, <2>1 DEF WorkspaceTypeOK
  <2>3. Settled'
    BY <1>1, <2>1 DEF Settled, AsYouType, Complete, ReadOnlyKept, Idle
  <2> QED
    BY <2>1, <2>2, <2>3 DEF WorkspaceInv, Idle
<1>3. CASE ~GivenUp
  <2>1. /\ m \in Manifest \ {None} /\ ~Unresolved(m, o, d) /\ todo' \in Sources(m, o, d)
        /\ packages' = <<>> /\ files' = <<>> /\ building' = m /\ stack' = <<>>
        /\ required' = <<>> /\ versioned' = {} /\ ~current'
    BY <1>1, <1>3 DEF Reload
  <2>2. /\ todo' \in Seq(Task)
        /\ \A s \in ToSet(todo') :
              Sound(s, o) /\ (ReadOnly(s.source) => ~Reached(NameOf(s), m, o, d))
    BY <1>1, <2>1, SourcesTell DEF WorkspaceTypeOK
  <2>3. WorkspaceTypeOK'
    BY <1>1, <2>1, <2>2, EmptySeq DEF WorkspaceTypeOK
  <2>4. \A s \in ToSet(todo') : TaskOK(s)'
    BY <2>1, <2>2 DEF TaskOK, Sound, Unreached, Reached
  <2>5. Known' = {}
    BY <2>1, NothingIn DEF Known
  <2>6. Loading'
    BY <2>1, <2>4, <2>5 DEF Loading
  <2> QED
    BY <2>1, <2>3, <2>6 DEF WorkspaceInv, Idle
<1> QED
  BY <1>2, <1>3

LEMMA MessageStep ==
    ASSUME WorkspaceInv, Idle, Message
    PROVE  WorkspaceInv'
<1>1. /\ WorkspaceTypeOK /\ Settled
      /\ open \in Files /\ disk \in Files /\ editing \in Manifest /\ reproto \in Manifest
  BY DEF WorkspaceInv, WorkspaceTypeOK
<1>2. CASE Initialized
  <2>1. Reload(open, editing, disk) /\ UNCHANGED <<open, disk, editing, reproto, repository>>
    BY <1>2 DEF Initialized, world, editor
  <2> QED
    BY <1>1, <2>1, ReloadStep
<1>3. ASSUME NEW l \in Location, DidOpen(l) PROVE WorkspaceInv'
  <2>1. /\ Reload(open', editing, disk) /\ UNCHANGED <<disk, editing, reproto, repository>>
        /\ l \in DOMAIN disk /\ open' = With(open, l, disk[l])
    BY <1>3 DEF DidOpen, world
  <2>2. open' \in Files
    BY <1>1, <2>1, FilesWith, FilesTyped
  <2> QED
    BY <1>1, <2>1, <2>2, ReloadStep
<1>4. ASSUME NEW l \in Location, NEW t \in TextsAt(l), DidChange(l, t) PROVE WorkspaceInv'
  <2>1. /\ Reload(open', editing, disk) /\ UNCHANGED <<disk, editing, reproto, repository>>
        /\ open' = With(open, l, t)
    BY <1>4 DEF DidChange, world
  <2>2. open' \in Files
    BY <1>1, <2>1, FilesWith
  <2> QED
    BY <1>1, <2>1, <2>2, ReloadStep
<1>5. ASSUME NEW l \in Location, DidClose(l) PROVE WorkspaceInv'
  <2>1. /\ Reload(open', editing, disk) /\ UNCHANGED <<disk, editing, reproto, repository>>
        /\ open' = Without(open, l)
    BY <1>5 DEF DidClose, world
  <2>2. open' \in Files
    BY <1>1, <2>1, FilesWithout
  <2> QED
    BY <1>1, <2>1, <2>2, ReloadStep
<1>6. ASSUME NEW l \in Location, DidSave(l) PROVE WorkspaceInv'
  <2>1. /\ Reload(open, editing, disk') /\ UNCHANGED <<open, editing, reproto, repository>>
        /\ l \in DOMAIN open /\ disk' = With(disk, l, open[l])
    BY <1>6 DEF DidSave, editor
  <2>2. disk' \in Files
    BY <1>1, <2>1, FilesWith, FilesTyped
  <2> QED
    BY <1>1, <2>1, <2>2, ReloadStep
<1>7. ASSUME \/ DidOpenManifest
             \/ DidCloseManifest
             \/ \E m \in Manifest : DidChangeManifest(m)
      PROVE  WorkspaceInv'
  <2>1. /\ Reload(open, editing', disk) /\ UNCHANGED <<open, disk, reproto, repository>>
        /\ editing' \in Manifest
    BY <1>1, <1>7, WorkspaceAssumption
       DEF DidOpenManifest, DidCloseManifest, DidChangeManifest, world
  <2> QED
    BY <1>1, <2>1, ReloadStep
<1>8. CASE DidSaveManifest
  <2>1. /\ Reload(open, editing, disk) /\ UNCHANGED <<open, disk, editing, repository>>
        /\ reproto' \in Manifest
    BY <1>1, <1>8 DEF DidSaveManifest, editor
  <2> QED
    BY <1>1, <2>1, ReloadStep
<1>9. ASSUME NEW q \in questions, AnswerError(q) \/ AnswerIgnore(q) \/ AnswerDo(q)
      PROVE  WorkspaceInv'
  <2>1. /\ UNCHANGED <<repository, open, editing, shown, packages, files, building, todo, stack,
                       required, versioned, gone, current, steady>>
    BY <1>9 DEF AnswerError, AnswerIgnore, AnswerDo, Answered, world, editor, loaded, loading,
                lookups
  <2>2. disk' \in Files /\ reproto' \in Manifest
    BY <1>1, <1>9 DEF AnswerError, AnswerIgnore, AnswerDo, Answered, world
  <2>3. WorkspaceTypeOK'
    BY <1>1, <2>1, <2>2 DEF WorkspaceTypeOK
  <2>4. Settled'
    BY <1>1, <2>1 DEF Settled, AsYouType, Complete, ReadOnlyKept, Idle
  <2> QED
    BY <2>1, <2>3, <2>4 DEF WorkspaceInv, Idle
<1> QED
  BY <1>2, <1>3, <1>4, <1>5, <1>6, <1>7, <1>8, <1>9 DEF Message, Edit

(* What initialize() creates it does between two messages, when nothing is   *)
(* being loaded.                                                             *)
LEMMA InitializeStep ==
    ASSUME WorkspaceInv, Idle, Initialize
    PROVE  WorkspaceInv'
<1>1. WorkspaceTypeOK /\ Settled
  BY DEF WorkspaceInv
<1>2. UNCHANGED <<repository, open, editing, shown, packages, files, building, todo, stack,
                  required, versioned, gone, current, steady>>
  BY DEF Initialize, CreateManifest, LookForExample, CreateExample, Creating, editor, loaded,
         loading, lookups
<1>3. disk' \in Files /\ reproto' \in Manifest
  <2>1. With(disk, ExampleAt, Example) \in Files /\ Initial \in Manifest
    BY <1>1, FilesWith, WorkspaceAssumption DEF WorkspaceTypeOK
  <2> QED
    BY <1>1, <2>1 DEF Initialize, CreateManifest, LookForExample, CreateExample, WorkspaceTypeOK
<1>4. WorkspaceTypeOK'
  BY <1>1, <1>2, <1>3 DEF WorkspaceTypeOK
<1>5. Settled'
  BY <1>1, <1>2 DEF Settled, AsYouType, Complete, ReadOnlyKept, Idle
<1> QED
  BY <1>2, <1>4, <1>5 DEF WorkspaceInv, Idle

-----------------------------------------------------------------------------
(* The invariant holds.  Between looking for a file and creating it only     *)
(* others may have put it there.                                             *)
Initializing ==
    /\ initializing # "no" => Idle
    /\ initializing = "manifest" => reproto = None \/ latelyManifest
    /\ initializing = "example" => ExampleAt \notin DOMAIN disk \/ ExampleAt \in lately

LEMMA InitializingSteps == Initializing /\ [Next]_vars => Initializing'
<1> SUFFICES ASSUME Initializing, [Next]_vars PROVE Initializing'
  OBVIOUS
<1>1. CASE Idle /\ initializing = "no" /\ Message
  <2>1. CASE UNCHANGED creation
    BY <1>1, <2>1 DEF creation, Initializing
  <2>2. ASSUME NEW q \in questions, AnswerError(q) \/ AnswerIgnore(q) \/ AnswerDo(q)
        PROVE  Initializing'
    BY <1>1, <2>2 DEF AnswerError, AnswerIgnore, AnswerDo, Answered, LookForManifest, Initializing,
                      Idle, world, loading
  <2> QED
    BY <1>1, <2>1, <2>2 DEF Message, creation
<1>2. CASE Load
  <2>1. ~Idle \/ UNCHANGED building
    BY <1>2 DEF Load, ProcessSource, ProcessRequired, ProcessFile, Loaded
  <2>2. UNCHANGED <<disk, reproto, creation>>
    BY <1>2 DEF Load, ProcessSource, ProcessRequired, ProcessFile, Loaded, world
  <2> QED
    BY <2>1, <2>2 DEF Initializing, Idle, creation
<1>3. CASE Initialize
  BY <1>3 DEF Initialize, CreateManifest, LookForExample, CreateExample, Creating, Created,
              Initializing, Idle, loading
<1>4. CASE Other
  <2>1. UNCHANGED <<building, initializing>>
    BY <1>4 DEF Other, OtherWrites, OtherWritesManifest, loading
  <2>2. ASSUME NEW l \in Location, NEW t \in TextsAt(l) \cup {None}, OtherWrites(l, t)
        PROVE  Initializing'
    BY <2>1, <2>2 DEF OtherWrites, With, Without, Initializing, Idle
  <2>3. ASSUME NEW m \in Manifest, OtherWritesManifest(m) PROVE Initializing'
    BY <2>1, <2>3 DEF OtherWritesManifest, Initializing, Idle
  <2> QED
    BY <1>4, <2>2, <2>3 DEF Other
<1>5. CASE UNCHANGED vars
  BY <1>5 DEF vars, world, loading, creation, Initializing, Idle
<1> QED
  BY <1>1, <1>2, <1>3, <1>4, <1>5 DEF Next

Counted == others \in Nat

LEMMA OthersCounted == Counted /\ [Next]_vars => Counted'
<1> SUFFICES ASSUME others \in Nat, [Next]_vars PROVE others' \in Nat
  BY DEF Counted
<1>1. CASE Message
  <2>1. CASE started /\ Edit
    BY <2>1 DEF Edit, DidOpen, DidClose, DidSave, DidChange, DidOpenManifest, DidCloseManifest,
                DidSaveManifest, DidChangeManifest, world
  <2> QED
    BY <1>1, <2>1 DEF Message, Initialized, AnswerError, AnswerIgnore, AnswerDo, Answered, world
<1>2. CASE Load
  BY <1>2 DEF Load, ProcessSource, ProcessRequired, ProcessFile, Loaded, world
<1>3. CASE Initialize
  BY <1>3 DEF Initialize, CreateManifest, LookForExample, CreateExample, Creating
<1>4. CASE Other
  BY <1>4 DEF Other, OtherWrites, OtherWritesManifest, OneMore
<1>5. CASE UNCHANGED vars
  BY <1>5 DEF vars, world
<1> QED
  BY <1>1, <1>2, <1>3, <1>4, <1>5 DEF Next

LEMMA WorkspaceStarts == Init => WorkspaceInv
<1> SUFFICES ASSUME Init PROVE WorkspaceInv
  OBVIOUS
<1>1. <<>> \in Files
  <2> DEFINE f == <<>>
  <2>1. f \in [{} -> Text] /\ \A l \in {} : f[l] \in TextsAt(l)
    OBVIOUS
  <2> QED
    BY <2>1 DEF Files
<1>2. WorkspaceTypeOK
  BY <1>1, EmptySeq, WorkspaceAssumption DEF Init, WorkspaceTypeOK
<1>3. Idle /\ Settled
  BY DEF Init, Idle, Settled, AsYouType, Complete, ReadOnlyKept
<1> QED
  BY <1>2, <1>3 DEF WorkspaceInv

LEMMA WorkspaceSteps == WorkspaceInv /\ Initializing /\ [Next]_vars => WorkspaceInv'
<1> SUFFICES ASSUME WorkspaceInv, Initializing, [Next]_vars PROVE WorkspaceInv'
  OBVIOUS
<1>1. CASE Next
  BY <1>1, MessageStep, OthersStep, ProcessSourceStep, ProcessRequiredStep, ProcessFileStep,
     LoadedStep, InitializeStep DEF Next, Load, Initializing, Initialize, CreateManifest,
     LookForExample, CreateExample
<1>2. CASE UNCHANGED vars
  <2>1. UNCHANGED <<disk, reproto, repository, open, editing, shown, packages, files, building,
                    todo, stack, required, versioned, gone, current, steady>>
    BY <1>2 DEF vars, world, editor, loaded, loading, lookups
  <2>2. WorkspaceTypeOK' <=> WorkspaceTypeOK
    BY <2>1 DEF WorkspaceTypeOK
  <2>3. Loading' <=> Loading
    BY <2>1 DEF Loading, Known, TaskOK, FileOK, PrefixOK, Sound, AsTyped, Writable, Unreached,
                Reached
  <2>4. Settled' <=> Settled
    BY <2>1 DEF Settled, AsYouType, Complete, ReadOnlyKept, Idle
  <2> QED
    BY <2>1, <2>2, <2>3, <2>4 DEF WorkspaceInv, Idle
<1> QED
  BY <1>1, <1>2

LEMMA WorkspaceHolds == Spec => []WorkspaceInv /\ []Initializing /\ []Counted
<1>1. Init => Initializing /\ Counted
  BY DEF Init, Initializing, Counted
<1> QED
  BY <1>1, WorkspaceStarts, WorkspaceSteps, InitializingSteps, OthersCounted, PTL DEF Spec

-----------------------------------------------------------------------------
(* What is known of an open file, and shown of it, is about the text in the  *)
(* editor, whatever the build paths and the repository hold: no way to reach *)
(* the file passes the editor by (workspace.rs:86, 147 and 240).             *)
THEOREM ShownAsTyped == Spec => []AsYouType
<1>1. WorkspaceInv => AsYouType
  BY DEF WorkspaceInv, Settled, Loading, AsYouType
<1> QED
  BY <1>1, WorkspaceHolds, PTL

(* After a load every prefix leads to a file that was loaded, with any       *)
(* number of imports, cycles among them, in any order, and after one that is *)
(* given up too (workspace.rs:253 and 371).                                  *)
THEOREM LoadsWhole == Spec => []Complete
<1>1. WorkspaceInv => Complete
  BY DEF WorkspaceInv, Settled, Complete
<1> QED
  BY <1>1, WorkspaceHolds, PTL

(* What comes out of a repository is read-only for all that refers to it,    *)
(* whichever of its ranges led there first, unless files changed during the  *)
(* load (workspace.rs:371 and 432).                                          *)
THEOREM StaysReadOnly == Spec => []ReadOnlyKept
<1>1. WorkspaceInv => ReadOnlyKept
  BY ReadOnlyInLoad DEF WorkspaceInv, Settled
<1> QED
  BY <1>1, WorkspaceHolds, PTL

(* An answer that comes late overwrites nothing that was created meanwhile   *)
(* (lib.rs:638), but for what others create between a check of initialize()  *)
(* and the creation that follows it (initialize.rs:30 and 70).               *)
THEOREM OverwritesNothing == Spec => AnswersOverwriteNothing
<1> DEFINE Kept == /\ reproto \in {None, reproto'} \/ latelyManifest
                   /\ \A l \in DOMAIN disk \ lately : l \in DOMAIN disk' /\ disk'[l] = disk[l]
<1>1. ASSUME WorkspaceInv, Initializing, Counted, Next, initializing # "no",
             UNCHANGED others
      PROVE  Kept
  <2>1. CASE Load
    BY <2>1 DEF Load, ProcessSource, ProcessRequired, ProcessFile, Loaded, world
  <2>2. CASE Initialize
    BY <1>1, <2>2 DEF Initialize, CreateManifest, LookForExample, CreateExample, Initializing, With
  <2>3. CASE Other
    BY <1>1, <2>3 DEF Counted, Other, OtherWrites, OtherWritesManifest, OneMore
  <2> QED
    BY <1>1, <2>1, <2>2, <2>3 DEF Next
<1>2. WorkspaceInv /\ Initializing /\ Counted /\ [Next]_vars
         => [initializing # "no" /\ UNCHANGED others => Kept]_vars
  BY <1>1
<1> QED
  BY <1>2, WorkspaceHolds, PTL DEF Spec, AnswersOverwriteNothing

(* A requirement that any of the sources can satisfy is resolved, whatever   *)
(* the others hold (resolvers.rs:19, packages.rs:20, paths.rs:57,            *)
(* repository.rs:71): the choice of a path, a version and a source leaves    *)
(* something to choose from.                                                 *)
THEOREM FoundIfAnywhere ==
    ASSUME NEW O \in SUBSET Location, NEW D \in SUBSET Location,
           NEW R \in SUBSET Object, IsFiniteSet(R),
           NEW published \in [Package -> AnyVersion], NEW u \in Required
    PROVE  Resolve(O, D, published, R, u) # {} <=>
              \/ \E l \in O : l.package = u.package /\ l.version \in u.range
              \/ \E l \in D : l.package = u.package /\ PublishedAs(published, l) \in u.range
              \/ \E x \in R : x.package = u.package /\ x.version \in u.range
<1>1. FromOpen(O, u.package, u.range) # {} <=>
         \E l \in O : l.package = u.package /\ l.version \in u.range
  <2>1. ASSUME NEW r \in FromOpen(O, u.package, u.range)
        PROVE  \E l \in O : l.package = u.package /\ l.version \in u.range
    BY DEF FromOpen, Newest, Named
  <2>2. ASSUME NEW l \in O, l.package = u.package, l.version \in u.range
        PROVE  FromOpen(O, u.package, u.range) # {}
    BY <2>2, FromOpenFinds
  <2> QED
    BY <2>1, <2>2
<1>2. FromPaths(D, published, u.package, u.range) # {} <=>
         \E l \in D : l.package = u.package /\ PublishedAs(published, l) \in u.range
  <2>1. ASSUME NEW r \in FromPaths(D, published, u.package, u.range)
        PROVE  \E l \in D : l.package = u.package /\ PublishedAs(published, l) \in u.range
    BY DEF FromPaths, Newest
  <2>2. ASSUME NEW l \in D, l.package = u.package, PublishedAs(published, l) \in u.range
        PROVE  FromPaths(D, published, u.package, u.range) # {}
    BY <2>2, FromPathsFinds
  <2> QED
    BY <2>1, <2>2
<1>3. FromRepository(R, u.package, u.range) # {} <=>
         \E x \in R : x.package = u.package /\ x.version \in u.range
  <2> DEFINE T == {x \in R : x.package = u.package /\ x.version \in u.range}
             f == [x \in T |-> x.version]
  <2>1. ASSUME NEW r \in FromRepository(R, u.package, u.range)
        PROVE  T # {}
    BY DEF FromRepository, Newest
  <2>2. ASSUME T # {} PROVE FromRepository(R, u.package, u.range) # {}
    <3>1. IsFiniteSet(T)
      BY FS_Subset
    <3>2. \A x \in T : f[x] \in Int
      BY NumbersAreNat DEF Object, AnyVersion
    <3>3. PICK m \in T : \A x \in T : f[x] <= f[m]
      <4> HIDE DEF T, f
      <4> QED
        BY <2>2, <3>1, <3>2, Greatest
    <3>4. \A x \in T : x.version <= m.version
      BY <3>3
    <3>5. \A x \in T : Resolved(x.version, "repository", x).version = x.version
      BY DEF Resolved
    <3>6. Resolved(m.version, "repository", m)
             \in Newest({Resolved(x.version, "repository", x) : x \in T})
      <4> HIDE DEF T
      <4> QED
        BY <3>4, <3>5 DEF Newest
    <3> QED
      BY <3>6 DEF FromRepository
  <2> QED
    BY <2>1, <2>2
<1> QED
  BY <1>1, <1>2, <1>3 DEF Resolve
=============================================================================
