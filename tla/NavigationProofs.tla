------------------------- MODULE NavigationProofs -------------------------
(***************************************************************************)
(* Proofs about what the language server answers about names: a rename, a  *)
(* definition, the references of a name and a completion agree with what   *)
(* the compiler makes of it, for any project that the compiler accepts,    *)
(* of any number of files and declarations, with any nesting and after any *)
(* number of renames.                                                      *)
(***************************************************************************)
EXTENDS Navigation, FiniteSetTheorems, SequenceTheorems, TLAPS

(* What holds of the least counterexample holds of all.                      *)
LEMMA Least ==
    ASSUME NEW S, S \subseteq Nat, S # {}
    PROVE  \E n \in S : \A m \in S : n <= m
<1>1. PICK n \in S : \A m \in S : <<m, n>> \notin OpToRel(<, Nat)
  BY NatLessThanWellFounded, WFMin
<1>2. \A m \in S : ~(m < n)
  BY <1>1 DEF OpToRel
<1> QED
  BY <1>2

(* What files are made of. *)
LEMMA FileParts ==
    ASSUME NEW t, WellNamed(t)
    PROVE  /\ t.decls \in Seq(WrittenDecl) /\ Len(t.decls) \in Nat /\ DOMAIN t.decls = 1 .. Len(t.decls)
           /\ t.uses \in Seq(WrittenUse) /\ Len(t.uses) \in Nat /\ DOMAIN t.uses = 1 .. Len(t.uses)
           /\ t.package \in STRING /\ t.parses \in BOOLEAN /\ t.readOnly \in BOOLEAN
           /\ \A d \in DOMAIN t.decls :
                 /\ t.decls[d] \in WrittenDecl
                 /\ t.decls[d].name \in STRING
                 /\ t.decls[d].parent \in 0 .. Len(t.decls) /\ t.decls[d].parent < d
                 /\ t.decls[d].refs \in Seq(WrittenRef)
<1>1. t \in WrittenFile /\ \A d \in DOMAIN t.decls : t.decls[d].parent < d
  BY DEF WellNamed
<1>2. /\ t.decls \in Seq(WrittenDecl) /\ t.uses \in Seq(WrittenUse)
      /\ t.package \in STRING /\ t.parses \in BOOLEAN /\ t.readOnly \in BOOLEAN
  BY <1>1 DEF WrittenFile
<1>3. /\ Len(t.decls) \in Nat /\ DOMAIN t.decls = 1 .. Len(t.decls)
      /\ Len(t.uses) \in Nat /\ DOMAIN t.uses = 1 .. Len(t.uses)
  BY <1>2
<1>4. ASSUME NEW d \in DOMAIN t.decls
      PROVE  /\ t.decls[d] \in WrittenDecl
             /\ t.decls[d].name \in STRING
             /\ t.decls[d].parent \in 0 .. Len(t.decls) /\ t.decls[d].parent < d
             /\ t.decls[d].refs \in Seq(WrittenRef)
  <2>1. t.decls[d] \in WrittenDecl
    BY <1>2
  <2>2. t.decls[d].name \in STRING /\ t.decls[d].parent \in Nat /\ t.decls[d].refs \in Seq(WrittenRef)
    BY <2>1 DEF WrittenDecl
  <2>3. t.decls[d].parent < d /\ d \in 1 .. Len(t.decls)
    BY <1>1, <1>3
  <2> QED
    BY <1>3, <2>1, <2>2, <2>3
<1> QED
  BY <1>2, <1>3, <1>4

LEMMA AtMostOne ==
    ASSUME NEW S, NEW s \in Seq(S), s # <<>>, Len(s) <= 1
    PROVE  s = <<s[1]>> /\ s[1] \in S
<1>1. Len(s) \in Nat \ {0}
  BY EmptySeq
<1>2. Len(s) = 1
  BY <1>1
<1> QED
  BY <1>2

LEMMA RefParts ==
    ASSUME NEW t, WellNamed(t), NEW d \in DOMAIN t.decls, NEW r \in DOMAIN t.decls[d].refs
    PROVE  LET ref == t.decls[d].refs[r]
           IN  /\ ref \in WrittenRef /\ ref.relative \in BOOLEAN
               /\ ref.path \in Seq(STRING) /\ Len(ref.path) \in Nat \ {0}
               /\ DOMAIN ref.path = 1 .. Len(ref.path)
               /\ ref.prefix \in Seq(STRING)
               /\ ref.prefix # <<>> => ref.prefix = <<ref.prefix[1]>> /\ ref.prefix[1] \in STRING
               /\ ref.relative => ref.prefix = <<>>
<1> DEFINE ref == t.decls[d].refs[r]
<1>1. ref \in WrittenRef
  BY FileParts
<1>2. RefParses(ref)
  BY DEF WellNamed
<1>3. ref.path \in Seq(STRING) /\ ref.prefix \in Seq(STRING) /\ ref.relative \in BOOLEAN
  BY <1>1 DEF WrittenRef
<1>4. Len(ref.path) \in Nat \ {0} /\ DOMAIN ref.path = 1 .. Len(ref.path)
  BY <1>2, <1>3 DEF RefParses
<1>5. ASSUME ref.prefix # <<>> PROVE ref.prefix = <<ref.prefix[1]>> /\ ref.prefix[1] \in STRING
  BY <1>2, <1>3, <1>5, AtMostOne DEF RefParses
<1> QED
  BY <1>1, <1>2, <1>3, <1>4, <1>5 DEF RefParses

(* A reference as a lemma can give it: its name is not empty.                *)
NamedByPath(ref) ==
    /\ ref \in WrittenRef /\ ref.path \in Seq(STRING) /\ Len(ref.path) \in Nat \ {0}
    /\ DOMAIN ref.path = 1 .. Len(ref.path)

LEMMA RefNamed ==
    ASSUME NEW t, WellNamed(t), NEW d \in DOMAIN t.decls, NEW r \in DOMAIN t.decls[d].refs
    PROVE  NamedByPath(t.decls[d].refs[r])
BY RefParts DEF NamedByPath

(* The paths of declarations, and what is processed, are what their equations *)
(* say.                                                                      *)
LEMMA PathsFor ==
    ASSUME NEW t, WellNamed(t)
    PROVE  \E f : f = [d \in 0 .. Len(t.decls) |->
                          IF d = 0 THEN <<>> ELSE Append(f[t.decls[d].parent], t.decls[d].name)]
<1> DEFINE P(f, n) == f = [d \in 0 .. n |->
                             IF d = 0 THEN <<>> ELSE Append(f[t.decls[d].parent], t.decls[d].name)]
           Bad == {n \in 0 .. Len(t.decls) : ~\E f : P(f, n)}
<1>1. SUFFICES ASSUME Bad # {} PROVE FALSE
  BY FileParts
<1>2. PICK n \in Bad : \A m \in Bad : n <= m
  <2> Bad \subseteq Nat
    OBVIOUS
  <2> HIDE DEF Bad
  <2> QED
    BY <1>1, Least
<1>3. CASE n = 0
  <2> DEFINE f == [d \in 0 .. 0 |-> <<>>]
  <2>1. P(f, 0)
    OBVIOUS
  <2> QED
    BY <1>2, <1>3, <2>1
<1>4. CASE n # 0
  <2>1. n \in 0 .. Len(t.decls) /\ n - 1 \in 0 .. Len(t.decls) /\ ~(n <= n - 1) /\ n \in Nat
    BY <1>4, FileParts
  <2> n - 1 \notin Bad
    <3> HIDE DEF Bad
    <3> QED
      BY <1>2, <2>1
  <2>2. PICK f : P(f, n - 1)
    BY <2>1
  <2>6. \A d \in 0 .. n - 1 : f[d] = IF d = 0 THEN <<>> ELSE Append(f[t.decls[d].parent], t.decls[d].name)
    <3> HIDE DEF Bad
    <3> QED
      BY <2>2
  <2> HIDE DEF Bad, P
  <2> DEFINE g == [d \in 0 .. n |-> IF d < n THEN f[d]
                                    ELSE Append(f[t.decls[n].parent], t.decls[n].name)]
  <2>3. \A d \in 1 .. n : t.decls[d].parent \in 0 .. n - 1 /\ t.decls[d].parent < d
    BY <2>1, FileParts
  <2>4. ASSUME NEW d \in 0 .. n
        PROVE  g[d] = IF d = 0 THEN <<>> ELSE Append(g[t.decls[d].parent], t.decls[d].name)
    <3>1. CASE d = 0
      BY <2>1, <2>6, <3>1
    <3>2. CASE d # 0
      <4>1. d \in 1 .. n /\ t.decls[d].parent \in 0 .. n - 1
        BY <2>1, <2>3, <3>2
      <4>2. g[t.decls[d].parent] = f[t.decls[d].parent]
        BY <2>1, <4>1
      <4>3. d < n => f[d] = Append(f[t.decls[d].parent], t.decls[d].name)
        <5> d < n => d \in 0 .. n - 1
          BY <2>1
        <5> QED
          BY <2>6, <3>2
      <4>4. d = n \/ d < n
        BY <2>1
      <4> QED
        BY <3>2, <4>1, <4>2, <4>3, <4>4
    <3> QED
      BY <3>1, <3>2
  <2>5. P(g, n)
    BY <2>4 DEF P
  <2> QED
    BY <2>5 DEF Bad
<1> QED
  BY <1>3, <1>4

LEMMA PathsAre ==
    ASSUME NEW t, WellNamed(t)
    PROVE  /\ PathsOf(t)[0] = <<>>
           /\ \A d \in DOMAIN t.decls : PathsOf(t)[d] = Append(PathsOf(t)[t.decls[d].parent], t.decls[d].name)
<1> DEFINE Q == CHOOSE f : f = [d \in 0 .. Len(t.decls) |->
                          IF d = 0 THEN <<>> ELSE Append(f[t.decls[d].parent], t.decls[d].name)]
<1>1. PathsOf(t) = Q
  BY DEF PathsOf
<1>2. Q = [d \in 0 .. Len(t.decls) |->
                          IF d = 0 THEN <<>> ELSE Append(Q[t.decls[d].parent], t.decls[d].name)]
  BY PathsFor
<1> HIDE DEF Q
<1>3. Len(t.decls) \in Nat /\ DOMAIN t.decls = 1 .. Len(t.decls)
  BY FileParts
<1>4. Q[0] = <<>>
  BY <1>2, <1>3
<1>5. ASSUME NEW d \in DOMAIN t.decls PROVE Q[d] = Append(Q[t.decls[d].parent], t.decls[d].name)
  <2> d \in 0 .. Len(t.decls) /\ d # 0
    BY <1>3
  <2> QED
    BY <1>2
<1> QED
  BY <1>1, <1>4, <1>5

LEMMA LongerIsNotEmpty ==
    ASSUME NEW S, NEW s \in Seq(S), NEW x \in S
    PROVE  Append(s, x) # <<>>
<1>1. Append(s, x) \in Seq(S) /\ Len(Append(s, x)) = Len(s) + 1 /\ Len(s) \in Nat
  OBVIOUS
<1>2. Len(<<>>) = 0
  OBVIOUS
<1> QED
  BY <1>1, <1>2

LEMMA PathsTyped ==
    ASSUME NEW t, WellNamed(t)
    PROVE  \A d \in 0 .. Len(t.decls) :
               PathsOf(t)[d] \in Seq(STRING) /\ (d # 0 => PathsOf(t)[d] # <<>>)
<1> DEFINE Bad == {d \in 0 .. Len(t.decls) : PathsOf(t)[d] \notin Seq(STRING)}
<1>1. Bad = {}
  <2>1. SUFFICES ASSUME Bad # {} PROVE FALSE
    OBVIOUS
  <2>2. PICK d \in Bad : \A e \in Bad : d <= e
    <3> Bad \subseteq Nat
      OBVIOUS
    <3> HIDE DEF Bad
    <3> QED
      BY <2>1, Least
  <2>3. d # 0
    <3> <<>> \in Seq(STRING)
      OBVIOUS
    <3> QED
      BY <2>2, PathsAre
  <2>4. d \in DOMAIN t.decls /\ t.decls[d].parent \in 0 .. Len(t.decls) /\ t.decls[d].parent < d
    BY <2>3, FileParts
  <2>5. t.decls[d].parent \notin Bad
    <3> d \in Nat
      OBVIOUS
    <3> HIDE DEF Bad
    <3> QED
      BY <2>2, <2>4
  <2>6. PathsOf(t)[d] = Append(PathsOf(t)[t.decls[d].parent], t.decls[d].name)
    BY <2>4, PathsAre
  <2>7. PathsOf(t)[t.decls[d].parent] \in Seq(STRING) /\ t.decls[d].name \in STRING
    BY <2>4, <2>5, FileParts
  <2>8. PathsOf(t)[d] \in Seq(STRING)
    BY <2>6, <2>7
  <2> QED
    BY <2>2, <2>8
<1>2. ASSUME NEW d \in 0 .. Len(t.decls), d # 0 PROVE PathsOf(t)[d] # <<>>
  <2>1. d \in DOMAIN t.decls /\ t.decls[d].parent \in 0 .. Len(t.decls)
    BY <1>2, FileParts
  <2>2. PathsOf(t)[d] = Append(PathsOf(t)[t.decls[d].parent], t.decls[d].name)
    BY <2>1, PathsAre
  <2>3. PathsOf(t)[t.decls[d].parent] \in Seq(STRING) /\ t.decls[d].name \in STRING
    BY <1>1, <2>1, FileParts
  <2>4. Append(PathsOf(t)[t.decls[d].parent], t.decls[d].name) # <<>>
    BY <2>3, LongerIsNotEmpty
  <2> QED
    BY <2>2, <2>4
<1> QED
  BY <1>1, <1>2

LEMMA Appended ==
    ASSUME NEW S, NEW a \in Seq(S), NEW b \in Seq(S), NEW x \in S, NEW y \in S, Append(a, x) = Append(b, y)
    PROVE  a = b /\ x = y
<1>1. Len(a) = Len(b) /\ \A i \in 1 .. Len(a) : a[i] = Append(a, x)[i] /\ b[i] = Append(b, y)[i]
  OBVIOUS
<1>2. x = Append(a, x)[Len(a) + 1] /\ y = Append(b, y)[Len(b) + 1]
  OBVIOUS
<1> QED
  BY <1>1, <1>2

KeptOf(t) ==
    CHOOSE f : f = [d \in 0 .. Len(t.decls) |->
                       d = 0 \/ (t.decls[d].kind # "subtype" /\ f[t.decls[d].parent])]

LEMMA KeptFor ==
    ASSUME NEW t, WellNamed(t)
    PROVE  \E f : f = [d \in 0 .. Len(t.decls) |->
                          d = 0 \/ (t.decls[d].kind # "subtype" /\ f[t.decls[d].parent])]
<1> DEFINE P(f, n) == f = [d \in 0 .. n |-> d = 0 \/ (t.decls[d].kind # "subtype" /\ f[t.decls[d].parent])]
           Bad == {n \in 0 .. Len(t.decls) : ~\E f : P(f, n)}
<1>1. SUFFICES ASSUME Bad # {} PROVE FALSE
  BY FileParts
<1>2. PICK n \in Bad : \A m \in Bad : n <= m
  <2> Bad \subseteq Nat
    OBVIOUS
  <2> HIDE DEF Bad
  <2> QED
    BY <1>1, Least
<1>3. CASE n = 0
  <2> DEFINE f == [d \in 0 .. 0 |-> TRUE]
  <2>3. ASSUME NEW d \in 0 .. 0
        PROVE  TRUE = (d = 0 \/ (t.decls[d].kind # "subtype" /\ f[t.decls[d].parent]))
    <3> d = 0
      OBVIOUS
    <3> QED
      BY Zenon
  <2>1. P(f, 0)
    BY <2>3, Zenon
  <2> QED
    BY <1>2, <1>3, <2>1
<1>4. CASE n # 0
  <2>1. n \in 0 .. Len(t.decls) /\ n - 1 \in 0 .. Len(t.decls) /\ ~(n <= n - 1) /\ n \in Nat
    BY <1>4, FileParts
  <2> n - 1 \notin Bad
    <3> HIDE DEF Bad
    <3> QED
      BY <1>2, <2>1
  <2>2. PICK f : P(f, n - 1)
    BY <2>1
  <2>6. \A d \in 0 .. n - 1 : f[d] = (d = 0 \/ (t.decls[d].kind # "subtype" /\ f[t.decls[d].parent]))
    <3> HIDE DEF Bad
    <3> QED
      BY <2>2
  <2> DEFINE g == [d \in 0 .. n |-> IF d < n THEN f[d]
                                    ELSE t.decls[n].kind # "subtype" /\ f[t.decls[n].parent]]
  <2>3. \A d \in 1 .. n : t.decls[d].parent \in 0 .. n - 1 /\ t.decls[d].parent < d
    BY <2>1, FileParts
  <2>4. ASSUME NEW d \in 0 .. n
        PROVE  g[d] = (d = 0 \/ (t.decls[d].kind # "subtype" /\ g[t.decls[d].parent]))
    <3>1. CASE d = 0
      BY <2>1, <2>6, <3>1
    <3>2. CASE d # 0
      <4>1. d \in 1 .. n /\ t.decls[d].parent \in 0 .. n - 1
        BY <2>1, <2>3, <3>2
      <4>2. g[t.decls[d].parent] = f[t.decls[d].parent]
        BY <2>1, <4>1
      <4>3. d < n => f[d] = (t.decls[d].kind # "subtype" /\ f[t.decls[d].parent])
        <5> d < n => d \in 0 .. n - 1
          BY <2>1
        <5> QED
          BY <2>6, <3>2
      <4>4. d = n \/ d < n
        BY <2>1
      <4> QED
        BY <3>2, <4>1, <4>2, <4>3, <4>4
    <3> QED
      BY <3>1, <3>2
  <2>5. P(g, n)
    BY <2>4
  <2> QED
    BY <1>2, <2>5
<1> QED
  BY <1>3, <1>4

LEMMA ProcessedIs ==
    ASSUME NEW t, WellNamed(t)
    PROVE  /\ Processed(t) = IF t.parses THEN {d \in DOMAIN t.decls : KeptOf(t)[d]} ELSE {}
           /\ KeptOf(t)[0] = TRUE
           /\ \A d \in DOMAIN t.decls :
                 KeptOf(t)[d] <=> (t.decls[d].kind # "subtype" /\ KeptOf(t)[t.decls[d].parent])
           /\ Processed(t) \subseteq DOMAIN t.decls
<1>1. Processed(t) = IF t.parses THEN {d \in DOMAIN t.decls : KeptOf(t)[d]} ELSE {}
  BY DEF Processed, KeptOf
<1>2. KeptOf(t) = [d \in 0 .. Len(t.decls) |->
                       d = 0 \/ (t.decls[d].kind # "subtype" /\ KeptOf(t)[t.decls[d].parent])]
  BY KeptFor DEF KeptOf
<1>3. Len(t.decls) \in Nat /\ DOMAIN t.decls = 1 .. Len(t.decls)
  BY FileParts
<1>4. KeptOf(t)[0] = TRUE
  BY <1>2, <1>3
<1>5. ASSUME NEW d \in DOMAIN t.decls
      PROVE  KeptOf(t)[d] <=> (t.decls[d].kind # "subtype" /\ KeptOf(t)[t.decls[d].parent])
  <2> d \in 0 .. Len(t.decls) /\ d # 0
    BY <1>3
  <2> QED
    BY <1>2
<1>6. Processed(t) \subseteq DOMAIN t.decls
  BY <1>1
<1> QED
  BY <1>1, <1>4, <1>5, <1>6

(* What is processed is a matter of kinds and parents.                       *)
LEMMA ProcessedAlike ==
    ASSUME NEW t, NEW u, WellNamed(t), WellNamed(u),
           u.parses = t.parses, Len(u.decls) = Len(t.decls),
           \A d \in DOMAIN t.decls : u.decls[d].kind = t.decls[d].kind /\ u.decls[d].parent = t.decls[d].parent
    PROVE  Processed(u) = Processed(t)
<1> DEFINE Bad == {d \in 0 .. Len(t.decls) : ~(KeptOf(u)[d] <=> KeptOf(t)[d])}
<1>1. Bad = {}
  <2>1. SUFFICES ASSUME Bad # {} PROVE FALSE
    OBVIOUS
  <2>2. PICK d \in Bad : \A e \in Bad : d <= e
    <3> Bad \subseteq Nat
      OBVIOUS
    <3> HIDE DEF Bad
    <3> QED
      BY <2>1, Least
  <2>3. d # 0
    BY <2>2, ProcessedIs
  <2>4. d \in DOMAIN t.decls /\ d \in DOMAIN u.decls
        /\ t.decls[d].parent \in 0 .. Len(t.decls) /\ t.decls[d].parent < d
    BY <2>3, FileParts
  <2>5. t.decls[d].parent \notin Bad
    <3> d \in Nat
      OBVIOUS
    <3> HIDE DEF Bad
    <3> QED
      BY <2>2, <2>4
  <2>6. KeptOf(u)[t.decls[d].parent] <=> KeptOf(t)[t.decls[d].parent]
    BY <2>4, <2>5
  <2>7. KeptOf(u)[d] <=> KeptOf(t)[d]
    <3>1. KeptOf(t)[d] <=> (t.decls[d].kind # "subtype" /\ KeptOf(t)[t.decls[d].parent])
      BY <2>4, ProcessedIs
    <3>2. KeptOf(u)[d] <=> (u.decls[d].kind # "subtype" /\ KeptOf(u)[u.decls[d].parent])
      BY <2>4, ProcessedIs
    <3>3. u.decls[d].kind = t.decls[d].kind /\ u.decls[d].parent = t.decls[d].parent
      BY <2>4
    <3> QED
      BY <2>6, <3>1, <3>2, <3>3
  <2> QED
    BY <2>2, <2>7
<1>2. \A d \in DOMAIN t.decls : KeptOf(u)[d] <=> KeptOf(t)[d]
  BY <1>1, FileParts
<1>3. DOMAIN u.decls = DOMAIN t.decls
  BY FileParts
<1>4. Processed(t) = IF t.parses THEN {d \in DOMAIN t.decls : KeptOf(t)[d]} ELSE {}
  BY ProcessedIs
<1>5. Processed(u) = IF u.parses THEN {d \in DOMAIN u.decls : KeptOf(u)[d]} ELSE {}
  BY ProcessedIs
<1> QED
  BY <1>2, <1>3, <1>4, <1>5

(* Declarations are told apart by their paths.                               *)
LEMMA PathsDiffer ==
    ASSUME NEW t, WellNamed(t), NEW d \in DOMAIN t.decls, NEW e \in DOMAIN t.decls,
           PathsOf(t)[d] = PathsOf(t)[e]
    PROVE  d = e
<1> DEFINE Bad == {x \in 0 .. Len(t.decls) :
                      \E y \in 0 .. Len(t.decls) : y # x /\ PathsOf(t)[x] = PathsOf(t)[y]}
<1>1. Bad = {}
  <2>1. SUFFICES ASSUME Bad # {} PROVE FALSE
    OBVIOUS
  <2>2. PICK x \in Bad : \A y \in Bad : x <= y
    <3> Bad \subseteq Nat
      OBVIOUS
    <3> HIDE DEF Bad
    <3> QED
      BY <2>1, Least
  <2>3. PICK y \in 0 .. Len(t.decls) : y # x /\ PathsOf(t)[x] = PathsOf(t)[y]
    BY <2>2
  <2>4. x \in 0 .. Len(t.decls)
    BY <2>2
  <2>5. x # 0 /\ y # 0
    BY <2>3, <2>4, PathsAre, PathsTyped
  <2>6. /\ x \in DOMAIN t.decls /\ t.decls[x].parent \in 0 .. Len(t.decls) /\ t.decls[x].parent < x
        /\ y \in DOMAIN t.decls /\ t.decls[y].parent \in 0 .. Len(t.decls)
        /\ t.decls[x].name \in STRING /\ t.decls[y].name \in STRING
    BY <2>3, <2>4, <2>5, FileParts
  <2>7. /\ PathsOf(t)[t.decls[x].parent] \in Seq(STRING)
        /\ PathsOf(t)[t.decls[y].parent] \in Seq(STRING)
    BY <2>6, PathsTyped
  <2>8. Append(PathsOf(t)[t.decls[x].parent], t.decls[x].name) = Append(PathsOf(t)[t.decls[y].parent], t.decls[y].name)
    BY <2>3, <2>6, PathsAre
  <2>9. PathsOf(t)[t.decls[x].parent] = PathsOf(t)[t.decls[y].parent] /\ t.decls[x].name = t.decls[y].name
    <3> DEFINE a == PathsOf(t)[t.decls[x].parent]
               b == PathsOf(t)[t.decls[y].parent]
               v == t.decls[x].name
               w == t.decls[y].name
    <3>1. a \in Seq(STRING) /\ b \in Seq(STRING) /\ v \in STRING /\ w \in STRING /\ Append(a, v) = Append(b, w)
      BY <2>6, <2>7, <2>8
    <3> HIDE DEF a, b, v, w
    <3>2. a = b /\ v = w
      BY <3>1, Appended
    <3> QED
      BY <3>2 DEF a, b, v, w
  <2>10. t.decls[x].parent \notin Bad
    <3> x \in Nat
      BY <2>4
    <3> HIDE DEF Bad
    <3> QED
      BY <2>2, <2>6
  <2>11. t.decls[x].parent = t.decls[y].parent
    BY <2>6, <2>9, <2>10
  <2> QED
    BY <2>3, <2>6, <2>9, <2>11 DEF WellNamed, NamedOnce
<1>2. d \in 0 .. Len(t.decls) /\ e \in 0 .. Len(t.decls)
  BY FileParts
<1> QED
  BY <1>1, <1>2

-----------------------------------------------------------------------------
(* Packages, prefixes and paths of references.                               *)
LEMMA FilesFound ==
    ASSUME NEW T, ProjectFiles(T)
    PROVE  /\ \A q \in PackagesOf(T) : FileOf(T, q) \in DOMAIN T /\ T[FileOf(T, q)].package = q
           /\ \A f \in DOMAIN T : T[f].package \in PackagesOf(T) /\ FileOf(T, T[f].package) = f
<1>1. ASSUME NEW q \in PackagesOf(T) PROVE FileOf(T, q) \in DOMAIN T /\ T[FileOf(T, q)].package = q
  <2>1. \E f \in DOMAIN T : T[f].package = q
    BY DEF PackagesOf
  <2> QED
    BY <2>1 DEF FileOf
<1>2. \A f \in DOMAIN T : T[f].package \in PackagesOf(T)
  BY DEF PackagesOf
<1> QED
  BY <1>1, <1>2 DEF ProjectFiles

LEMMA PrefixLeads ==
    ASSUME NEW T, NEW t, WellNamed(t), NEW p
    PROVE  /\ LookupPrefix(T, t, p) =
                  {t.uses[i].package : i \in {i \in DOMAIN t.uses : UsePrefix(t.uses[i]) = p
                                                                  /\ t.uses[i].package \in PackagesOf(T)}}
           /\ t.parses => PrefixOf(T, t, p) = LookupPrefix(T, t, p)
<1> DEFINE some == {i \in DOMAIN t.uses : UsePrefix(t.uses[i]) = p /\ t.uses[i].package \in PackagesOf(T)}
<1>1. \A i, j \in some : i = j
  BY DEF WellNamed, NamedOnce
<1>2. some \subseteq Nat
  BY FileParts
<1>3. LookupPrefix(T, t, p) = IF some = {} THEN {} ELSE {t.uses[Min(some)].package}
  BY DEF LookupPrefix
<1>4. t.parses => PrefixOf(T, t, p) = IF some = {} THEN {} ELSE {t.uses[Max(some)].package}
  BY DEF PrefixOf
<1> HIDE DEF some
<1>5. ASSUME NEW i \in some
      PROVE  some = {i} /\ Min(some) = i /\ Max(some) = i
  <2>1. some = {i} /\ i \in Nat
    BY <1>1, <1>2
  <2>2. \A x \in some : x >= i /\ i >= x
    BY <2>1
  <2> QED
    BY <2>1, <2>2 DEF Min, Max
<1>6. LookupPrefix(T, t, p) = {t.uses[i].package : i \in some}
  BY <1>3, <1>5
<1>7. t.parses => PrefixOf(T, t, p) = LookupPrefix(T, t, p)
  BY <1>3, <1>4, <1>5
<1> QED
  BY <1>6, <1>7 DEF some

LEMMA PackageLeads ==
    ASSUME NEW T, NEW f \in DOMAIN T, ProjectFiles(T), NEW ref
    PROVE  /\ T[f].parses => PackageOf(T, T[f], ref) = NamePackage(T, T[f], ref)
           /\ NamePackage(T, T[f], ref) \subseteq PackagesOf(T)
           /\ \A q, r \in NamePackage(T, T[f], ref) : q = r
<1>1. WellNamed(T[f])
  BY DEF ProjectFiles
<1>2. \A p : LookupPrefix(T, T[f], p) \subseteq PackagesOf(T)
  BY <1>1, PrefixLeads
<1>3. ASSUME NEW p, NEW q \in LookupPrefix(T, T[f], p), NEW r \in LookupPrefix(T, T[f], p) PROVE q = r
  <2> DEFINE u == T[f].uses
             some == {i \in DOMAIN u : UsePrefix(u[i]) = p /\ u[i].package \in PackagesOf(T)}
  <2>4. LookupPrefix(T, T[f], p) = {u[i].package : i \in some}
    BY <1>1, PrefixLeads
  <2>1. PICK i \in some : q = u[i].package
    BY <2>4
  <2>2. PICK j \in some : r = u[j].package
    BY <2>4
  <2>3. i = j
    BY <1>1, <2>1, <2>2 DEF WellNamed, NamedOnce
  <2> QED
    BY <2>1, <2>2, <2>3
<1>4. T[f].package \in PackagesOf(T)
  BY FilesFound
<1>5. T[f].parses => \A p : PrefixOf(T, T[f], p) = LookupPrefix(T, T[f], p)
  BY <1>1, PrefixLeads
<1> QED
  BY <1>2, <1>3, <1>4, <1>5 DEF PackageOf, NamePackage

-----------------------------------------------------------------------------
(* What a rename of k makes of a path: of what is k, or below it, the name   *)
(* where k ends.                                                             *)
Below(k, x) == Len(k) <= Len(x) /\ \A i \in 1 .. Len(k) : x[i] = k[i]
Renewed(k, new, x) == [i \in 1 .. Len(x) |-> IF i = Len(k) /\ Below(k, x) THEN new ELSE x[i]]

RenewedLast(k, new, a, v, w) == Append(Renewed(k, new, a), w) = Renewed(k, new, Append(a, v))
RenewedSteps(k, new, b, p, q) ==
    \A j \in 1 .. Len(p) : q[j] = IF b \o SubSeq(p, 1, j) = k THEN new ELSE p[j]
RenewedJoin(k, new, b, p, q) == Renewed(k, new, b) \o q = Renewed(k, new, b \o p)

LEMMA RenewedTyped ==
    ASSUME NEW S, NEW k \in Seq(S), NEW x \in Seq(S), NEW new \in S
    PROVE  /\ Renewed(k, new, x) \in Seq(S)
           /\ Len(Renewed(k, new, x)) = Len(x)
           /\ \A i \in 1 .. Len(x) : Renewed(k, new, x)[i] = IF i = Len(k) /\ Below(k, x) THEN new ELSE x[i]
           /\ k # <<>> => Renewed(k, new, <<>>) = <<>>
<1>1. Len(x) \in Nat /\ \A i \in 1 .. Len(x) : x[i] \in S
  OBVIOUS
<1>2. Renewed(k, new, x) \in [1 .. Len(x) -> S]
  BY <1>1 DEF Renewed
<1>3. Renewed(k, new, x) \in Seq(S) /\ Len(Renewed(k, new, x)) = Len(x)
  BY <1>1, <1>2
<1>4. \A i \in 1 .. Len(x) : Renewed(k, new, x)[i] = IF i = Len(k) /\ Below(k, x) THEN new ELSE x[i]
  BY DEF Renewed
<1>5. Renewed(k, new, <<>>) = <<>>
  BY DEF Renewed
<1> QED
  BY <1>3, <1>4, <1>5

(* Different paths without the new name stay different.                      *)
LEMMA RenewedApart ==
    ASSUME NEW S, NEW k \in Seq(S), NEW x \in Seq(S), NEW y \in Seq(S), NEW new \in S, k # <<>>,
           \A i \in 1 .. Len(x) : x[i] # new, \A i \in 1 .. Len(y) : y[i] # new,
           Renewed(k, new, x) = Renewed(k, new, y)
    PROVE  x = y
<1>1. /\ Len(x) = Len(y)
      /\ \A i \in 1 .. Len(x) : /\ Renewed(k, new, x)[i] = IF i = Len(k) /\ Below(k, x) THEN new ELSE x[i]
                                /\ Renewed(k, new, x)[i] = IF i = Len(k) /\ Below(k, y) THEN new ELSE y[i]
  <2>1. Len(Renewed(k, new, x)) = Len(x) /\ Len(Renewed(k, new, y)) = Len(y)
    BY RenewedTyped
  <2>2. Len(x) = Len(y)
    BY <2>1
  <2> QED
    BY <2>2 DEF Renewed
<1>2. Len(k) \in Nat \ {0} /\ Len(x) \in Nat
  BY EmptySeq
<1>3. ASSUME NEW i \in 1 .. Len(x) PROVE x[i] = y[i]
  <2>1. CASE i # Len(k)
    BY <1>1, <2>1
  <2>2. CASE i = Len(k)
    <3>1. Below(k, x) <=> Below(k, y)
      BY <1>1, <2>2
    <3>2. CASE ~Below(k, x)
      BY <1>1, <3>1, <3>2
    <3>3. CASE Below(k, x)
      <4> i \in 1 .. Len(k)
        BY <1>2, <2>2
      <4> QED
        BY <3>1, <3>3 DEF Below
    <3> QED
      BY <3>2, <3>3
  <2> QED
    BY <2>1, <2>2
<1> QED
  BY <1>1, <1>3, SeqEqual

(* A declaration and the one it is in are renamed together.                  *)
LEMMA RenewedBelow ==
    ASSUME NEW S, NEW k \in Seq(S), NEW a \in Seq(S), NEW v \in S, NEW new \in S, k # <<>>,
           NEW w \in S, w = IF Append(a, v) = k THEN new ELSE v
    PROVE  RenewedLast(k, new, a, v, w)
<1> DEFINE x == Append(a, v)
           l == Append(Renewed(k, new, a), w)
           r == Renewed(k, new, x)
<1>1. /\ x \in Seq(S) /\ Len(x) = Len(a) + 1 /\ x[Len(a) + 1] = v /\ Len(a) \in Nat
      /\ \A i \in 1 .. Len(a) : x[i] = a[i]
  BY AppendProperties
<1>2. Renewed(k, new, a) \in Seq(S) /\ Len(Renewed(k, new, a)) = Len(a) /\ w \in S
  BY RenewedTyped
<1>3. /\ l \in Seq(S) /\ Len(l) = Len(a) + 1 /\ l[Len(a) + 1] = w
      /\ \A i \in 1 .. Len(a) : l[i] = Renewed(k, new, a)[i]
  BY <1>2, AppendProperties
<1>4. r \in Seq(S) /\ Len(r) = Len(a) + 1
  <2> HIDE DEF x
  <2> QED
    BY <1>1, RenewedTyped
<1>5. Len(k) \in Nat
  OBVIOUS
<1>6. x = k <=> Len(k) = Len(a) + 1 /\ Below(k, x)
  <2>1. ASSUME Len(k) = Len(a) + 1, Below(k, x) PROVE x = k
    <3> HIDE DEF x
    <3> QED
      BY <1>1, <2>1, SeqEqual DEF Below
  <2>2. ASSUME x = k PROVE Len(k) = Len(a) + 1 /\ Below(k, x)
    <3> HIDE DEF x
    <3> QED
      BY <1>1, <2>2 DEF Below
  <2> QED
    BY <2>1, <2>2
<1>7. ASSUME NEW i \in 1 .. Len(a) PROVE l[i] = r[i]
  <2>1. l[i] = IF i = Len(k) /\ Below(k, a) THEN new ELSE a[i]
    BY <1>3 DEF Renewed
  <2>2. r[i] = IF i = Len(k) /\ Below(k, x) THEN new ELSE x[i]
    <3> i \in 1 .. Len(x)
      BY <1>1
    <3> HIDE DEF x
    <3> QED
      BY DEF Renewed
  <2>3. i = Len(k) => (Below(k, a) <=> Below(k, x))
    <3> HIDE DEF x
    <3> QED
      BY <1>1 DEF Below
  <2> HIDE DEF l, r, x
  <2> QED
    BY <1>1, <2>1, <2>2, <2>3
<1>8. l[Len(a) + 1] = r[Len(a) + 1]
  <2>1. r[Len(a) + 1] = IF Len(a) + 1 = Len(k) /\ Below(k, x) THEN new ELSE v
    <3> Len(a) + 1 \in 1 .. Len(x)
      BY <1>1
    <3> HIDE DEF x
    <3> QED
      BY <1>1 DEF Renewed
  <2>2. l[Len(a) + 1] = w
    BY <1>3
  <2>3. w = IF x = k THEN new ELSE v
    OBVIOUS
  <2> HIDE DEF l, r, x
  <2> QED
    BY <1>6, <2>1, <2>2, <2>3
<1> HIDE DEF l, r, x
<1>9. l = r
  <2>1. \A i \in 1 .. Len(l) : l[i] = r[i]
    BY <1>1, <1>3, <1>7, <1>8
  <2> QED
    BY <1>3, <1>4, <2>1, SeqEqual
<1> QED
  BY <1>9 DEF RenewedLast, l, r, x

(* The steps of a reference, from the declaration it starts at.              *)
LEMMA StepReaches ==
    ASSUME NEW S, NEW k \in Seq(S), NEW b \in Seq(S), NEW p \in Seq(S), NEW j \in 1 .. Len(p)
    PROVE  b \o SubSeq(p, 1, j) = k <=> Len(k) = Len(b) + j /\ Below(k, b \o p)
<1> DEFINE c == SubSeq(p, 1, j)
           l == b \o c
           x == b \o p
<1>1. Len(b) \in Nat /\ Len(p) \in Nat /\ j \in Nat /\ j <= Len(p)
  OBVIOUS
<1>2. c \in Seq(S) /\ Len(c) = j /\ \A i \in 1 .. j : c[i] = p[i]
  <2>1. \A i \in 1 .. j : p[i] \in S
    BY <1>1
  <2> QED
    BY <1>1, <2>1, SubSeqProperties
<1>3. /\ x \in Seq(S) /\ Len(x) = Len(b) + Len(p)
      /\ \A i \in 1 .. Len(b) + Len(p) : x[i] = IF i <= Len(b) THEN b[i] ELSE p[i - Len(b)]
  BY ConcatProperties
<1>4. /\ l \in Seq(S) /\ Len(l) = Len(b) + j
      /\ \A i \in 1 .. Len(b) + j : l[i] = IF i <= Len(b) THEN b[i] ELSE c[i - Len(b)]
  <2> HIDE DEF c
  <2> QED
    BY <1>2, ConcatProperties
<1> HIDE DEF c, l, x
<1>5. ASSUME NEW i \in 1 .. Len(b) + j PROVE l[i] = x[i]
  <2>1. i \in 1 .. Len(b) + Len(p)
    BY <1>1
  <2>2. i > Len(b) => i - Len(b) \in 1 .. j
    BY <1>1
  <2>3. x[i] = IF i <= Len(b) THEN b[i] ELSE p[i - Len(b)]
    BY <1>3, <2>1
  <2>4. l[i] = IF i <= Len(b) THEN b[i] ELSE c[i - Len(b)]
    BY <1>4
  <2>5. i > Len(b) => c[i - Len(b)] = p[i - Len(b)]
    BY <1>2, <2>2
  <2>6. i <= Len(b) \/ i > Len(b)
    BY <1>1
  <2> QED
    BY <2>3, <2>4, <2>5, <2>6
<1>6. ASSUME l = k PROVE Len(k) = Len(b) + j /\ Below(k, x)
  BY <1>1, <1>3, <1>4, <1>5, <1>6 DEF Below
<1>7. ASSUME Len(k) = Len(b) + j, Below(k, x) PROVE l = k
  <2>1. \A i \in 1 .. Len(l) : l[i] = k[i]
    BY <1>1, <1>4, <1>5, <1>7 DEF Below
  <2> QED
    BY <1>4, <1>7, <2>1, SeqEqual
<1>8. l = k <=> Len(k) = Len(b) + j /\ Below(k, x)
  BY <1>6, <1>7
<1> QED
  BY <1>8 DEF l, c, x

LEMMA RenewedReference ==
    ASSUME NEW S, NEW k \in Seq(S), NEW b \in Seq(S), NEW p \in Seq(S), NEW q \in Seq(S), NEW new \in S,
           Len(q) = Len(p), RenewedSteps(k, new, b, p, q)
    PROVE  RenewedJoin(k, new, b, p, q)
<1> DEFINE x == b \o p
           c == Renewed(k, new, b)
           l == c \o q
           r == Renewed(k, new, x)
<1>1. Len(b) \in Nat /\ Len(p) \in Nat /\ Len(k) \in Nat /\ \A j \in 1 .. Len(p) : p[j] \in S
  OBVIOUS
<1>2. q \in Seq(S) /\ Len(q) = Len(p)
  OBVIOUS
<1>3. /\ x \in Seq(S) /\ Len(x) = Len(b) + Len(p)
      /\ \A i \in 1 .. Len(b) + Len(p) : x[i] = IF i <= Len(b) THEN b[i] ELSE p[i - Len(b)]
  BY ConcatProperties
<1>4. c \in Seq(S) /\ Len(c) = Len(b)
  BY RenewedTyped
<1>5. /\ l \in Seq(S) /\ Len(l) = Len(b) + Len(p)
      /\ \A i \in 1 .. Len(b) + Len(p) : l[i] = IF i <= Len(b) THEN c[i] ELSE q[i - Len(b)]
  <2> HIDE DEF c
  <2>1. /\ l \in Seq(S) /\ Len(l) = Len(c) + Len(q)
        /\ \A i \in 1 .. Len(c) + Len(q) : l[i] = IF i <= Len(c) THEN c[i] ELSE q[i - Len(c)]
    BY <1>2, <1>4, ConcatProperties
  <2> HIDE DEF l
  <2> QED
    BY <1>2, <1>4, <2>1
<1>6. r \in Seq(S) /\ Len(r) = Len(b) + Len(p)
  <2> HIDE DEF x
  <2> QED
    BY <1>3, RenewedTyped
<1>7. ASSUME NEW i \in 1 .. Len(b) + Len(p) PROVE l[i] = r[i]
  <2>1. r[i] = IF i = Len(k) /\ Below(k, x) THEN new ELSE x[i]
    <3> HIDE DEF x
    <3> QED
      BY <1>3 DEF Renewed
  <2>2. CASE i <= Len(b)
    <3> i \in 1 .. Len(b)
      BY <1>1, <2>2
    <3>1. l[i] = IF i = Len(k) /\ Below(k, b) THEN new ELSE b[i]
      BY <1>5, <2>2 DEF Renewed
    <3> HIDE DEF x, l, r
    <3>2. ASSUME i = Len(k) PROVE Below(k, b) <=> Below(k, x)
      <4>1. \A n \in 1 .. Len(k) : x[n] = b[n]
        BY <1>1, <1>3, <2>2, <3>2
      <4>2. Len(k) <= Len(b) /\ Len(k) <= Len(x)
        BY <1>1, <1>3, <2>2, <3>2
      <4> QED
        BY <4>1, <4>2 DEF Below
    <3>3. x[i] = b[i]
      BY <1>3, <2>2
    <3> QED
      BY <2>1, <3>1, <3>2, <3>3
  <2>3. CASE ~(i <= Len(b))
    <3> DEFINE j == i - Len(b)
    <3>1. j \in 1 .. Len(p) /\ i = Len(b) + j
      BY <1>1, <2>3
    <3>2. l[i] = IF b \o SubSeq(p, 1, j) = k THEN new ELSE p[j]
      BY <1>5, <2>3, <3>1 DEF RenewedSteps
    <3>3. b \o SubSeq(p, 1, j) = k <=> Len(k) = Len(b) + j /\ Below(k, x)
      BY <3>1, StepReaches
    <3>4. x[i] = p[j]
      BY <1>3, <2>3
    <3> HIDE DEF x, l, r, j
    <3> QED
      BY <2>1, <3>1, <3>2, <3>3, <3>4
  <2> QED
    BY <2>2, <2>3
<1> HIDE DEF l, r, x, c
<1>8. l = r
  BY <1>5, <1>6, <1>7, SeqEqual
<1> QED
  BY <1>8 DEF RenewedJoin, l, r, x, c

-----------------------------------------------------------------------------
(* What edits make of a file.                                                *)
LEMMA FunctionSeq ==
    ASSUME NEW S, NEW n \in Nat, NEW p \in [1 .. n -> S]
    PROVE  p \in Seq(S) /\ Len(p) = n
  OBVIOUS

In(edits, f, at) == [file |-> f, at |-> at] \in edits

UseAfter(u, old, f, edits, new, i) ==
    /\ u \in WrittenUse
    /\ u.package = old.package /\ u.last = old.last
    /\ u.alias = IF In(edits, f, UseAt(i)) THEN <<new>> ELSE old.alias
    /\ UsePrefix(u) = IF In(edits, f, UseAt(i)) THEN new ELSE UsePrefix(old)
RefAfter(u, old, f, edits, new, d, r) ==
    /\ u \in WrittenRef
    /\ u.relative = old.relative
    /\ u.prefix = IF In(edits, f, StepAt(d, r, 0)) THEN <<new>> ELSE old.prefix
    /\ u.path = [j \in 1 .. Len(old.path) |-> IF In(edits, f, StepAt(d, r, j)) THEN new ELSE old.path[j]]
    /\ Len(u.path) = Len(old.path)
DeclAfter(u, old, f, edits, new, d) ==
    /\ u \in WrittenDecl
    /\ u.parent = old.parent /\ u.kind = old.kind
    /\ u.name = IF In(edits, f, DeclAt(d)) THEN new ELSE old.name
    /\ DOMAIN u.refs = DOMAIN old.refs
    /\ \A r \in DOMAIN old.refs : RefAfter(u.refs[r], old.refs[r], f, edits, new, d, r)
FileAfter(u, t, f, edits, new) ==
    /\ u \in WrittenFile
    /\ u.package = t.package /\ u.readOnly = t.readOnly /\ u.parses = t.parses
    /\ DOMAIN u.uses = DOMAIN t.uses /\ DOMAIN u.decls = DOMAIN t.decls /\ Len(u.decls) = Len(t.decls)
    /\ \A i \in DOMAIN t.uses : UseAfter(u.uses[i], t.uses[i], f, edits, new, i)
    /\ \A d \in DOMAIN t.decls : DeclAfter(u.decls[d], t.decls[d], f, edits, new, d)

LEMMA UseEdited ==
    ASSUME NEW f, NEW t, NEW edits, NEW new \in STRING, WellNamed(t), NEW i \in DOMAIN t.uses
    PROVE  UseAfter(EditedUse(f, t, edits, new, i), t.uses[i], f, edits, new, i)
<1> DEFINE u == EditedUse(f, t, edits, new, i)
           old == t.uses[i]
           alias == IF In(edits, f, UseAt(i)) THEN <<new>> ELSE old.alias
<1>1. old \in WrittenUse
  BY FileParts
<1>2. u = [old EXCEPT !.alias = alias]
  BY DEF EditedUse, In
<1>3. alias \in Seq(STRING)
  <2> <<new>> \in Seq(STRING)
    OBVIOUS
  <2> old.alias \in Seq(STRING)
    <3> HIDE DEF old
    <3> QED
      BY <1>1 DEF WrittenUse
  <2> QED
    OBVIOUS
<1> HIDE DEF u, old, alias
<1>4. u \in WrittenUse /\ u.package = old.package /\ u.last = old.last /\ u.alias = alias
  BY <1>1, <1>2, <1>3 DEF WrittenUse
<1>5. UsePrefix(u) = IF In(edits, f, UseAt(i)) THEN new ELSE UsePrefix(old)
  <2>1. <<new>> # <<>> /\ <<new>>[1] = new
    OBVIOUS
  <2> QED
    BY <1>4, <2>1 DEF UsePrefix, alias
<1> QED
  BY <1>4, <1>5 DEF UseAfter, u, old, alias

LEMMA RefEdited ==
    ASSUME NEW f, NEW t, NEW edits, NEW new \in STRING, WellNamed(t),
           NEW d \in DOMAIN t.decls, NEW r \in DOMAIN t.decls[d].refs
    PROVE  RefAfter(EditedRef(f, t, edits, new, d, r), t.decls[d].refs[r], f, edits, new, d, r)
<1> DEFINE old == t.decls[d].refs[r]
           u == EditedRef(f, t, edits, new, d, r)
           path == [j \in 1 .. Len(old.path) |-> IF In(edits, f, StepAt(d, r, j)) THEN new ELSE old.path[j]]
           prefix == IF In(edits, f, StepAt(d, r, 0)) THEN <<new>> ELSE old.prefix
<1>1. /\ old \in WrittenRef /\ old.path \in Seq(STRING) /\ old.prefix \in Seq(STRING)
      /\ DOMAIN old.path = 1 .. Len(old.path) /\ Len(old.path) \in Nat
  BY RefParts
<1>2. u = [old EXCEPT !.prefix = prefix, !.path = path]
  BY <1>1 DEF EditedRef, In
<1>3. prefix \in Seq(STRING)
  <2> <<new>> \in Seq(STRING)
    OBVIOUS
  <2> QED
    BY <1>1
<1>4. path \in Seq(STRING) /\ Len(path) = Len(old.path)
  <2>1. path \in [1 .. Len(old.path) -> STRING]
    BY <1>1
  <2> HIDE DEF path, old, u, prefix
  <2> QED
    BY <1>1, <2>1, FunctionSeq
<1> HIDE DEF old, u, path, prefix
<1>5. u \in WrittenRef /\ u.relative = old.relative /\ u.prefix = prefix /\ u.path = path
  BY <1>1, <1>2, <1>3, <1>4 DEF WrittenRef
<1>6. Len(u.path) = Len(old.path)
  BY <1>4, <1>5
<1> QED
  BY <1>5, <1>6 DEF RefAfter, old, u, path, prefix

LEMMA DeclEdited ==
    ASSUME NEW f, NEW t, NEW edits, NEW new \in STRING, WellNamed(t), NEW d \in DOMAIN t.decls
    PROVE  DeclAfter(EditedDecl(f, t, edits, new, d), t.decls[d], f, edits, new, d)
<1> DEFINE u == EditedDecl(f, t, edits, new, d)
           old == t.decls[d]
           refs == [r \in DOMAIN old.refs |-> EditedRef(f, t, edits, new, d, r)]
           name == IF In(edits, f, DeclAt(d)) THEN new ELSE old.name
<1>1. old \in WrittenDecl /\ old.refs \in Seq(WrittenRef) /\ old.name \in STRING
  BY FileParts
<1>2. u = [old EXCEPT !.name = name, !.refs = refs]
  BY DEF EditedDecl, In
<1>3. \A r \in DOMAIN old.refs : RefAfter(EditedRef(f, t, edits, new, d, r), old.refs[r], f, edits, new, d, r)
  BY RefEdited
<1>4. name \in STRING
  BY <1>1
<1>5. refs \in Seq(WrittenRef)
  <2>1. DOMAIN old.refs = 1 .. Len(old.refs) /\ Len(old.refs) \in Nat
    BY <1>1
  <2>2. \A r \in DOMAIN old.refs : EditedRef(f, t, edits, new, d, r) \in WrittenRef
    BY <1>3 DEF RefAfter
  <2>3. refs \in [1 .. Len(old.refs) -> WrittenRef]
    BY <2>1, <2>2
  <2> HIDE DEF refs
  <2> QED
    BY <2>1, <2>3, FunctionSeq
<1>6. DOMAIN refs = DOMAIN old.refs /\ \A r \in DOMAIN old.refs : refs[r] = EditedRef(f, t, edits, new, d, r)
  OBVIOUS
<1> HIDE DEF refs, u, old, name
<1>7. /\ u \in WrittenDecl /\ u.parent = old.parent /\ u.kind = old.kind
      /\ u.name = name /\ u.refs = refs
  BY <1>1, <1>2, <1>4, <1>5 DEF WrittenDecl
<1>8. \A r \in DOMAIN old.refs : RefAfter(u.refs[r], old.refs[r], f, edits, new, d, r)
  BY <1>3, <1>6, <1>7
<1>9. DOMAIN u.refs = DOMAIN old.refs
  BY <1>6, <1>7
<1> QED
  BY <1>7, <1>8, <1>9 DEF DeclAfter, u, old, name

LEMMA FileEdited ==
    ASSUME NEW f, NEW t, NEW edits, NEW new \in STRING, WellNamed(t)
    PROVE  FileAfter(Edited(f, t, edits, new), t, f, edits, new)
<1> DEFINE u == Edited(f, t, edits, new)
           uses == [i \in DOMAIN t.uses |-> EditedUse(f, t, edits, new, i)]
           decls == [d \in DOMAIN t.decls |-> EditedDecl(f, t, edits, new, d)]
<1>1. u = [t EXCEPT !.uses = uses, !.decls = decls]
  BY DEF Edited
<1>2. t \in WrittenFile
  BY DEF WellNamed
<1>3. /\ Len(t.decls) \in Nat /\ DOMAIN t.decls = 1 .. Len(t.decls)
      /\ Len(t.uses) \in Nat /\ DOMAIN t.uses = 1 .. Len(t.uses)
  BY FileParts
<1>4. /\ \A i \in DOMAIN t.uses : UseAfter(EditedUse(f, t, edits, new, i), t.uses[i], f, edits, new, i)
      /\ \A d \in DOMAIN t.decls : DeclAfter(EditedDecl(f, t, edits, new, d), t.decls[d], f, edits, new, d)
  BY UseEdited, DeclEdited
<1>5. uses \in Seq(WrittenUse) /\ DOMAIN uses = DOMAIN t.uses
  <2>1. uses \in [1 .. Len(t.uses) -> WrittenUse] /\ DOMAIN uses = DOMAIN t.uses
    BY <1>3, <1>4 DEF UseAfter
  <2> HIDE DEF uses
  <2> QED
    BY <1>3, <2>1, FunctionSeq
<1>6. decls \in Seq(WrittenDecl) /\ Len(decls) = Len(t.decls) /\ DOMAIN decls = DOMAIN t.decls
  <2>1. decls \in [1 .. Len(t.decls) -> WrittenDecl] /\ DOMAIN decls = DOMAIN t.decls
    BY <1>3, <1>4 DEF DeclAfter
  <2> HIDE DEF decls
  <2> QED
    BY <1>3, <2>1, FunctionSeq
<1>7. /\ \A i \in DOMAIN t.uses : uses[i] = EditedUse(f, t, edits, new, i)
      /\ \A d \in DOMAIN t.decls : decls[d] = EditedDecl(f, t, edits, new, d)
  OBVIOUS
<1> HIDE DEF u, uses, decls
<1>8. /\ u \in WrittenFile /\ u.uses = uses /\ u.decls = decls
      /\ u.package = t.package /\ u.readOnly = t.readOnly /\ u.parses = t.parses
  BY <1>1, <1>2, <1>5, <1>6 DEF WrittenFile
<1>9. /\ \A i \in DOMAIN t.uses : UseAfter(u.uses[i], t.uses[i], f, edits, new, i)
      /\ \A d \in DOMAIN t.decls : DeclAfter(u.decls[d], t.decls[d], f, edits, new, d)
  BY <1>4, <1>7, <1>8
<1>10. DOMAIN u.uses = DOMAIN t.uses /\ DOMAIN u.decls = DOMAIN t.decls /\ Len(u.decls) = Len(t.decls)
  BY <1>5, <1>6, <1>8
<1> QED
  BY <1>8, <1>9, <1>10 DEF FileAfter, u

-----------------------------------------------------------------------------
(* What is registered for declarations and references, by their places.      *)
Stem(t, d, ref) == IF ref.relative THEN PathsOf(t)[d] ELSE <<>>

LEMMA ReferencesAre ==
    ASSUME NEW t
    PROVE  \A p : p \in References(t) <=>
                      \E d \in Processed(t) : \E r \in DOMAIN t.decls[d].refs : p = <<d, r>>
  BY DEF References

LEMMA StepsAre ==
    ASSUME NEW t
    PROVE  \A at : at \in Steps(t) <=>
                       \E d \in Processed(t) : \E r \in DOMAIN t.decls[d].refs :
                           \E j \in DOMAIN t.decls[d].refs[r].path : at = StepAt(d, r, j)
<1>1. ASSUME NEW at \in Steps(t)
      PROVE  \E d \in Processed(t) : \E r \in DOMAIN t.decls[d].refs :
                 \E j \in DOMAIN t.decls[d].refs[r].path : at = StepAt(d, r, j)
  <2>1. PICK p \in References(t) : \E j \in DOMAIN t.decls[p[1]].refs[p[2]].path : at = StepAt(p[1], p[2], j)
    BY DEF Steps
  <2>2. PICK d \in Processed(t) : \E r \in DOMAIN t.decls[d].refs : p = <<d, r>>
    BY ReferencesAre
  <2>4. PICK r \in DOMAIN t.decls[d].refs : p = <<d, r>>
    BY <2>2
  <2>3. p[1] = d /\ p[2] = r
    BY <2>4
  <2> QED
    BY <2>1, <2>3
<1>2. ASSUME NEW d \in Processed(t), NEW r \in DOMAIN t.decls[d].refs,
             NEW j \in DOMAIN t.decls[d].refs[r].path
      PROVE  StepAt(d, r, j) \in Steps(t)
  <2>1. <<d, r>> \in References(t)
    BY ReferencesAre
  <2>2. <<d, r>>[1] = d /\ <<d, r>>[2] = r
    OBVIOUS
  <2> DEFINE p == <<d, r>>
  <2>3. p \in References(t) /\ p[1] = d /\ p[2] = r
    BY <2>1, <2>2
  <2> HIDE DEF p
  <2>4. StepAt(p[1], p[2], j) \in {StepAt(p[1], p[2], x) : x \in DOMAIN t.decls[p[1]].refs[p[2]].path}
    BY <2>3
  <2>5. StepAt(p[1], p[2], j) \in Steps(t)
    BY <2>3, <2>4 DEF Steps
  <2> QED
    BY <2>3, <2>5
<1> QED
  BY <1>1, <1>2

LEMMA PlacesApart ==
    /\ \A i, r, step : /\ StepAt(i, r, step).k = "ref" /\ StepAt(i, r, step).i = i
                       /\ StepAt(i, r, step).r = r /\ StepAt(i, r, step).step = step
    /\ \A d : DeclAt(d).k = "decl" /\ DeclAt(d).i = d
    /\ \A i : UseAt(i).k = "use" /\ UseAt(i).i = i
  BY DEF StepAt, DeclAt, UseAt

LEMMA StartOf ==
    ASSUME NEW S, NEW p \in Seq(S), NEW j \in 1 .. Len(p)
    PROVE  SubSeq(p, 1, j) \in Seq(S) /\ Len(SubSeq(p, 1, j)) = j /\ SubSeq(p, 1, j) # <<>>
<1>1. j \in Nat /\ j # 0 /\ \A i \in 1 .. j : p[i] \in S
  OBVIOUS
<1>2. SubSeq(p, 1, j) \in Seq(S) /\ Len(SubSeq(p, 1, j)) = j
  BY <1>1, SubSeqProperties
<1> QED
  BY <1>1, <1>2

LEMMA WholeOf ==
    ASSUME NEW S, NEW p \in Seq(S), Len(p) \in Nat \ {0}
    PROVE  SubSeq(p, 1, Len(p)) = p
<1>1. SubSeq(p, 1, Len(p)) \in Seq(S) /\ Len(SubSeq(p, 1, Len(p))) = Len(p)
  BY StartOf
<1>2. \A i \in 1 .. Len(p) : SubSeq(p, 1, Len(p))[i] = p[i]
  BY SubSeqProperties
<1> QED
  BY <1>1, <1>2, SeqEqual

LEMMA FullIs ==
    ASSUME NEW t, WellNamed(t), NEW d \in DOMAIN t.decls, NEW r \in DOMAIN t.decls[d].refs,
           NEW j \in 1 .. Len(t.decls[d].refs[r].path)
    PROVE  LET ref == t.decls[d].refs[r]
           IN  /\ Stem(t, d, ref) \in Seq(STRING)
               /\ Full(t, d, ref, j) = Stem(t, d, ref) \o SubSeq(ref.path, 1, j)
               /\ NamePath(t, d, ref, j) = Full(t, d, ref, j)
               /\ Full(t, d, ref, j) \in Seq(STRING)
               /\ Full(t, d, ref, j) # <<>>
<1> DEFINE ref == t.decls[d].refs[r]
           c == SubSeq(ref.path, 1, j)
           stem == Stem(t, d, ref)
<1>1. ref.path \in Seq(STRING)
  BY RefParts
<1>2. c \in Seq(STRING) /\ c # <<>>
  BY <1>1, StartOf
<1>3. stem \in Seq(STRING)
  <2>1. d \in 0 .. Len(t.decls)
    BY FileParts
  <2>2. PathsOf(t)[d] \in Seq(STRING)
    BY <2>1, PathsTyped
  <2>3. <<>> \in Seq(STRING)
    OBVIOUS
  <2> QED
    BY <2>2, <2>3 DEF Stem
<1>4. <<>> \o c = c
  BY <1>2, ConcatEmptySeq
<1>5. NamePath(t, d, ref, j) = stem \o c
  BY DEF NamePath, Stem
<1>6. Full(t, d, ref, j) = stem \o c
  <2> HIDE DEF c
  <2> QED
    BY <1>4 DEF Full, Stem, c
<1>7. stem \o c \in Seq(STRING) /\ stem \o c # <<>>
  <2> HIDE DEF stem, c
  <2> QED
    BY <1>2, <1>3, ConcatProperties, ConcatEqualIffEmpty
<1> QED
  BY <1>3, <1>5, <1>6, <1>7

LEMMA FullLong ==
    ASSUME NEW t, WellNamed(t), NEW d \in DOMAIN t.decls, NEW r \in DOMAIN t.decls[d].refs,
           NEW j \in 1 .. Len(t.decls[d].refs[r].path)
    PROVE  Full(t, d, t.decls[d].refs[r], j) \in Seq(STRING) /\ Full(t, d, t.decls[d].refs[r], j) # <<>>
BY FullIs

(* Key (q, path) is registered at a place, for references or for renames.    *)
DeclKey(t, at, q, path) ==
    \E d \in Processed(t) : at = DeclAt(d) /\ q = t.package /\ path = PathsOf(t)[d]
StepKey(T, t, at, q, path) ==
    /\ at \in Steps(t) /\ q \in PackageOf(T, t, RefAt(t, at))
    /\ path = Full(t, at.i, RefAt(t, at), at.step)
Registered(entries, at, q, path) ==
    \E e \in entries : e.at = at /\ KeyOfEntry(e) = [package |-> q, path |-> path]

LEMMA DeclEntriesAre ==
    ASSUME NEW t, NEW at, NEW q, NEW path
    PROVE  Registered(DeclEntries(t), at, q, path) <=> DeclKey(t, at, q, path)
<1>1. ASSUME NEW p, NEW x, NEW y
      PROVE  /\ Entry(x, p, y).at = x
             /\ KeyOfEntry(Entry(x, p, y)) = [package |-> q, path |-> path] <=> p = q /\ y = path
  BY DEF Entry, KeyOfEntry
<1>2. (\E e \in DeclEntries(t) : e.at = at /\ KeyOfEntry(e) = [package |-> q, path |-> path])
        <=> \E d \in Processed(t) : at = DeclAt(d) /\ q = t.package /\ path = PathsOf(t)[d]
  <2>1. \A e : e \in DeclEntries(t) <=> \E d \in Processed(t) : e = Entry(DeclAt(d), t.package, PathsOf(t)[d])
    BY DEF DeclEntries
  <2>2. ASSUME NEW e \in DeclEntries(t), e.at = at, KeyOfEntry(e) = [package |-> q, path |-> path]
        PROVE  \E d \in Processed(t) : at = DeclAt(d) /\ q = t.package /\ path = PathsOf(t)[d]
    <3>1. PICK d \in Processed(t) : e = Entry(DeclAt(d), t.package, PathsOf(t)[d])
      BY <2>1
    <3>2. at = DeclAt(d) /\ q = t.package /\ path = PathsOf(t)[d]
      BY <1>1, <2>2, <3>1
    <3> QED
      BY <3>2
  <2>3. ASSUME NEW d \in Processed(t), at = DeclAt(d), q = t.package, path = PathsOf(t)[d]
        PROVE  \E e \in DeclEntries(t) : e.at = at /\ KeyOfEntry(e) = [package |-> q, path |-> path]
    <3>1. Entry(DeclAt(d), t.package, PathsOf(t)[d]) \in DeclEntries(t)
      BY <2>1
    <3> QED
      BY <1>1, <2>3, <3>1
  <2> QED
    BY <2>2, <2>3, Zenon
<1> QED
  BY <1>2, Zenon DEF Registered, DeclKey

LEMMA StepEntriesAre ==
    ASSUME NEW T, NEW t, NEW ats, NEW at, NEW q, NEW path
    PROVE  Registered(StepEntries(T, t, ats), at, q, path)
             <=> /\ at \in ats /\ q \in PackageOf(T, t, RefAt(t, at))
                 /\ path = Full(t, at.i, RefAt(t, at), at.step)
<1>1. ASSUME NEW p, NEW x, NEW y
      PROVE  /\ Entry(x, p, y).at = x
             /\ KeyOfEntry(Entry(x, p, y)) = [package |-> q, path |-> path] <=> p = q /\ y = path
  BY DEF Entry, KeyOfEntry
<1>3. \A e : e \in StepEntries(T, t, ats) <=>
          \E a \in ats : \E p \in PackageOf(T, t, RefAt(t, a)) : e = Entry(a, p, Full(t, a.i, RefAt(t, a), a.step))
  BY DEF StepEntries
<1>4. ASSUME NEW e \in StepEntries(T, t, ats), e.at = at, KeyOfEntry(e) = [package |-> q, path |-> path]
      PROVE  /\ at \in ats /\ q \in PackageOf(T, t, RefAt(t, at))
             /\ path = Full(t, at.i, RefAt(t, at), at.step)
  <2>1. PICK a \in ats : \E p \in PackageOf(T, t, RefAt(t, a)) : e = Entry(a, p, Full(t, a.i, RefAt(t, a), a.step))
    BY <1>3
  <2>2. PICK p \in PackageOf(T, t, RefAt(t, a)) : e = Entry(a, p, Full(t, a.i, RefAt(t, a), a.step))
    BY <2>1
  <2>3. a = at /\ p = q /\ path = Full(t, a.i, RefAt(t, a), a.step)
    BY <1>1, <1>4, <2>2
  <2> QED
    BY <2>1, <2>2, <2>3
<1>5. ASSUME at \in ats, q \in PackageOf(T, t, RefAt(t, at)), path = Full(t, at.i, RefAt(t, at), at.step)
      PROVE  \E e \in StepEntries(T, t, ats) : e.at = at /\ KeyOfEntry(e) = [package |-> q, path |-> path]
  <2>1. Entry(at, q, path) \in StepEntries(T, t, ats)
    BY <1>3, <1>5
  <2> QED
    BY <1>1, <2>1
<1> QED
  BY <1>4, <1>5, Zenon DEF Registered

LEMMA RangesAre ==
    ASSUME NEW T, NEW t, NEW at, NEW q, NEW path
    PROVE  /\ Registered(ReferenceRanges(T, t), at, q, path)
                <=> DeclKey(t, at, q, path) \/ StepKey(T, t, at, q, path)
           /\ Registered(TypeRanges(T, t), at, q, path)
                <=> \/ ~t.readOnly /\ DeclKey(t, at, q, path)
                    \/ /\ StepKey(T, t, at, q, path)
                       /\ RefAt(t, at).relative \/ Renamable(T, t, RefAt(t, at))
<1> DEFINE some == {a \in Steps(t) : RefAt(t, a).relative \/ Renamable(T, t, RefAt(t, a))}
<1>1. Registered(DeclEntries(t), at, q, path) <=> DeclKey(t, at, q, path)
  BY DeclEntriesAre
<1>2. Registered(StepEntries(T, t, Steps(t)), at, q, path) <=> StepKey(T, t, at, q, path)
  BY StepEntriesAre DEF StepKey
<1>3. Registered(StepEntries(T, t, some), at, q, path)
        <=> StepKey(T, t, at, q, path) /\ (RefAt(t, at).relative \/ Renamable(T, t, RefAt(t, at)))
  <2>1. Registered(StepEntries(T, t, some), at, q, path)
          <=> at \in some /\ q \in PackageOf(T, t, RefAt(t, at)) /\ path = Full(t, at.i, RefAt(t, at), at.step)
    <3> HIDE DEF some
    <3> QED
      BY StepEntriesAre
  <2>2. at \in some <=> at \in Steps(t) /\ (RefAt(t, at).relative \/ Renamable(T, t, RefAt(t, at)))
    OBVIOUS
  <2> HIDE DEF some
  <2> QED
    BY <2>1, <2>2 DEF StepKey
<1>4. ReferenceRanges(T, t) = DeclEntries(t) \cup StepEntries(T, t, Steps(t))
  BY DEF ReferenceRanges
<1>5. TypeRanges(T, t) = (IF t.readOnly THEN {} ELSE DeclEntries(t)) \cup StepEntries(T, t, some)
  BY DEF TypeRanges
<1>6. \A E, F : Registered(E \cup F, at, q, path) <=> Registered(E, at, q, path) \/ Registered(F, at, q, path)
  BY DEF Registered
<1>7. ~Registered({}, at, q, path)
  BY DEF Registered
<1> HIDE DEF some
<1> QED
  BY <1>1, <1>2, <1>3, <1>4, <1>5, <1>6, <1>7

LEMMA KeysAre ==
    ASSUME NEW T, NEW t, NEW at
    PROVE  /\ \A q, path : [package |-> q, path |-> path] \in KeyAt(T, t, at)
                             <=> DeclKey(t, at, q, path) \/ StepKey(T, t, at, q, path)
           /\ \A x \in KeyAt(T, t, at) : x = [package |-> x.package, path |-> x.path]
<1>1. ASSUME NEW q, NEW path
      PROVE  [package |-> q, path |-> path] \in KeyAt(T, t, at)
               <=> DeclKey(t, at, q, path) \/ StepKey(T, t, at, q, path)
  <2>1. [package |-> q, path |-> path] \in KeyAt(T, t, at) <=> Registered(ReferenceRanges(T, t), at, q, path)
    BY Zenon DEF KeyAt, Registered
  <2> QED
    BY <2>1, RangesAre
<1>2. ASSUME NEW x \in KeyAt(T, t, at) PROVE x = [package |-> x.package, path |-> x.path]
  <2>1. PICK e \in ReferenceRanges(T, t) : x = KeyOfEntry(e)
    BY DEF KeyAt
  <2> QED
    BY <2>1 DEF KeyOfEntry
<1> QED
  BY <1>1, <1>2

LEMMA FoundAre ==
    ASSUME NEW T, NEW f, NEW at, NEW q, NEW path, KeyAt(T, T[f], at) = {[package |-> q, path |-> path]},
           NEW g, NEW a
    PROVE  /\ [file |-> g, at |-> a] \in FindReferences(T, f, at)
                <=> g \in DOMAIN T /\ (DeclKey(T[g], a, q, path) \/ StepKey(T, T[g], a, q, path))
           /\ [file |-> g, at |-> a] \in RenamedType(T, f, at)
                <=> /\ g \in DOMAIN T
                    /\ \/ ~T[g].readOnly /\ DeclKey(T[g], a, q, path)
                       \/ /\ StepKey(T, T[g], a, q, path)
                          /\ RefAt(T[g], a).relative \/ Renamable(T, T[g], RefAt(T[g], a))
<1> DEFINE key == [package |-> q, path |-> path]
<1>1. \A h, x, y, z : [file |-> h, at |-> x] = [file |-> y, at |-> z] <=> h = y /\ x = z
  OBVIOUS
<1>2. KeyAt(T, T[f], at) = {key}
  OBVIOUS
<1> HIDE DEF key
<1>3. [file |-> g, at |-> a] \in FindReferences(T, f, at)
        <=> g \in DOMAIN T /\ \E e \in ReferenceRanges(T, T[g]) : e.at = a /\ KeyOfEntry(e) = key
  <2> DEFINE of(h) == {[file |-> h, at |-> e.at] : e \in {e \in ReferenceRanges(T, T[h]) : KeyOfEntry(e) \in {key}}}
  <2>1. FindReferences(T, f, at) = UNION {of(h) : h \in DOMAIN T}
    BY <1>2 DEF FindReferences
  <2>2. \A h : [file |-> g, at |-> a] \in of(h)
                 <=> h = g /\ \E e \in ReferenceRanges(T, T[g]) : e.at = a /\ KeyOfEntry(e) = key
    BY <1>1
  <2> HIDE DEF of
  <2> QED
    BY <2>1, <2>2
<1>4. [file |-> g, at |-> a] \in RenamedType(T, f, at)
        <=> g \in DOMAIN T /\ \E e \in TypeRanges(T, T[g]) : e.at = a /\ KeyOfEntry(e) = key
  <2> DEFINE of(h) == {[file |-> h, at |-> e.at] : e \in {e \in TypeRanges(T, T[h]) : KeyOfEntry(e) \in {key}}}
  <2>1. RenamedType(T, f, at) = UNION {of(h) : h \in DOMAIN T}
    BY <1>2 DEF RenamedType
  <2>2. \A h : [file |-> g, at |-> a] \in of(h)
                 <=> h = g /\ \E e \in TypeRanges(T, T[g]) : e.at = a /\ KeyOfEntry(e) = key
    BY <1>1
  <2> HIDE DEF of
  <2> QED
    BY <2>1, <2>2
<1>5. /\ (\E e \in ReferenceRanges(T, T[g]) : e.at = a /\ KeyOfEntry(e) = key)
           <=> Registered(ReferenceRanges(T, T[g]), a, q, path)
      /\ (\E e \in TypeRanges(T, T[g]) : e.at = a /\ KeyOfEntry(e) = key)
           <=> Registered(TypeRanges(T, T[g]), a, q, path)
  BY Zenon DEF key, Registered
<1> QED
  BY <1>3, <1>4, <1>5, RangesAre

-----------------------------------------------------------------------------
(* What the compiler finds.                                                  *)
Named(T, q, path) ==
    {[file |-> FileOf(T, q), decl |-> e] :
        e \in {e \in DOMAIN T[FileOf(T, q)].decls : PathsOf(T[FileOf(T, q)])[e] = path}}

LEMMA MeantIs ==
    ASSUME NEW T, NEW f, NEW d, NEW ref, NEW j
    PROVE  /\ NamePackage(T, T[f], ref) = {} => Meant(T, f, d, ref, j) = {}
           /\ \A q : NamePackage(T, T[f], ref) = {q} =>
                        Meant(T, f, d, ref, j) = Named(T, q, NamePath(T[f], d, ref, j))
<1>1. ASSUME NamePackage(T, T[f], ref) = {} PROVE Meant(T, f, d, ref, j) = {}
  BY <1>1 DEF Meant
<1>2. ASSUME NEW q, NamePackage(T, T[f], ref) = {q}
      PROVE  Meant(T, f, d, ref, j) = Named(T, q, NamePath(T[f], d, ref, j))
  <2> DEFINE path == NamePath(T[f], d, ref, j)
             g == FileOf(T, q)
             found == {e \in DOMAIN T[g].decls : PathsOf(T[g])[e] = path}
  <2>1. Meant(T, f, d, ref, j) = {[file |-> x[1], decl |-> x[2]] : x \in {g} \X found}
    BY <1>2 DEF Meant
  <2>2. Named(T, q, path) = {[file |-> g, decl |-> e] : e \in found}
    BY DEF Named
  <2> HIDE DEF found, g, path
  <2>3. {[file |-> x[1], decl |-> x[2]] : x \in {g} \X found} = {[file |-> g, decl |-> e] : e \in found}
    <3>1. \A x : x \in {g} \X found <=> \E e \in found : x = <<g, e>>
      OBVIOUS
    <3>2. \A e : <<g, e>>[1] = g /\ <<g, e>>[2] = e
      OBVIOUS
    <3> QED
      BY <3>1, <3>2
  <2> QED
    BY <2>1, <2>2, <2>3 DEF path
<1> QED
  BY <1>1, <1>2

LEMMA NamedOnly ==
    ASSUME NEW T, ProjectFiles(T), NEW q \in PackagesOf(T), NEW path
    PROVE  /\ \A x \in Named(T, q, path) :
                 /\ x = [file |-> FileOf(T, q), decl |-> x.decl]
                 /\ x.decl \in DOMAIN T[FileOf(T, q)].decls /\ PathsOf(T[FileOf(T, q)])[x.decl] = path
                 /\ x.file = FileOf(T, q)
           /\ \A x, y \in Named(T, q, path) : x = y
           /\ \A p \in PackagesOf(T) : \A other :
                 Named(T, q, path) # {} /\ Named(T, p, other) = Named(T, q, path) => p = q /\ other = path
<1> DEFINE g == FileOf(T, q)
<1>1. g \in DOMAIN T /\ WellNamed(T[g]) /\ T[g].package = q
  BY FilesFound DEF ProjectFiles
<1>2. ASSUME NEW p, NEW other, NEW x \in Named(T, p, other)
      PROVE  /\ x = [file |-> FileOf(T, p), decl |-> x.decl]
             /\ x.decl \in DOMAIN T[FileOf(T, p)].decls /\ PathsOf(T[FileOf(T, p)])[x.decl] = other
             /\ x.file = FileOf(T, p)
  BY DEF Named
<1>3. ASSUME NEW x \in Named(T, q, path), NEW y \in Named(T, q, path) PROVE x = y
  <2>1. x.decl = y.decl
    BY <1>1, <1>2, PathsDiffer
  <2> QED
    BY <1>2, <2>1
<1>4. ASSUME NEW p \in PackagesOf(T), NEW other,
             Named(T, q, path) # {}, Named(T, p, other) = Named(T, q, path)
      PROVE  p = q /\ other = path
  <2>1. PICK x \in Named(T, q, path) : TRUE
    BY <1>4
  <2>2. x.file = FileOf(T, p) /\ x.file = g
    BY <1>2, <1>4, <2>1
  <2>3. T[FileOf(T, p)].package = p
    BY FilesFound
  <2>4. p = q
    BY <1>1, <2>2, <2>3
  <2>5. PathsOf(T[FileOf(T, p)])[x.decl] = other /\ PathsOf(T[g])[x.decl] = path
    BY <1>2, <1>4, <2>1
  <2> QED
    BY <2>4, <2>5
<1> QED
  BY <1>2, <1>3, <1>4

(* A step, and what it is a name for.                                        *)
LEMMA StepIs ==
    ASSUME NEW T, ProjectFiles(T), NEW f \in DOMAIN T, NEW at \in Steps(T[f])
    PROVE  LET t == T[f]
               ref == RefAt(t, at)
           IN  /\ WellNamed(t) /\ t.parses
               /\ at.k = "ref" /\ at = StepAt(at.i, at.r, at.step)
               /\ at.i \in Processed(t) /\ at.i \in DOMAIN t.decls /\ at.r \in DOMAIN t.decls[at.i].refs
               /\ ref = t.decls[at.i].refs[at.r] /\ at.step \in 1 .. Len(ref.path)
               /\ PackageOf(T, t, ref) = NamePackage(T, t, ref)
               /\ \A q, path : StepKey(T, t, at, q, path) =>
                     /\ PackageOf(T, t, ref) = {q} /\ q \in PackagesOf(T)
                     /\ path = Full(t, at.i, ref, at.step)
                     /\ Meant(T, f, at.i, ref, at.step) = Named(T, q, path)
                     /\ KeyAt(T, t, at) = {[package |-> q, path |-> path]}
               /\ \A m \in Meant(T, f, at.i, ref, at.step) :
                     \E q, path : StepKey(T, t, at, q, path)
<1> DEFINE t == T[f]
           ref == RefAt(t, at)
<1>1. WellNamed(t)
  BY DEF ProjectFiles
<1>2. PICK d \in Processed(t) : \E r \in DOMAIN t.decls[d].refs :
                 \E j \in DOMAIN t.decls[d].refs[r].path : at = StepAt(d, r, j)
  BY StepsAre
<1>3. PICK r \in DOMAIN t.decls[d].refs : \E j \in DOMAIN t.decls[d].refs[r].path : at = StepAt(d, r, j)
  BY <1>2
<1>4. PICK j \in DOMAIN t.decls[d].refs[r].path : at = StepAt(d, r, j)
  BY <1>3
<1>5. at.k = "ref" /\ at.i = d /\ at.r = r /\ at.step = j
  BY <1>4, PlacesApart
<1>6. d \in DOMAIN t.decls /\ t.parses
  BY <1>1, ProcessedIs
<1>7. ref = t.decls[d].refs[r]
  BY <1>5 DEF RefAt
<1>8. j \in 1 .. Len(ref.path)
  BY <1>1, <1>6, <1>7, RefParts
<1>9. PackageOf(T, t, ref) = NamePackage(T, t, ref)
  BY <1>6, PackageLeads
<1>10. /\ NamePackage(T, t, ref) \subseteq PackagesOf(T)
       /\ \A q, p \in NamePackage(T, t, ref) : q = p
  BY PackageLeads
<1>11. NamePath(t, d, ref, j) = Full(t, d, ref, j)
  BY <1>1, <1>6, <1>7, <1>8, FullIs
<1> HIDE DEF ref, t
<1>12. ASSUME NEW q, NEW path, StepKey(T, t, at, q, path)
       PROVE  /\ PackageOf(T, t, ref) = {q} /\ q \in PackagesOf(T)
              /\ path = Full(t, at.i, ref, at.step)
              /\ Meant(T, f, at.i, ref, at.step) = Named(T, q, path)
              /\ KeyAt(T, t, at) = {[package |-> q, path |-> path]}
  <2>1. q \in PackageOf(T, t, ref) /\ path = Full(t, d, ref, j)
    BY <1>5, <1>12 DEF StepKey, ref
  <2>2. PackageOf(T, t, ref) = {q} /\ q \in PackagesOf(T) /\ NamePackage(T, t, ref) = {q}
    BY <1>9, <1>10, <2>1
  <2>3. Meant(T, f, d, ref, j) = Named(T, q, path)
    BY <1>11, <2>1, <2>2, MeantIs DEF t
  <2>4. [package |-> q, path |-> path] \in KeyAt(T, t, at)
    BY <1>12, KeysAre
  <2>5. ASSUME NEW x \in KeyAt(T, t, at) PROVE x = [package |-> q, path |-> path]
    <3>1. x = [package |-> x.package, path |-> x.path]
      BY KeysAre
    <3>2. DeclKey(t, at, x.package, x.path) \/ StepKey(T, t, at, x.package, x.path)
      BY <3>1, KeysAre
    <3>3. ~DeclKey(t, at, x.package, x.path)
      BY <1>5, PlacesApart DEF DeclKey
    <3>4. x.package = q /\ x.path = path
      BY <1>5, <2>1, <2>2, <3>2, <3>3 DEF StepKey, ref
    <3> QED
      BY <3>1, <3>4
  <2> QED
    BY <1>5, <2>1, <2>2, <2>3, <2>4, <2>5
<1>13. ASSUME NEW m \in Meant(T, f, at.i, ref, at.step)
       PROVE  \E q, path : StepKey(T, t, at, q, path)
  <2>1. NamePackage(T, t, ref) # {}
    BY <1>13, MeantIs DEF t
  <2>2. PICK q \in NamePackage(T, t, ref) : TRUE
    BY <2>1
  <2>3. StepKey(T, t, at, q, Full(t, at.i, ref, at.step))
    BY <1>9, <2>2 DEF StepKey, ref, t
  <2> QED
    BY <2>3
<1> QED
  BY <1>1, <1>4, <1>5, <1>6, <1>7, <1>8, <1>9, <1>12, <1>13 DEF t, ref

-----------------------------------------------------------------------------
LEMMA ReferencesFound ==
    ASSUME NEW T, NEW f, NEW at
    PROVE  \A x \in FindReferences(T, f, at) : x = [file |-> x.file, at |-> x.at]
<1> DEFINE of(g) == {[file |-> g, at |-> e.at] : e \in {e \in ReferenceRanges(T, T[g]) : KeyOfEntry(e) \in KeyAt(T, T[f], at)}}
<1>1. FindReferences(T, f, at) = UNION {of(g) : g \in DOMAIN T}
  BY DEF FindReferences
<1>2. ASSUME NEW g, NEW x \in of(g) PROVE x = [file |-> x.file, at |-> x.at]
  OBVIOUS
<1> HIDE DEF of
<1> QED
  BY <1>1, <1>2

(* A definition is what the compiler finds, and the references of one those  *)
(* that it takes for the same.                                               *)
LEMMA TracedHolds ==
    ASSUME ProjectFiles(texts)
    PROVE  Traced
<1> SUFFICES ASSUME NEW f \in DOMAIN texts, NEW at \in Steps(texts[f])
             PROVE  LET meant(g, x) == Meant(texts, g, x.i, RefAt(texts[g], x), x.step)
                        m == meant(f, at)
                        found == {y \in FindReferences(texts, f, at) : y.at.k = "ref"}
                    IN  \A x \in m : x.decl \in Processed(texts[x.file]) =>
                            /\ JumpFrom(texts, f, at) = m
                            /\ found = UNION {{[file |-> g, at |-> y] :
                                                  y \in {y \in Steps(texts[g]) : meant(g, y) = m}} :
                                                 g \in DOMAIN texts}
  BY DEF Traced
<1> DEFINE meant(g, x) == Meant(texts, g, x.i, RefAt(texts[g], x), x.step)
           m == meant(f, at)
           found == {y \in FindReferences(texts, f, at) : y.at.k = "ref"}
           same(g) == {[file |-> g, at |-> y] : y \in {y \in Steps(texts[g]) : meant(g, y) = m}}
<1> SUFFICES ASSUME NEW x \in m, x.decl \in Processed(texts[x.file])
             PROVE  JumpFrom(texts, f, at) = m /\ found = UNION {same(g) : g \in DOMAIN texts}
  OBVIOUS
<1>1. PICK q, path : StepKey(texts, texts[f], at, q, path)
  BY StepIs
<1>2. /\ PackageOf(texts, texts[f], RefAt(texts[f], at)) = {q} /\ q \in PackagesOf(texts)
      /\ path = Full(texts[f], at.i, RefAt(texts[f], at), at.step)
      /\ m = Named(texts, q, path)
      /\ KeyAt(texts, texts[f], at) = {[package |-> q, path |-> path]}
  BY <1>1, StepIs
<1>3. /\ x = [file |-> FileOf(texts, q), decl |-> x.decl]
      /\ x.decl \in DOMAIN texts[FileOf(texts, q)].decls /\ PathsOf(texts[FileOf(texts, q)])[x.decl] = path
      /\ x.file = FileOf(texts, q)
      /\ m = {x}
  <2> HIDE DEF m
  <2> QED
    BY <1>2, NamedOnly
<1>4. FileOf(texts, q) \in DOMAIN texts /\ WellNamed(texts[FileOf(texts, q)])
  BY <1>2, FilesFound DEF ProjectFiles
<1>5. JumpFrom(texts, f, at) = m
  <2> DEFINE g == FileOf(texts, q)
             here == {d \in Processed(texts[g]) : PathsOf(texts[g])[d] = path}
  <2>1. JumpFrom(texts, f, at) = {[file |-> g, decl |-> d] : d \in here}
    <3>1. (CHOOSE p \in {q} : TRUE) = q
      OBVIOUS
    <3> QED
      BY <1>2, <3>1 DEF JumpFrom
  <2>2. here = {x.decl}
    <3>1. x.decl \in here
      BY <1>3
    <3>2. ASSUME NEW d \in here PROVE d = x.decl
      <4>1. d \in DOMAIN texts[g].decls /\ PathsOf(texts[g])[d] = PathsOf(texts[g])[x.decl]
        BY <1>3, <1>4, ProcessedIs
      <4> QED
        BY <1>3, <1>4, <4>1, PathsDiffer
    <3> QED
      BY <3>1, <3>2
  <2> HIDE DEF m
  <2> QED
    BY <1>3, <2>1, <2>2
<1>6. ASSUME NEW g \in DOMAIN texts, NEW a
      PROVE  StepKey(texts, texts[g], a, q, path) <=> a \in Steps(texts[g]) /\ meant(g, a) = m
  <2>1. ASSUME StepKey(texts, texts[g], a, q, path) PROVE a \in Steps(texts[g]) /\ meant(g, a) = m
    <3>1. a \in Steps(texts[g])
      BY <2>1 DEF StepKey
    <3>2. meant(g, a) = Named(texts, q, path)
      BY <2>1, <3>1, StepIs
    <3> QED
      BY <1>2, <3>1, <3>2
  <2>2. ASSUME a \in Steps(texts[g]), meant(g, a) = m PROVE StepKey(texts, texts[g], a, q, path)
    <3>1. x \in meant(g, a)
      BY <1>3, <2>2
    <3>2. PICK p, other : StepKey(texts, texts[g], a, p, other)
      BY <2>2, <3>1, StepIs
    <3>3. p \in PackagesOf(texts) /\ meant(g, a) = Named(texts, p, other)
      BY <2>2, <3>2, StepIs
    <3>4. Named(texts, p, other) = Named(texts, q, path) /\ Named(texts, q, path) # {}
      BY <1>2, <1>3, <2>2, <3>3
    <3>5. p = q /\ other = path
      BY <1>2, <3>3, <3>4, NamedOnly
    <3> QED
      BY <3>2, <3>5
  <2> QED
    BY <2>1, <2>2
<1>7. ASSUME NEW g, NEW a
      PROVE  [file |-> g, at |-> a] \in found <=> g \in DOMAIN texts /\ a \in Steps(texts[g]) /\ meant(g, a) = m
  <2>1. [file |-> g, at |-> a] \in FindReferences(texts, f, at)
          <=> g \in DOMAIN texts /\ (DeclKey(texts[g], a, q, path) \/ StepKey(texts, texts[g], a, q, path))
    <3>1. KeyAt(texts, texts[f], at) = {[package |-> q, path |-> path]}
      BY <1>2
    <3> HIDE DEF found, meant, m
    <3> QED
      BY <3>1, FoundAre
  <2>2. DeclKey(texts[g], a, q, path) => a.k # "ref"
    BY PlacesApart DEF DeclKey
  <2>3. g \in DOMAIN texts /\ a \in Steps(texts[g]) => a.k = "ref"
    BY StepIs
  <2>4. [file |-> g, at |-> a] \in found <=> [file |-> g, at |-> a] \in FindReferences(texts, f, at) /\ a.k = "ref"
    OBVIOUS
  <2> HIDE DEF found, meant, m
  <2> QED
    BY <1>6, <2>1, <2>2, <2>3, <2>4
<1>8. \A y \in found : y = [file |-> y.file, at |-> y.at]
  BY ReferencesFound
<1> HIDE DEF found, meant, m
<1>9. \A y : y \in UNION {same(g) : g \in DOMAIN texts}
               <=> \E g \in DOMAIN texts : \E a \in Steps(texts[g]) : meant(g, a) = m /\ y = [file |-> g, at |-> a]
  OBVIOUS
<1> HIDE DEF same
<1>10. found = UNION {same(g) : g \in DOMAIN texts}
  <2>1. ASSUME NEW y \in found PROVE y \in UNION {same(g) : g \in DOMAIN texts}
    <3>1. y = [file |-> y.file, at |-> y.at]
      BY <1>8
    <3>2. y.file \in DOMAIN texts /\ y.at \in Steps(texts[y.file]) /\ meant(y.file, y.at) = m
      BY <1>7, <3>1
    <3> QED
      BY <1>9, <3>1, <3>2
  <2>2. ASSUME NEW y \in UNION {same(g) : g \in DOMAIN texts} PROVE y \in found
    <3>1. PICK g \in DOMAIN texts : \E a \in Steps(texts[g]) : meant(g, a) = m /\ y = [file |-> g, at |-> a]
      BY <1>9
    <3>2. PICK a \in Steps(texts[g]) : meant(g, a) = m /\ y = [file |-> g, at |-> a]
      BY <3>1
    <3> QED
      BY <1>7, <3>2
  <2> QED
    BY <2>1, <2>2
<1> QED
  BY <1>5, <1>10

-----------------------------------------------------------------------------
LEMMA LastIn ==
    ASSUME NEW S, NEW s \in Seq(S), s # <<>>
    PROVE  s[Len(s)] \in S
<1>1. Len(s) \in Nat \ {0}
  BY EmptySeq
<1> QED
  BY <1>1

(* Below a path is what is one name longer.                                  *)
LEMMA OneLonger ==
    ASSUME NEW S, NEW p \in Seq(S), NEW s \in Seq(S), Len(p) = Len(s) + 1
    PROVE  /\ p[Len(s) + 1] \in S
           /\ SubSeq(p, 1, Len(s)) = s <=> p = s \o <<p[Len(s) + 1]>>
<1>1. Len(s) \in Nat /\ Len(p) \in Nat
  OBVIOUS
<1>2. p[Len(s) + 1] \in S
  BY <1>1
<1> DEFINE v == p[Len(s) + 1]
           b == SubSeq(p, 1, Len(s))
           l == s \o <<v>>
<1>3. /\ b \in Seq(S) /\ Len(b) = Len(s) /\ \A i \in 1 .. Len(s) : b[i] = p[i]
  <2>1. \A i \in 1 .. Len(s) : p[i] \in S
    BY <1>1
  <2> QED
    BY <1>1, <2>1, SubSeqProperties
<1>4. l \in Seq(S) /\ Len(l) = Len(s) + 1 /\ l[Len(s) + 1] = v /\ \A i \in 1 .. Len(s) : l[i] = s[i]
  <2> HIDE DEF v
  <2>1. l = Append(s, v)
    BY <1>2, AppendIsConcat DEF v
  <2> QED
    BY <1>2, <2>1, AppendProperties DEF v
<1> HIDE DEF b, l
<1>5. ASSUME b = s PROVE p = l
  <2>1. \A i \in 1 .. Len(p) : p[i] = l[i]
    BY <1>1, <1>3, <1>4, <1>5
  <2> QED
    BY <1>4, <2>1, SeqEqual
<1>6. ASSUME p = l PROVE b = s
  <2>1. \A i \in 1 .. Len(b) : b[i] = s[i]
    BY <1>3, <1>4, <1>6
  <2> QED
    BY <1>3, <2>1, SeqEqual
<1>7. b = s <=> p = l
  BY <1>5, <1>6
<1> QED
  BY <1>2, <1>7 DEF b, l, v

LEMMA LastChanged ==
    ASSUME NEW S, NEW b \in Seq(S), NEW p \in Seq(S), p # <<>>, NEW x \in S
    PROVE  /\ b \o SubSeq(p, 1, Len(p) - 1) \in Seq(S)
           /\ b \o SubSeq([p EXCEPT ![Len(p)] = x], 1, Len(p)) = (b \o SubSeq(p, 1, Len(p) - 1)) \o <<x>>
<1> DEFINE n == Len(p)
           c == SubSeq(p, 1, n - 1)
           e == [p EXCEPT ![n] = x]
           d == SubSeq(e, 1, n)
<1>1. n \in Nat \ {0} /\ n - 1 \in Nat /\ \A i \in 1 .. n : p[i] \in S
  BY EmptySeq
<1>2. c \in Seq(S) /\ Len(c) = n - 1 /\ \A i \in 1 .. n - 1 : c[i] = p[i]
  <2>1. \A i \in 1 .. n - 1 : p[i] \in S
    BY <1>1
  <2>2. Len(c) = IF 1 <= n - 1 THEN (n - 1) - 1 + 1 ELSE 0
    BY <1>1, <2>1, SubSeqProperties
  <2>3. c \in Seq(S) /\ \A i \in 1 .. (n - 1) - 1 + 1 : c[i] = p[1 + i - 1]
    BY <1>1, <2>1, SubSeqProperties
  <2> HIDE DEF c, n
  <2> QED
    BY <1>1, <2>2, <2>3
<1>3. /\ e \in Seq(S) /\ Len(e) = n /\ e[n] = x
      /\ \A i \in 1 .. n - 1 : e[i] = p[i]
  <2>1. e \in [1 .. n -> S] /\ e[n] = x /\ \A i \in 1 .. n - 1 : e[i] = p[i]
    BY <1>1
  <2> HIDE DEF e
  <2> QED
    BY <1>1, <2>1
<1>4. d \in Seq(S) /\ Len(d) = n /\ \A i \in 1 .. n : d[i] = e[i]
  <2> HIDE DEF e, n
  <2>1. \A i \in 1 .. n : e[i] \in S
    BY <1>1, <1>3
  <2> QED
    BY <1>1, <2>1, SubSeqProperties
<1> HIDE DEF n, c, e, d
<1>5. d = c \o <<x>>
  <2> DEFINE l == Append(c, x)
  <2>1. l = c \o <<x>>
    BY <1>2, AppendIsConcat
  <2>2. l \in Seq(S) /\ Len(l) = n /\ l[n] = x /\ \A i \in 1 .. n - 1 : l[i] = c[i]
    BY <1>1, <1>2, AppendProperties
  <2> HIDE DEF l
  <2>3. ASSUME NEW i \in 1 .. n PROVE d[i] = l[i]
    <3>1. CASE i = n
      BY <1>3, <1>4, <2>2, <3>1
    <3>2. CASE i # n
      <4> i \in 1 .. n - 1
        BY <1>1, <3>2
      <4> QED
        BY <1>2, <1>3, <1>4, <2>2
    <3> QED
      BY <3>1, <3>2
  <2> QED
    BY <1>4, <2>1, <2>2, <2>3, SeqEqual
<1>6. b \o c \in Seq(S)
  BY <1>2, ConcatProperties
<1>7. b \o d = (b \o c) \o <<x>>
  <2>1. <<x>> \in Seq(S)
    OBVIOUS
  <2> QED
    BY <1>2, <1>5, <2>1, ConcatAssociative
<1> QED
  BY <1>6, <1>7 DEF n, c, e, d

LEMMA OneMore ==
    ASSUME NEW S, NEW s \in Seq(S), NEW x \in S
    PROVE  Len(s \o <<x>>) = Len(s) + 1 /\ (s \o <<x>>)[Len(s) + 1] = x
<1>1. s \o <<x>> = Append(s, x)
  BY AppendIsConcat
<1> QED
  BY <1>1, AppendProperties

LEMMA StartIn ==
    ASSUME NEW S, NEW s \in Seq(S), NEW n \in Nat, n <= Len(s)
    PROVE  SubSeq(s, 1, n) \in Seq(S)
<1>1. \A i \in 1 .. n : s[i] \in S
  OBVIOUS
<1> QED
  BY <1>1, SubSeqProperties

LEMMA NamesAre ==
    ASSUME NEW t, WellNamed(t), NEW s \in Seq(STRING)
    PROVE  /\ \A x : x \in NamesBelow(t, s) <=>
                        x \in STRING /\ \E e \in Processed(t) : PathsOf(t)[e] = s \o <<x>>
           /\ \A e \in DOMAIN t.decls : \A x \in STRING :
                 PathsOf(t)[e] = s \o <<x>> => PathsOf(t)[e][Len(PathsOf(t)[e])] = x
<1>1. \A e \in DOMAIN t.decls : PathsOf(t)[e] \in Seq(STRING)
  <2> \A e \in DOMAIN t.decls : e \in 0 .. Len(t.decls)
    BY FileParts
  <2> QED
    BY PathsTyped
<1>2. Processed(t) \subseteq DOMAIN t.decls
  BY ProcessedIs
<1>3. \A x \in STRING : s \o <<x>> = Append(s, x)
  BY AppendIsConcat
<1>4. \A x \in STRING : Len(s \o <<x>>) = Len(s) + 1 /\ (s \o <<x>>)[Len(s) + 1] = x
  BY OneMore
<1>5. ASSUME NEW x \in NamesBelow(t, s)
      PROVE  x \in STRING /\ \E e \in Processed(t) : PathsOf(t)[e] = s \o <<x>>
  <2>1. PICK e \in Processed(t) : /\ Len(PathsOf(t)[e]) = Len(s) + 1 /\ SubSeq(PathsOf(t)[e], 1, Len(s)) = s
                                  /\ x = PathsOf(t)[e][Len(s) + 1]
    BY DEF NamesBelow
  <2> QED
    BY <1>1, <1>2, <2>1, OneLonger
<1>6. ASSUME NEW x \in STRING, NEW e \in Processed(t), PathsOf(t)[e] = s \o <<x>>
      PROVE  x \in NamesBelow(t, s)
  <2>1. Len(PathsOf(t)[e]) = Len(s) + 1 /\ PathsOf(t)[e][Len(s) + 1] = x
    BY <1>4, <1>6
  <2>2. SubSeq(PathsOf(t)[e], 1, Len(s)) = s
    BY <1>1, <1>2, <1>6, <2>1, OneLonger
  <2> QED
    BY <2>1, <2>2 DEF NamesBelow
<1>7. ASSUME NEW e \in DOMAIN t.decls, NEW x \in STRING, PathsOf(t)[e] = s \o <<x>>
      PROVE  PathsOf(t)[e][Len(PathsOf(t)[e])] = x
  BY <1>4, <1>7
<1> QED
  BY <1>5, <1>6, <1>7

(* What is offered at the end of a name is what can be there.                *)
LEMMA SuitableHolds ==
    ASSUME ProjectFiles(texts)
    PROVE  Suitable
<1> DEFINE all == UNION {{PathsOf(texts[g])[e][Len(PathsOf(texts[g])[e])] : e \in DOMAIN texts[g].decls} :
                            g \in DOMAIN texts}
<1> SUFFICES ASSUME NEW f \in DOMAIN texts, NEW p \in References(texts[f])
             PROVE  LET ref == texts[f].decls[p[1]].refs[p[2]]
                        n == Len(ref.path)
                        changed(name) == [ref EXCEPT !.path[n] = name]
                    IN  (ref.prefix = <<>> \/ ref.prefix[1] \notin Underscored) =>
                           Completions(texts, f, p[1], ref) =
                              {x \in all : \E m \in Meant(texts, f, p[1], changed(x), n) :
                                               m.decl \in Processed(texts[m.file])}
  BY DEF Suitable
<1> DEFINE t == texts[f]
           ref == t.decls[p[1]].refs[p[2]]
           n == Len(ref.path)
           changed(name) == [ref EXCEPT !.path[n] = name]
           d == p[1]
           scope == Full(t, d, ref, n - 1)
           right == {x \in all : \E m \in Meant(texts, f, d, changed(x), n) : m.decl \in Processed(texts[m.file])}
<1> SUFFICES ASSUME ref.prefix = <<>> \/ ref.prefix[1] \notin Underscored
             PROVE  Completions(texts, f, d, ref) = right
  OBVIOUS
<1>1. WellNamed(t)
  BY DEF ProjectFiles
<1>2. d \in Processed(t) /\ p[2] \in DOMAIN t.decls[d].refs
  <2>1. PICK i \in Processed(t) : \E r \in DOMAIN t.decls[i].refs : p = <<i, r>>
    BY ReferencesAre
  <2>2. PICK r \in DOMAIN t.decls[i].refs : p = <<i, r>>
    BY <2>1
  <2>3. p[1] = i /\ p[2] = r
    BY <2>2
  <2> QED
    BY <2>3
<1>3. d \in DOMAIN t.decls /\ t.parses
  BY <1>1, <1>2, ProcessedIs
<1>4. /\ ref \in WrittenRef /\ ref.path \in Seq(STRING) /\ n \in Nat \ {0}
      /\ DOMAIN ref.path = 1 .. n
  <2> DEFINE r == p[2]
             HasName == NamedByPath(t.decls[d].refs[r])
  <2>1. d \in DOMAIN t.decls /\ r \in DOMAIN t.decls[d].refs
    BY <1>2, <1>3
  <2>2. HasName
    <3> HIDE DEF d, r, t, right, changed, scope, all
    <3> QED
      BY <1>1, <2>1, RefNamed
  <2> QED
    BY <2>2 DEF NamedByPath
<1>5. Stem(t, d, ref) \in Seq(STRING)
  <2>1. d \in 0 .. Len(t.decls)
    BY <1>1, <1>3, FileParts
  <2>2. PathsOf(t)[d] \in Seq(STRING) /\ <<>> \in Seq(STRING)
    BY <1>1, <2>1, PathsTyped
  <2> QED
    BY <2>2 DEF Stem
<1>6. ref.path # <<>>
  BY <1>4
<1>7. ASSUME NEW x \in STRING
      PROVE  /\ NamePackage(texts, t, changed(x)) = NamePackage(texts, t, ref)
             /\ NamePath(t, d, changed(x), n) = scope \o <<x>>
             /\ scope \in Seq(STRING)
  <2> DEFINE path == ref.path
             r == ref.relative
             c == changed(x)
             new == [path EXCEPT ![n] = x]
  <2>1. c.prefix = ref.prefix /\ c.relative = r /\ c.path = new
    <3> HIDE DEF ref
    <3> QED
      BY <1>4 DEF WrittenRef
  <2>2. NamePackage(texts, t, c) = NamePackage(texts, t, ref)
    <3> HIDE DEF c, ref
    <3> QED
      BY <2>1 DEF NamePackage
  <2>3. NamePath(t, d, c, n) = Stem(t, d, ref) \o SubSeq(new, 1, n)
    <3> HIDE DEF c, ref, new
    <3> QED
      BY <2>1 DEF NamePath, Stem
  <2>4. /\ Stem(t, d, ref) \o SubSeq(path, 1, n - 1) \in Seq(STRING)
        /\ Stem(t, d, ref) \o SubSeq(new, 1, n) = (Stem(t, d, ref) \o SubSeq(path, 1, n - 1)) \o <<x>>
    <3> DEFINE b == Stem(t, d, ref)
    <3>1. b \in Seq(STRING) /\ path \in Seq(STRING) /\ path # <<>> /\ x \in STRING
      BY <1>4, <1>5, <1>6
    <3> HIDE DEF b, path, n, t, d, ref, new, scope, right, changed, all
    <3>2. /\ b \o SubSeq(path, 1, Len(path) - 1) \in Seq(STRING)
          /\ b \o SubSeq([path EXCEPT ![Len(path)] = x], 1, Len(path)) = (b \o SubSeq(path, 1, Len(path) - 1)) \o <<x>>
      BY <3>1, LastChanged
    <3> QED
      BY <3>2 DEF b, path, n, new
  <2>5. scope = Stem(t, d, ref) \o SubSeq(path, 1, n - 1)
    <3> DEFINE c1 == SubSeq(path, 1, n - 1)
    <3>1. <<>> \o c1 = c1
      <4>1. n - 1 \in Nat /\ n - 1 <= n
        <5> HIDE DEF n
        <5> QED
          BY <1>4
      <4>2. c1 \in Seq(STRING)
        <5> HIDE DEF ref
        <5> QED
          BY <1>4, <4>1, StartIn
      <4> HIDE DEF c1
      <4> QED
        BY <4>2, ConcatEmptySeq
    <3> HIDE DEF c1
    <3> QED
      BY <3>1 DEF Full, Stem, c1
  <2> HIDE DEF c, new, ref, scope, n
  <2>6. NamePath(t, d, c, n) = scope \o <<x>> /\ scope \in Seq(STRING)
    BY <2>3, <2>4, <2>5
  <2> QED
    BY <2>2, <2>6 DEF c
<1>8. all \subseteq STRING
  <2>1. ASSUME NEW g \in DOMAIN texts, NEW e \in DOMAIN texts[g].decls
        PROVE  PathsOf(texts[g])[e][Len(PathsOf(texts[g])[e])] \in STRING
    <3>1. WellNamed(texts[g])
      BY DEF ProjectFiles
    <3>2. e \in 0 .. Len(texts[g].decls) /\ e # 0
      BY <3>1, FileParts
    <3>3. PathsOf(texts[g])[e] \in Seq(STRING) /\ PathsOf(texts[g])[e] # <<>>
      BY <3>1, <3>2, PathsTyped
    <3> QED
      BY <3>3, LastIn
  <2> QED
    BY <2>1
<1>9. scope \in Seq(STRING)
  <2>1. \E x : x \in STRING
    <3> HIDE DEF ref
    <3> QED
      BY <1>4, <1>6, LastIn
  <2> QED
    BY <1>7, <2>1
<1> HIDE DEF ref, changed, n, scope, all, d
<1>10. ASSUME NEW q, NamePackage(texts, t, ref) = {q}, q \in PackagesOf(texts)
       PROVE  right = NamesBelow(texts[FileOf(texts, q)], scope)
  <2> DEFINE g == FileOf(texts, q)
  <2>1. g \in DOMAIN texts /\ WellNamed(texts[g])
    BY <1>10, FilesFound DEF ProjectFiles
  <2>2. ASSUME NEW x \in STRING
        PROVE  (\E m \in Meant(texts, f, d, changed(x), n) : m.decl \in Processed(texts[m.file]))
                 <=> \E e \in Processed(texts[g]) : PathsOf(texts[g])[e] = scope \o <<x>>
    <3> DEFINE path == scope \o <<x>>
    <3>1. Meant(texts, f, d, changed(x), n) = Named(texts, q, path)
      BY <1>7, <1>10, MeantIs
    <3> HIDE DEF path
    <3>2. ASSUME NEW m \in Named(texts, q, path), m.decl \in Processed(texts[m.file])
          PROVE  m.decl \in Processed(texts[g]) /\ PathsOf(texts[g])[m.decl] = path
      BY <1>10, <3>2, NamedOnly
    <3>3. ASSUME NEW e \in Processed(texts[g]), PathsOf(texts[g])[e] = path
          PROVE  \E m \in Named(texts, q, path) : m.decl \in Processed(texts[m.file])
      <4> DEFINE m == [file |-> g, decl |-> e]
      <4>1. e \in DOMAIN texts[g].decls
        BY <2>1, ProcessedIs
      <4>2. m \in Named(texts, q, path)
        BY <3>3, <4>1 DEF Named
      <4>3. m.file = g /\ m.decl = e
        OBVIOUS
      <4> QED
        BY <4>2, <4>3
    <3>4. (\E m \in Named(texts, q, path) : m.decl \in Processed(texts[m.file]))
            <=> \E e \in Processed(texts[g]) : PathsOf(texts[g])[e] = path
      BY <3>2, <3>3
    <3> QED
      BY <3>1, <3>4 DEF path
  <2>3. ASSUME NEW x \in NamesBelow(texts[g], scope) PROVE x \in right
    <3>1. x \in STRING
      BY <1>9, <2>1, NamesAre
    <3>2. PICK e \in Processed(texts[g]) : PathsOf(texts[g])[e] = scope \o <<x>>
      BY <1>9, <2>1, NamesAre
    <3>3. e \in DOMAIN texts[g].decls
      BY <2>1, ProcessedIs
    <3>4. PathsOf(texts[g])[e][Len(PathsOf(texts[g])[e])] = x
      BY <1>9, <2>1, <3>1, <3>2, <3>3, NamesAre
    <3>5. x \in all
      BY <2>1, <3>3, <3>4 DEF all
    <3> QED
      BY <2>2, <3>1, <3>2, <3>5
  <2>4. ASSUME NEW x \in right PROVE x \in NamesBelow(texts[g], scope)
    <3>1. x \in STRING
      BY <1>8
    <3>2. \E e \in Processed(texts[g]) : PathsOf(texts[g])[e] = scope \o <<x>>
      BY <2>2, <3>1
    <3> QED
      BY <1>9, <2>1, <3>1, <3>2, NamesAre
  <2> QED
    BY <2>3, <2>4
<1>11. ASSUME NamePackage(texts, t, ref) = {} PROVE right = {}
  <2>1. \A x \in all : Meant(texts, f, d, changed(x), n) = {}
    BY <1>7, <1>8, <1>11, MeantIs
  <2> QED
    BY <2>1
<1>12. /\ NamePackage(texts, t, ref) \subseteq PackagesOf(texts)
       /\ \A q, r \in NamePackage(texts, t, ref) : q = r
  BY PackageLeads
<1> HIDE DEF right
<1>13. CASE ref.prefix = <<>>
  <2>1. Completions(texts, f, d, ref) = NamesBelow(t, scope)
    BY <1>13 DEF Completions, scope, n
  <2>2. NamePackage(texts, t, ref) = {t.package} /\ t.package \in PackagesOf(texts) /\ FileOf(texts, t.package) = f
    BY <1>13, FilesFound DEF NamePackage
  <2> QED
    BY <1>10, <2>1, <2>2
<1>14. CASE ref.prefix # <<>>
  <2>1. ref.prefix[1] \notin Underscored
    BY <1>14
  <2>2. Completions(texts, f, d, ref) =
            UNION {NamesBelow(texts[FileOf(texts, q)], scope) : q \in PrefixOf(texts, t, ref.prefix[1])}
    BY <1>14, <2>1 DEF Completions, scope, n
  <2>3. PrefixOf(texts, t, ref.prefix[1]) = NamePackage(texts, t, ref)
    BY <1>1, <1>3, <1>14, PrefixLeads DEF NamePackage
  <2>4. CASE NamePackage(texts, t, ref) = {}
    BY <1>11, <2>2, <2>3, <2>4
  <2>5. CASE NamePackage(texts, t, ref) # {}
    <3>1. PICK q : NamePackage(texts, t, ref) = {q} /\ q \in PackagesOf(texts)
      BY <1>12, <2>5
    <3> QED
      BY <1>10, <2>2, <2>3, <3>1
  <2> QED
    BY <2>4, <2>5
<1> QED
  BY <1>13, <1>14

-----------------------------------------------------------------------------
(* Edits that keep files what the compiler accepts.                          *)
LEMMA StaysWellNamed ==
    ASSUME NEW f, NEW t, NEW u, NEW edits, NEW new \in STRING, WellNamed(t), FileAfter(u, t, f, edits, new),
           \A i, j \in DOMAIN t.uses : In(edits, f, UseAt(i)) /\ In(edits, f, UseAt(j)) => i = j,
           \A i, j \in DOMAIN t.uses : In(edits, f, UseAt(i)) => UsePrefix(t.uses[j]) # new,
           \A d, e \in DOMAIN t.decls : In(edits, f, DeclAt(d)) /\ In(edits, f, DeclAt(e)) => d = e,
           \A d, e \in DOMAIN t.decls : In(edits, f, DeclAt(d)) => t.decls[e].name # new,
           \A d \in DOMAIN t.decls : \A r \in DOMAIN t.decls[d].refs :
               In(edits, f, StepAt(d, r, 0)) => t.decls[d].refs[r].prefix # <<>>
    PROVE  WellNamed(u)
<1>1. u \in WrittenFile /\ DOMAIN u.uses = DOMAIN t.uses /\ DOMAIN u.decls = DOMAIN t.decls
  BY DEF FileAfter
<1>2. \A i \in DOMAIN t.uses : UseAfter(u.uses[i], t.uses[i], f, edits, new, i)
  BY DEF FileAfter
<1>3. \A d \in DOMAIN t.decls : DeclAfter(u.decls[d], t.decls[d], f, edits, new, d)
  BY DEF FileAfter
<1>4. ASSUME NEW i \in DOMAIN t.uses PROVE Len(u.uses[i].alias) <= 1
  <2>1. u.uses[i].alias = IF In(edits, f, UseAt(i)) THEN <<new>> ELSE t.uses[i].alias
    BY <1>2 DEF UseAfter
  <2>2. Len(t.uses[i].alias) <= 1 /\ Len(<<new>>) <= 1
    BY DEF WellNamed
  <2> QED
    BY <2>1, <2>2
<1>5. ASSUME NEW i \in DOMAIN t.uses, NEW j \in DOMAIN t.uses, UsePrefix(u.uses[i]) = UsePrefix(u.uses[j])
      PROVE  i = j
  <2>1. UsePrefix(t.uses[i]) = UsePrefix(t.uses[j]) => i = j
    BY DEF WellNamed, NamedOnce
  <2>2. \A k \in DOMAIN t.uses :
            UsePrefix(u.uses[k]) = IF In(edits, f, UseAt(k)) THEN new ELSE UsePrefix(t.uses[k])
    BY <1>2 DEF UseAfter
  <2> QED
    BY <1>5, <2>1, <2>2
<1>6. \A d \in DOMAIN t.decls :
          /\ u.decls[d].parent = t.decls[d].parent
          /\ u.decls[d].name = IF In(edits, f, DeclAt(d)) THEN new ELSE t.decls[d].name
          /\ DOMAIN u.decls[d].refs = DOMAIN t.decls[d].refs
          /\ \A r \in DOMAIN t.decls[d].refs :
                RefAfter(u.decls[d].refs[r], t.decls[d].refs[r], f, edits, new, d, r)
  BY <1>3 DEF DeclAfter
<1>7. ASSUME NEW d \in DOMAIN t.decls, NEW e \in DOMAIN t.decls,
             u.decls[d].parent = u.decls[e].parent, u.decls[d].name = u.decls[e].name
      PROVE  d = e
  <2>1. t.decls[d].parent = t.decls[e].parent /\ t.decls[d].name = t.decls[e].name => d = e
    BY DEF WellNamed, NamedOnce
  <2>2. t.decls[d].parent = t.decls[e].parent
    BY <1>6, <1>7
  <2> QED
    BY <1>6, <1>7, <2>1, <2>2
<1>8. ASSUME NEW d \in DOMAIN t.decls, NEW r \in DOMAIN t.decls[d].refs
      PROVE  RefParses(u.decls[d].refs[r])
  <2> DEFINE old == t.decls[d].refs[r]
             ref == u.decls[d].refs[r]
  <2>1. /\ ref.relative = old.relative
        /\ ref.prefix = IF In(edits, f, StepAt(d, r, 0)) THEN <<new>> ELSE old.prefix
        /\ Len(ref.path) = Len(old.path)
    BY <1>6 DEF RefAfter
  <2>2. Len(old.path) \in Nat \ {0} /\ (old.relative => old.prefix = <<>>)
    BY RefParts
  <2>3. Len(old.prefix) <= 1
    BY DEF WellNamed, RefParses
  <2>4. In(edits, f, StepAt(d, r, 0)) => old.prefix # <<>>
    OBVIOUS
  <2> HIDE DEF ref, old
  <2>5. ref.path # <<>>
    BY <2>1, <2>2
  <2>6. Len(<<new>>) = 1
    OBVIOUS
  <2>7. Len(ref.prefix) <= 1 /\ (ref.relative => ref.prefix = <<>>)
    BY <2>1, <2>2, <2>3, <2>4, <2>6
  <2> QED
    BY <2>5, <2>7 DEF RefParses, ref
<1>9. NamedOnce(u)
  BY <1>1, <1>5, <1>7 DEF NamedOnce
<1>10. \A d \in DOMAIN t.decls : u.decls[d].parent < d
  <2> \A d \in DOMAIN t.decls : t.decls[d].parent < d
    BY DEF WellNamed
  <2> QED
    BY <1>6
<1> QED
  BY <1>1, <1>4, <1>6, <1>8, <1>9, <1>10 DEF WellNamed

PrefixOnly(edits) ==
    /\ \A g, d : ~In(edits, g, DeclAt(d))
    /\ \A g, d, r : \A j \in Nat \ {0} : ~In(edits, g, StepAt(d, r, j))
TypeOnly(edits) ==
    /\ \A g, i : ~In(edits, g, UseAt(i))
    /\ \A g, d, r : ~In(edits, g, StepAt(d, r, 0))

LEMMA StaysUnused ==
    ASSUME NEW f, NEW t, NEW u, NEW edits, NEW new \in STRING, WellNamed(t), FileAfter(u, t, f, edits, new),
           NEW type, NEW prefix, UnusedIn(t, type, prefix),
           new = prefix => TypeOnly(edits), new = type => PrefixOnly(edits)
    PROVE  UnusedIn(u, type, prefix)
<1>1. DOMAIN u.uses = DOMAIN t.uses /\ DOMAIN u.decls = DOMAIN t.decls
  BY DEF FileAfter
<1>2. ASSUME NEW i \in DOMAIN t.uses PROVE UsePrefix(u.uses[i]) # prefix
  <2>1. UsePrefix(u.uses[i]) = IF In(edits, f, UseAt(i)) THEN new ELSE UsePrefix(t.uses[i])
    BY DEF FileAfter, UseAfter
  <2> QED
    BY <2>1 DEF UnusedIn, TypeOnly
<1>3. \A d \in DOMAIN t.decls :
          /\ u.decls[d].name = IF In(edits, f, DeclAt(d)) THEN new ELSE t.decls[d].name
          /\ DOMAIN u.decls[d].refs = DOMAIN t.decls[d].refs
          /\ \A r \in DOMAIN t.decls[d].refs :
                RefAfter(u.decls[d].refs[r], t.decls[d].refs[r], f, edits, new, d, r)
  BY DEF FileAfter, DeclAfter
<1>4. ASSUME NEW d \in DOMAIN t.decls PROVE u.decls[d].name # type
  BY <1>3 DEF UnusedIn, PrefixOnly
<1>5. ASSUME NEW d \in DOMAIN t.decls, NEW r \in DOMAIN t.decls[d].refs
      PROVE  /\ u.decls[d].refs[r].prefix # <<prefix>>
             /\ \A j \in DOMAIN u.decls[d].refs[r].path : u.decls[d].refs[r].path[j] # type
  <2> DEFINE old == t.decls[d].refs[r]
             ref == u.decls[d].refs[r]
  <2>1. /\ ref.prefix = IF In(edits, f, StepAt(d, r, 0)) THEN <<new>> ELSE old.prefix
        /\ ref.path = [j \in 1 .. Len(old.path) |-> IF In(edits, f, StepAt(d, r, j)) THEN new ELSE old.path[j]]
    BY <1>3 DEF RefAfter
  <2>2. DOMAIN old.path = 1 .. Len(old.path) /\ Len(old.path) \in Nat
    BY RefParts
  <2>3. old.prefix # <<prefix>> /\ \A j \in DOMAIN old.path : old.path[j] # type
    BY DEF UnusedIn
  <2> HIDE DEF old, ref
  <2>4. ref.prefix # <<prefix>>
    <3> <<new>> = <<prefix>> => new = prefix
      OBVIOUS
    <3> QED
      BY <2>1, <2>3 DEF TypeOnly
  <2>5. DOMAIN ref.path = 1 .. Len(old.path)
    BY <2>1
  <2>6. ASSUME NEW j \in 1 .. Len(old.path) PROVE ref.path[j] # type
    <3>1. j \in Nat \ {0} /\ j \in DOMAIN old.path
      BY <2>2
    <3>2. ref.path[j] = IF In(edits, f, StepAt(d, r, j)) THEN new ELSE old.path[j]
      BY <2>1
    <3> QED
      BY <2>3, <3>1, <3>2 DEF PrefixOnly
  <2> QED
    BY <2>4, <2>5, <2>6 DEF ref
<1> QED
  BY <1>1, <1>2, <1>3, <1>4, <1>5 DEF UnusedIn

(* Paths after a rename.                                                     *)
LEMMA PathsAlike ==
    ASSUME NEW t, NEW u, WellNamed(t), WellNamed(u), DOMAIN u.decls = DOMAIN t.decls,
           \A d \in DOMAIN t.decls :
               u.decls[d].parent = t.decls[d].parent /\ u.decls[d].name = t.decls[d].name
    PROVE  \A d \in 0 .. Len(t.decls) : PathsOf(u)[d] = PathsOf(t)[d]
<1> DEFINE Bad == {d \in 0 .. Len(t.decls) : PathsOf(u)[d] # PathsOf(t)[d]}
<1>1. SUFFICES ASSUME Bad # {} PROVE FALSE
  OBVIOUS
<1>2. PICK d \in Bad : \A e \in Bad : d <= e
  <2> Bad \subseteq Nat
    OBVIOUS
  <2> HIDE DEF Bad
  <2> QED
    BY <1>1, Least
<1>3. d # 0
  BY <1>2, PathsAre
<1>4. d \in DOMAIN t.decls /\ d \in DOMAIN u.decls
      /\ t.decls[d].parent \in 0 .. Len(t.decls) /\ t.decls[d].parent < d
  BY <1>3, FileParts
<1>5. t.decls[d].parent \notin Bad
  <2> d \in Nat
    OBVIOUS
  <2> HIDE DEF Bad
  <2> QED
    BY <1>2, <1>4
<1>6. PathsOf(u)[t.decls[d].parent] = PathsOf(t)[t.decls[d].parent]
  BY <1>4, <1>5
<1>7. PathsOf(t)[d] = Append(PathsOf(t)[t.decls[d].parent], t.decls[d].name)
  BY <1>4, PathsAre
<1>8. PathsOf(u)[d] = Append(PathsOf(u)[u.decls[d].parent], u.decls[d].name)
  BY <1>4, PathsAre
<1>9. u.decls[d].parent = t.decls[d].parent /\ u.decls[d].name = t.decls[d].name
  BY <1>4
<1>10. PathsOf(u)[d] = PathsOf(t)[d]
  BY <1>6, <1>7, <1>8, <1>9
<1> QED
  BY <1>2, <1>10

LEMMA PathsRenewed ==
    ASSUME NEW t, NEW u, WellNamed(t), WellNamed(u), DOMAIN u.decls = DOMAIN t.decls,
           NEW k \in Seq(STRING), k # <<>>, NEW new \in STRING,
           \A d \in DOMAIN t.decls :
               /\ u.decls[d].parent = t.decls[d].parent
               /\ u.decls[d].name = IF PathsOf(t)[d] = k THEN new ELSE t.decls[d].name
    PROVE  \A d \in 0 .. Len(t.decls) : PathsOf(u)[d] = Renewed(k, new, PathsOf(t)[d])
<1> DEFINE Bad == {d \in 0 .. Len(t.decls) : PathsOf(u)[d] # Renewed(k, new, PathsOf(t)[d])}
<1>1. SUFFICES ASSUME Bad # {} PROVE FALSE
  OBVIOUS
<1>2. PICK d \in Bad : \A e \in Bad : d <= e
  <2> Bad \subseteq Nat
    OBVIOUS
  <2> HIDE DEF Bad
  <2> QED
    BY <1>1, Least
<1>3. d # 0
  <2>1. Renewed(k, new, <<>>) = <<>>
    <3> <<>> \in Seq(STRING)
      OBVIOUS
    <3> QED
      BY RenewedTyped
  <2> QED
    BY <1>2, <2>1, PathsAre
<1> DEFINE p == t.decls[d].parent
           v == t.decls[d].name
           a == PathsOf(t)[p]
<1>4. d \in DOMAIN t.decls /\ d \in DOMAIN u.decls /\ p \in 0 .. Len(t.decls) /\ p < d /\ v \in STRING
  BY <1>3, FileParts
<1>5. p \notin Bad
  <2> d \in Nat
    OBVIOUS
  <2> HIDE DEF Bad, p
  <2> QED
    BY <1>2, <1>4
<1>6. PathsOf(u)[p] = Renewed(k, new, a)
  <2> HIDE DEF p
  <2> QED
    BY <1>4, <1>5
<1>7. PathsOf(t)[d] = Append(a, v)
  BY <1>4, PathsAre
<1>8. PathsOf(u)[d] = Append(PathsOf(u)[u.decls[d].parent], u.decls[d].name)
  BY <1>4, PathsAre
<1>9. u.decls[d].parent = p /\ u.decls[d].name = IF PathsOf(t)[d] = k THEN new ELSE v
  BY <1>4
<1>10. a \in Seq(STRING)
  <2> HIDE DEF p
  <2> QED
    BY <1>4, PathsTyped
<1> HIDE DEF p, v, a
<1>11. PathsOf(u)[d] = Append(Renewed(k, new, a), IF Append(a, v) = k THEN new ELSE v)
  BY <1>6, <1>7, <1>8, <1>9
<1>12. v \in STRING
  BY <1>4
<1> DEFINE w == IF Append(a, v) = k THEN new ELSE v
<1>13. w \in STRING /\ w = IF Append(a, v) = k THEN new ELSE v
  BY <1>12
<1> HIDE DEF w
<1>14. RenewedLast(k, new, a, v, w)
  BY <1>10, <1>12, <1>13, RenewedBelow
<1>15. PathsOf(u)[d] = Renewed(k, new, PathsOf(t)[d])
  BY <1>7, <1>11, <1>13, <1>14 DEF RenewedLast
<1> QED
  BY <1>2, <1>15

LEMMA NotAppended ==
    ASSUME NEW S, NEW a \in Seq(S), NEW v \in S, NEW new, v # new, \A i \in 1 .. Len(a) : a[i] # new
    PROVE  \A i \in 1 .. Len(Append(a, v)) : Append(a, v)[i] # new
<1>1. /\ Len(Append(a, v)) = Len(a) + 1 /\ Append(a, v)[Len(a) + 1] = v /\ Len(a) \in Nat
      /\ \A i \in 1 .. Len(a) : Append(a, v)[i] = a[i]
  BY AppendProperties
<1>2. ASSUME NEW i \in 1 .. Len(a) + 1 PROVE Append(a, v)[i] # new
  <2>1. i = Len(a) + 1 \/ i \in 1 .. Len(a)
    BY <1>1
  <2> QED
    BY <1>1, <2>1
<1> QED
  BY <1>1, <1>2

LEMMA PathsAvoid ==
    ASSUME NEW t, WellNamed(t), NEW new, \A d \in DOMAIN t.decls : t.decls[d].name # new
    PROVE  \A d \in 0 .. Len(t.decls) : \A i \in 1 .. Len(PathsOf(t)[d]) : PathsOf(t)[d][i] # new
<1> DEFINE Good(d) == \A i \in 1 .. Len(PathsOf(t)[d]) : PathsOf(t)[d][i] # new
           Bad == {d \in 0 .. Len(t.decls) : ~Good(d)}
<1>1. SUFFICES ASSUME Bad # {} PROVE FALSE
  OBVIOUS
<1>2. PICK d \in Bad : \A e \in Bad : d <= e
  <2> Bad \subseteq Nat
    OBVIOUS
  <2> HIDE DEF Bad
  <2> QED
    BY <1>1, Least
<1>3. d # 0
  BY <1>2, PathsAre
<1> DEFINE p == t.decls[d].parent
           v == t.decls[d].name
           a == PathsOf(t)[p]
<1>4. d \in DOMAIN t.decls /\ p \in 0 .. Len(t.decls) /\ p < d /\ v \in STRING /\ v # new
  BY <1>3, FileParts
<1>5. p \notin Bad
  <2> d \in Nat
    OBVIOUS
  <2> HIDE DEF Bad, p
  <2> QED
    BY <1>2, <1>4
<1>6. \A i \in 1 .. Len(a) : a[i] # new
  <2> HIDE DEF p
  <2> QED
    BY <1>4, <1>5
<1>7. PathsOf(t)[d] = Append(a, v)
  BY <1>4, PathsAre
<1>8. a \in Seq(STRING)
  <2> HIDE DEF p
  <2> QED
    BY <1>4, PathsTyped
<1> HIDE DEF p, v, a
<1>9. \A i \in 1 .. Len(Append(a, v)) : Append(a, v)[i] # new
  BY <1>4, <1>6, <1>8, NotAppended
<1>10. Good(d)
  BY <1>7, <1>9
<1> QED
  BY <1>2, <1>10

LEMMA NotJoined ==
    ASSUME NEW S, NEW b \in Seq(S), NEW p \in Seq(S), NEW new,
           \A i \in 1 .. Len(b) : b[i] # new, \A i \in 1 .. Len(p) : p[i] # new
    PROVE  \A i \in 1 .. Len(b \o p) : (b \o p)[i] # new
<1>1. Len(b) \in Nat /\ Len(p) \in Nat
  OBVIOUS
<1>2. /\ Len(b \o p) = Len(b) + Len(p)
      /\ \A i \in 1 .. Len(b) + Len(p) : (b \o p)[i] = IF i <= Len(b) THEN b[i] ELSE p[i - Len(b)]
  BY ConcatProperties
<1>3. ASSUME NEW i \in 1 .. Len(b) + Len(p) PROVE (b \o p)[i] # new
  <2>1. CASE i <= Len(b)
    <3> i \in 1 .. Len(b)
      BY <1>1, <2>1
    <3> QED
      BY <1>2, <2>1
  <2>2. CASE ~(i <= Len(b))
    <3> i - Len(b) \in 1 .. Len(p)
      BY <1>1, <2>2
    <3> QED
      BY <1>2, <2>2
  <2> QED
    BY <2>1, <2>2
<1> QED
  BY <1>2, <1>3

-----------------------------------------------------------------------------
(* Two projects that differ in names alone.                                  *)
SamePlaces(T, U) ==
    /\ ProjectFiles(T) /\ ProjectFiles(U) /\ DOMAIN U = DOMAIN T
    /\ \A f \in DOMAIN T : U[f].package = T[f].package /\ DOMAIN U[f].decls = DOMAIN T[f].decls

LEMMA SameFiles ==
    ASSUME NEW T, NEW U, SamePlaces(T, U)
    PROVE  PackagesOf(U) = PackagesOf(T) /\ \A q \in PackagesOf(T) : FileOf(U, q) = FileOf(T, q)
<1>1. PackagesOf(U) = PackagesOf(T)
  BY DEF PackagesOf, SamePlaces
<1>2. ASSUME NEW q \in PackagesOf(T) PROVE FileOf(U, q) = FileOf(T, q)
  <2>1. FileOf(T, q) \in DOMAIN T /\ T[FileOf(T, q)].package = q
    BY FilesFound DEF SamePlaces
  <2>2. FileOf(U, q) \in DOMAIN U /\ U[FileOf(U, q)].package = q
    BY <1>1, FilesFound DEF SamePlaces
  <2> QED
    BY <2>1, <2>2 DEF SamePlaces, ProjectFiles
<1> QED
  BY <1>1, <1>2

SamePrefix(t, u, ref, new) ==
    /\ DOMAIN u.uses = DOMAIN t.uses
    /\ \A i \in DOMAIN t.uses : u.uses[i].package = t.uses[i].package
    /\ ref.prefix = <<>> <=> new.prefix = <<>>
    /\ ref.prefix # <<>> =>
          \A i \in DOMAIN t.uses : UsePrefix(u.uses[i]) = new.prefix[1] <=> UsePrefix(t.uses[i]) = ref.prefix[1]

LEMMA PackageKept ==
    ASSUME NEW T, NEW U, SamePlaces(T, U), NEW f \in DOMAIN T, NEW ref, NEW new,
           SamePrefix(T[f], U[f], ref, new)
    PROVE  NamePackage(U, U[f], new) = NamePackage(T, T[f], ref)
<1>1. WellNamed(T[f]) /\ WellNamed(U[f]) /\ U[f].package = T[f].package /\ PackagesOf(U) = PackagesOf(T)
  BY SameFiles DEF SamePlaces, ProjectFiles
<1>2. CASE ref.prefix = <<>>
  BY <1>1, <1>2 DEF NamePackage, SamePrefix
<1>3. CASE ref.prefix # <<>>
  <2> DEFINE u == U[f].uses
             t == T[f].uses
             x == new.prefix[1]
             y == ref.prefix[1]
  <2>1. LookupPrefix(U, U[f], x) =
            {u[i].package : i \in {i \in DOMAIN u : UsePrefix(u[i]) = x /\ u[i].package \in PackagesOf(U)}}
    BY <1>1, PrefixLeads
  <2>2. LookupPrefix(T, T[f], y) =
            {t[i].package : i \in {i \in DOMAIN t : UsePrefix(t[i]) = y /\ t[i].package \in PackagesOf(T)}}
    BY <1>1, PrefixLeads
  <2>3. NamePackage(U, U[f], new) = LookupPrefix(U, U[f], x) /\ NamePackage(T, T[f], ref) = LookupPrefix(T, T[f], y)
    BY <1>3 DEF NamePackage, SamePrefix
  <2>4. /\ DOMAIN u = DOMAIN t
        /\ \A i \in DOMAIN t : u[i].package = t[i].package /\ (UsePrefix(u[i]) = x <=> UsePrefix(t[i]) = y)
    BY <1>3 DEF SamePrefix
  <2> HIDE DEF u, t, x, y
  <2> QED
    BY <1>1, <2>1, <2>2, <2>3, <2>4
<1> QED
  BY <1>2, <1>3

LEMMA MeaningKept ==
    ASSUME NEW T, NEW U, SamePlaces(T, U), NEW f \in DOMAIN T, NEW d, NEW ref, NEW new, NEW n,
           NamePackage(U, U[f], new) = NamePackage(T, T[f], ref),
           \A q \in NamePackage(T, T[f], ref) : \A e \in DOMAIN T[FileOf(T, q)].decls :
               PathsOf(U[FileOf(T, q)])[e] = NamePath(U[f], d, new, n)
                 <=> PathsOf(T[FileOf(T, q)])[e] = NamePath(T[f], d, ref, n)
    PROVE  Meant(U, f, d, new, n) = Meant(T, f, d, ref, n)
<1>1. /\ NamePackage(T, T[f], ref) \subseteq PackagesOf(T)
      /\ \A q, r \in NamePackage(T, T[f], ref) : q = r
  BY PackageLeads DEF SamePlaces
<1>2. CASE NamePackage(T, T[f], ref) = {}
  BY <1>2, MeantIs
<1>3. CASE NamePackage(T, T[f], ref) # {}
  <2>1. PICK q \in PackagesOf(T) : NamePackage(T, T[f], ref) = {q}
    BY <1>1, <1>3
  <2> DEFINE x == NamePath(U[f], d, new, n)
             y == NamePath(T[f], d, ref, n)
             g == FileOf(T, q)
  <2>2. Meant(U, f, d, new, n) = Named(U, q, x) /\ Meant(T, f, d, ref, n) = Named(T, q, y)
    <3>1. NamePackage(U, U[f], new) = {q}
      BY <2>1
    <3>2. Meant(U, f, d, new, n) = Named(U, q, x)
      BY <3>1, MeantIs
    <3>3. Meant(T, f, d, ref, n) = Named(T, q, y)
      BY <2>1, MeantIs
    <3> QED
      BY <3>2, <3>3
  <2>3. FileOf(U, q) = g /\ g \in DOMAIN T
    BY SameFiles, FilesFound DEF SamePlaces
  <2>4. DOMAIN U[g].decls = DOMAIN T[g].decls
    BY <2>3 DEF SamePlaces
  <2>5. \A e \in DOMAIN T[g].decls : PathsOf(U[g])[e] = x <=> PathsOf(T[g])[e] = y
    BY <2>1
  <2> HIDE DEF x, y
  <2>6. Named(U, q, x) = Named(T, q, y)
    BY <2>3, <2>4, <2>5 DEF Named
  <2> QED
    BY <2>2, <2>6
<1> QED
  BY <1>2, <1>3

-----------------------------------------------------------------------------
(* A file after a rename, and what a rename of a prefix, or of a name at     *)
(* path k of package q, edits.                                               *)
Rewritten(T, U, edits, new) ==
    /\ DOMAIN U = DOMAIN T
    /\ \A f \in DOMAIN T : FileAfter(U[f], T[f], f, edits, new)
PrefixEdits(T, edits, f, p) ==
    /\ \A g, d : ~In(edits, g, DeclAt(d))
    /\ \A g, d, r : \A j \in Nat \ {0} : ~In(edits, g, StepAt(d, r, j))
    /\ \A g, i : In(edits, g, UseAt(i)) => g = f
    /\ \A g, d, r : In(edits, g, StepAt(d, r, 0)) => g = f /\ T[f].decls[d].refs[r].prefix = <<p>>
    /\ \A i \in DOMAIN T[f].uses : In(edits, f, UseAt(i)) <=> UsePrefix(T[f].uses[i]) = p
    /\ \A d, r : <<d, r>> \in References(T[f]) =>
          (In(edits, f, StepAt(d, r, 0)) <=> T[f].decls[d].refs[r].prefix = <<p>>)

LEMMA PrefixOnce ==
    ASSUME NEW t, WellNamed(t), NEW p
    PROVE  /\ \A i \in DOMAIN t.uses : UsePrefix(t.uses[i]) = p
                 <=> t.uses[i].alias = <<p>> \/ i \in ImplicitPrefixes(t, p)
           /\ \A i \in ImplicitPrefixes(t, p) : i \in DOMAIN t.uses /\ i = Max(ImplicitPrefixes(t, p))
<1> DEFINE some == ImplicitPrefixes(t, p)
<1>1. ASSUME NEW i \in DOMAIN t.uses
      PROVE  UsePrefix(t.uses[i]) = p <=> t.uses[i].alias = <<p>> \/ i \in some
  <2>1. t.uses[i].alias \in Seq(STRING) /\ Len(t.uses[i].alias) <= 1
    <3>1. t.uses[i] \in WrittenUse
      BY FileParts
    <3> QED
      BY <3>1 DEF WrittenUse, WellNamed
  <2>2. t.uses[i].alias # <<>> => t.uses[i].alias = <<t.uses[i].alias[1]>>
    BY <2>1, AtMostOne
  <2>3. <<p>> # <<>> /\ <<p>>[1] = p
    OBVIOUS
  <2> QED
    BY <2>2, <2>3 DEF UsePrefix, ImplicitPrefixes
<1>2. some \subseteq DOMAIN t.uses /\ some \subseteq Nat
  BY FileParts DEF ImplicitPrefixes
<1>3. \A i, j \in some : i = j
  BY <1>1, <1>2 DEF WellNamed, NamedOnce
<1> HIDE DEF some
<1>4. \A i \in some : Max(some) \in some
  <2> SUFFICES ASSUME NEW i \in some PROVE Max(some) \in some
    OBVIOUS
  <2>1. \A x \in some : i >= x
    BY <1>2, <1>3
  <2> QED
    BY <2>1 DEF Max
<1> QED
  BY <1>1, <1>2, <1>3, <1>4 DEF some

LEMMA PrefixEdited ==
    ASSUME NEW T, ProjectFiles(T), NEW f \in DOMAIN T, NEW at \in PrefixTriggers(T[f]),
           RenamedPrefix(T, f, at) # {}
    PROVE  /\ ~T[f].readOnly /\ PrefixAt(T[f], at) \in STRING
           /\ PrefixEdits(T, RenamedPrefix(T, f, at), f, PrefixAt(T[f], at))
<1> DEFINE t == T[f]
           p == PrefixAt(t, at)
           edits == RenamedPrefix(T, f, at)
           some == ImplicitPrefixes(t, p)
<1>1. WellNamed(t)
  BY DEF ProjectFiles
<1>2. ~t.readOnly /\ t.parses
  BY DEF PrefixTriggers
<1>3. p \in STRING
  <2>1. CASE \E i \in DOMAIN t.uses : at = UseAt(i)
    <3>1. PICK i \in DOMAIN t.uses : at = UseAt(i)
      BY <2>1
    <3>2. p = UsePrefix(t.uses[i])
      BY <3>1, PlacesApart DEF PrefixAt
    <3>3. t.uses[i] \in WrittenUse
      BY <1>1, FileParts
    <3>4. t.uses[i].last \in STRING /\ t.uses[i].alias \in Seq(STRING) /\ Len(t.uses[i].alias) <= 1
      BY <1>1, <3>3 DEF WrittenUse, WellNamed
    <3>5. t.uses[i].alias # <<>> => t.uses[i].alias[1] \in STRING
      BY <3>4, AtMostOne
    <3> QED
      BY <3>2, <3>4, <3>5 DEF UsePrefix
  <2>2. CASE \E x \in References(t) : at = StepAt(x[1], x[2], 0) /\ t.decls[x[1]].refs[x[2]].prefix # <<>>
    <3>1. PICK x \in References(t) : at = StepAt(x[1], x[2], 0) /\ t.decls[x[1]].refs[x[2]].prefix # <<>>
      BY <2>2
    <3>2. PICK d \in Processed(t) : \E r \in DOMAIN t.decls[d].refs : x = <<d, r>>
      BY ReferencesAre
    <3>3. PICK r \in DOMAIN t.decls[d].refs : x = <<d, r>>
      BY <3>2
    <3>4. at = StepAt(d, r, 0) /\ t.decls[d].refs[r].prefix # <<>>
      BY <3>1, <3>3
    <3>5. p = t.decls[d].refs[r].prefix[1]
      BY <3>4, PlacesApart DEF PrefixAt, RefAt
    <3>6. d \in DOMAIN t.decls
      BY <1>1, ProcessedIs
    <3> QED
      BY <1>1, <3>4, <3>5, <3>6, RefParts
  <2>3. /\ \E i \in DOMAIN t.uses : at = UseAt(i)
        \/ \E x \in References(t) : at = StepAt(x[1], x[2], 0) /\ t.decls[x[1]].refs[x[2]].prefix # <<>>
    BY DEF PrefixTriggers
  <2> QED
    BY <2>1, <2>2, <2>3
<1>4. PrefixRanges(t, p) = PrefixSteps(t, p) \cup Aliases(t, p)
  BY <1>2 DEF PrefixRanges
<1>5. PrefixRanges(t, p) # {}
  BY DEF RenamedPrefix
<1>6. edits = {[file |-> f, at |-> r] : r \in PrefixSteps(t, p) \cup Aliases(t, p)}
              \cup IF some = {} THEN {} ELSE {[file |-> f, at |-> UseAt(Max(some))]}
  BY <1>4, <1>5 DEF RenamedPrefix
<1>7. \A h, x, y, z : [file |-> h, at |-> x] = [file |-> y, at |-> z] <=> h = y /\ x = z
  OBVIOUS
<1> HIDE DEF edits, some, p, t
<1>8. \A g, x : In(edits, g, x) <=> /\ g = f
                                    /\ \/ x \in PrefixSteps(t, p)
                                       \/ x \in Aliases(t, p)
                                       \/ some # {} /\ x = UseAt(Max(some))
  <2> DEFINE A == PrefixSteps(t, p) \cup Aliases(t, p)
             B == IF some = {} THEN {} ELSE {[file |-> f, at |-> UseAt(Max(some))]}
  <2> SUFFICES ASSUME NEW g, NEW x
               PROVE  In(edits, g, x) <=> /\ g = f
                                          /\ \/ x \in PrefixSteps(t, p)
                                             \/ x \in Aliases(t, p)
                                             \/ some # {} /\ x = UseAt(Max(some))
    OBVIOUS
  <2>1. [file |-> g, at |-> x] \in B <=> g = f /\ some # {} /\ x = UseAt(Max(some))
    <3>1. CASE some = {}
      BY <3>1
    <3>2. CASE some # {}
      BY <1>7, <3>2
    <3> QED
      BY <3>1, <3>2
  <2>2. \A z : z \in A <=> z \in PrefixSteps(t, p) \/ z \in Aliases(t, p)
    OBVIOUS
  <2>3. edits = {[file |-> f, at |-> r] : r \in A} \cup B
    BY <1>6
  <2> HIDE DEF A, B
  <2>4. [file |-> g, at |-> x] \in {[file |-> f, at |-> r] : r \in A} <=> g = f /\ x \in A
    <3>1. [file |-> g, at |-> x] \in {[file |-> f, at |-> r] : r \in A}
            <=> \E r \in A : [file |-> g, at |-> x] = [file |-> f, at |-> r]
      OBVIOUS
    <3>2. (\E r \in A : [file |-> g, at |-> x] = [file |-> f, at |-> r]) <=> \E r \in A : g = f /\ x = r
      BY <1>7, Zenon
    <3> QED
      BY <3>1, <3>2
  <2> QED
    BY <2>1, <2>2, <2>3, <2>4 DEF In
<1>9. \A x : x \in Aliases(t, p) <=> \E i \in DOMAIN t.uses : t.uses[i].alias = <<p>> /\ x = UseAt(i)
  BY DEF Aliases
<1>10. \A x : x \in PrefixSteps(t, p) <=>
                 \E d \in Processed(t) : \E r \in DOMAIN t.decls[d].refs :
                     t.decls[d].refs[r].prefix = <<p>> /\ x = StepAt(d, r, 0)
  <2>1. \A x : x \in PrefixSteps(t, p) <=>
                 \E y \in References(t) : t.decls[y[1]].refs[y[2]].prefix = <<p>> /\ x = StepAt(y[1], y[2], 0)
    BY DEF PrefixSteps
  <2>2. \A d, r : <<d, r>>[1] = d /\ <<d, r>>[2] = r
    OBVIOUS
  <2>3. ASSUME NEW x \in PrefixSteps(t, p)
        PROVE  \E d \in Processed(t) : \E r \in DOMAIN t.decls[d].refs :
                   t.decls[d].refs[r].prefix = <<p>> /\ x = StepAt(d, r, 0)
    <3>1. PICK y \in References(t) : t.decls[y[1]].refs[y[2]].prefix = <<p>> /\ x = StepAt(y[1], y[2], 0)
      BY <2>1
    <3>2. PICK d \in Processed(t) : \E r \in DOMAIN t.decls[d].refs : y = <<d, r>>
      BY ReferencesAre
    <3>3. PICK r \in DOMAIN t.decls[d].refs : y = <<d, r>>
      BY <3>2
    <3>4. y[1] = d /\ y[2] = r
      BY <2>2, <3>3
    <3> QED
      BY <3>1, <3>4
  <2>4. ASSUME NEW d \in Processed(t), NEW r \in DOMAIN t.decls[d].refs, t.decls[d].refs[r].prefix = <<p>>
        PROVE  StepAt(d, r, 0) \in PrefixSteps(t, p)
    <3> DEFINE y == <<d, r>>
    <3>1. y \in References(t) /\ y[1] = d /\ y[2] = r
      BY <2>2, ReferencesAre
    <3> HIDE DEF y
    <3> QED
      BY <2>1, <2>4, <3>1
  <2> QED
    BY <2>3, <2>4
<1>11. /\ \A d, e, r, s, i, j : StepAt(d, r, i) = StepAt(e, s, j) <=> d = e /\ r = s /\ i = j
       /\ \A i, j : UseAt(i) = UseAt(j) <=> i = j
       /\ \A i, d, r, j : StepAt(d, r, j) # UseAt(i) /\ DeclAt(i) # StepAt(d, r, j)
       /\ \A i, j : DeclAt(i) # UseAt(j)
  BY DEF StepAt, UseAt, DeclAt
<1>12. ASSUME NEW g, NEW d PROVE ~In(edits, g, DeclAt(d))
  <2>1. DeclAt(d) \notin Aliases(t, p)
    BY <1>9, <1>11
  <2>2. DeclAt(d) \notin PrefixSteps(t, p)
    BY <1>10, <1>11
  <2> QED
    BY <1>8, <1>11, <2>1, <2>2
<1>13. \A g, d, r : \A j \in Nat \ {0} : ~In(edits, g, StepAt(d, r, j))
  BY <1>8, <1>9, <1>10, <1>11
<1>14. \A g, i : In(edits, g, UseAt(i)) => g = f
  BY <1>8
<1>15. \A g, d, r : In(edits, g, StepAt(d, r, 0)) <=>
                        g = f /\ d \in Processed(t) /\ r \in DOMAIN t.decls[d].refs /\ t.decls[d].refs[r].prefix = <<p>>
  <2> SUFFICES ASSUME NEW g, NEW d, NEW r
               PROVE  In(edits, g, StepAt(d, r, 0)) <=>
                        g = f /\ d \in Processed(t) /\ r \in DOMAIN t.decls[d].refs /\ t.decls[d].refs[r].prefix = <<p>>
    OBVIOUS
  <2>3. \A i : StepAt(d, r, 0) # UseAt(i)
    BY <1>11
  <2>1. StepAt(d, r, 0) \notin Aliases(t, p) /\ StepAt(d, r, 0) # UseAt(Max(some))
    BY <1>9, <2>3
  <2>2. StepAt(d, r, 0) \in PrefixSteps(t, p)
          <=> d \in Processed(t) /\ r \in DOMAIN t.decls[d].refs /\ t.decls[d].refs[r].prefix = <<p>>
    BY <1>10, <1>11
  <2> QED
    BY <1>8, <2>1, <2>2
<1>16. ASSUME NEW i \in DOMAIN t.uses PROVE In(edits, f, UseAt(i)) <=> UsePrefix(t.uses[i]) = p
  <2>1. In(edits, f, UseAt(i)) <=> t.uses[i].alias = <<p>> \/ (some # {} /\ i = Max(some))
    BY <1>8, <1>9, <1>10, <1>11, SMTT(30)
  <2>2. UsePrefix(t.uses[i]) = p <=> t.uses[i].alias = <<p>> \/ i \in some
    BY <1>1, PrefixOnce DEF some
  <2>3. \A j \in some : j = Max(some)
    BY <1>1, PrefixOnce DEF some
  <2> QED
    BY <2>1, <2>2, <2>3
<1>17. ASSUME NEW d, NEW r, <<d, r>> \in References(t)
       PROVE  d \in Processed(t) /\ r \in DOMAIN t.decls[d].refs
  <2>1. \A e, s : <<d, r>> = <<e, s>> => d = e /\ r = s
    OBVIOUS
  <2> QED
    BY <1>17, <2>1, ReferencesAre
<1>18. PrefixEdits(T, edits, f, p)
  BY <1>12, <1>13, <1>14, <1>15, <1>16, <1>17 DEF PrefixEdits, t
<1> QED
  BY <1>2, <1>3, <1>18 DEF edits, p, t

(* A name whose place in a project is the one before, in any file.           *)
LEMMA PathAfter ==
    ASSUME NEW t, NEW u, WellNamed(t), NEW d \in DOMAIN t.decls, NEW r \in DOMAIN t.decls[d].refs,
           WellNamed(u), d \in DOMAIN u.decls, r \in DOMAIN u.decls[d].refs
    PROVE  LET ref == t.decls[d].refs[r]
               new == u.decls[d].refs[r]
           IN  /\ NamePath(t, d, ref, Len(ref.path)) = Stem(t, d, ref) \o ref.path
               /\ NamePath(u, d, new, Len(new.path)) = Stem(u, d, new) \o new.path
               /\ Stem(t, d, ref) \in Seq(STRING) /\ Stem(u, d, new) \in Seq(STRING)
<1>1. ASSUME NEW x, WellNamed(x), d \in DOMAIN x.decls, r \in DOMAIN x.decls[d].refs
      PROVE  /\ NamePath(x, d, x.decls[d].refs[r], Len(x.decls[d].refs[r].path))
                    = Stem(x, d, x.decls[d].refs[r]) \o x.decls[d].refs[r].path
             /\ Stem(x, d, x.decls[d].refs[r]) \in Seq(STRING)
  <2> DEFINE ref == x.decls[d].refs[r]
             n == Len(ref.path)
  <2>1. ref.path \in Seq(STRING) /\ n \in Nat \ {0} /\ DOMAIN ref.path = 1 .. n
    BY <1>1, RefParts
  <2>2. n \in 1 .. Len(ref.path)
    BY <2>1
  <2>3. /\ NamePath(x, d, ref, n) = Stem(x, d, ref) \o SubSeq(ref.path, 1, n)
        /\ Stem(x, d, ref) \in Seq(STRING)
    BY <1>1, <2>2, FullIs, ZenonT(30)
  <2>4. SubSeq(ref.path, 1, n) = ref.path
    BY <2>1, WholeOf
  <2> QED
    BY <2>3, <2>4
<1> QED
  BY <1>1

MeansAlike(T, U, g, d, r) ==
    LET ref(X) == X[g].decls[d].refs[r]
        n == Len(ref(U).path)
    IN  Meant(U, g, d, ref(U), n) = Meant(T, g, d, ref(T), n)

(* Renaming a prefix changes no meaning.                                     *)
LEMMA PrefixKeeps ==
    ASSUME NEW T, NEW U, SamePlaces(T, U), NEW edits, NEW new \in STRING, Rewritten(T, U, edits, new),
           NEW f \in DOMAIN T, NEW p \in STRING, PrefixEdits(T, edits, f, p),
           \A g \in DOMAIN T : \E type : UnusedIn(T[g], type, new),
           NEW g \in DOMAIN T, NEW d, NEW r, <<d, r>> \in References(T[g])
    PROVE  MeansAlike(T, U, g, d, r)
<1> DEFINE ref(X) == X[g].decls[d].refs[r]
           n == Len(ref(U).path)
<1>1. WellNamed(T[g]) /\ WellNamed(U[g])
  BY DEF SamePlaces, ProjectFiles
<1>2. d \in DOMAIN T[g].decls /\ r \in DOMAIN T[g].decls[d].refs
  <2>1. \A e, s : <<d, r>> = <<e, s>> => d = e /\ r = s
    OBVIOUS
  <2>2. d \in Processed(T[g]) /\ r \in DOMAIN T[g].decls[d].refs
    BY <2>1, ReferencesAre
  <2> QED
    BY <1>1, <2>2, ProcessedIs
<1>3. \A h \in DOMAIN T : FileAfter(U[h], T[h], h, edits, new)
  BY DEF Rewritten
<1>4. RefAfter(ref(U), ref(T), g, edits, new, d, r)
  BY <1>2, <1>3 DEF FileAfter, DeclAfter
<1>5. \A h \in DOMAIN T : \A e \in 0 .. Len(T[h].decls) : PathsOf(U[h])[e] = PathsOf(T[h])[e]
  <2> SUFFICES ASSUME NEW h \in DOMAIN T
               PROVE  \A e \in 0 .. Len(T[h].decls) : PathsOf(U[h])[e] = PathsOf(T[h])[e]
    OBVIOUS
  <2>1. WellNamed(T[h]) /\ WellNamed(U[h]) /\ DOMAIN U[h].decls = DOMAIN T[h].decls
    BY DEF SamePlaces, ProjectFiles
  <2>2. \A e \in DOMAIN T[h].decls : /\ U[h].decls[e].parent = T[h].decls[e].parent
                                     /\ U[h].decls[e].name = T[h].decls[e].name
    BY <1>3 DEF FileAfter, DeclAfter, PrefixEdits
  <2> QED
    BY <2>1, <2>2, PathsAlike
<1>6. ref(U).path = ref(T).path /\ ref(U).relative = ref(T).relative
  <2>1. ref(T).path \in Seq(STRING) /\ DOMAIN ref(T).path = 1 .. Len(ref(T).path) /\ Len(ref(T).path) \in Nat
    BY <1>1, <1>2, RefParts
  <2>2. \A j \in 1 .. Len(ref(T).path) : ~In(edits, g, StepAt(d, r, j))
    BY <2>1 DEF PrefixEdits
  <2>3. /\ ref(U).path = [j \in 1 .. Len(ref(T).path) |->
                             IF In(edits, g, StepAt(d, r, j)) THEN new ELSE ref(T).path[j]]
        /\ ref(U).relative = ref(T).relative
    BY <1>4 DEF RefAfter
  <2> HIDE DEF ref
  <2>4. ref(U).path = [j \in 1 .. Len(ref(T).path) |-> ref(T).path[j]]
    BY <2>2, <2>3
  <2>5. ref(T).path = [j \in 1 .. Len(ref(T).path) |-> ref(T).path[j]]
    BY <2>1
  <2> QED
    BY <2>3, <2>4, <2>5
<1>7. NamePath(U[g], d, ref(U), n) = NamePath(T[g], d, ref(T), n)
  <2>1. d \in 0 .. Len(T[g].decls)
    BY <1>1, <1>2, FileParts
  <2>2. PathsOf(U[g])[d] = PathsOf(T[g])[d]
    BY <1>5, <2>1
  <2> QED
    BY <1>6, <2>2 DEF NamePath
<1>8. NamePackage(U, U[g], ref(U)) = NamePackage(T, T[g], ref(T))
  <2>1. DOMAIN U[g].uses = DOMAIN T[g].uses
    BY <1>3 DEF FileAfter
  <2>2. \A i \in DOMAIN T[g].uses :
            /\ U[g].uses[i].package = T[g].uses[i].package
            /\ UsePrefix(U[g].uses[i]) = IF In(edits, g, UseAt(i)) THEN new ELSE UsePrefix(T[g].uses[i])
    BY <1>3 DEF FileAfter, UseAfter
  <2>3. ref(U).prefix = IF In(edits, g, StepAt(d, r, 0)) THEN <<new>> ELSE ref(T).prefix
    BY <1>4 DEF RefAfter
  <2>4. /\ \A i \in DOMAIN T[g].uses : UsePrefix(T[g].uses[i]) # new
        /\ ref(T).prefix # <<new>>
    BY <1>2 DEF UnusedIn
  <2>5. /\ In(edits, g, StepAt(d, r, 0)) <=> g = f /\ ref(T).prefix = <<p>>
        /\ \A i \in DOMAIN T[g].uses : In(edits, g, UseAt(i)) <=> g = f /\ UsePrefix(T[g].uses[i]) = p
    BY DEF PrefixEdits
  <2>6. ref(T).prefix # <<>> => ref(T).prefix = <<ref(T).prefix[1]>>
    BY <1>1, <1>2, RefParts
  <2>7. \A x, y : <<x>> # <<>> /\ <<x>>[1] = x /\ (<<x>> = <<y>> <=> x = y)
    OBVIOUS
  <2> DEFINE a == ref(T).prefix
             b == ref(U).prefix
  <2>8. b = IF g = f /\ a = <<p>> THEN <<new>> ELSE a
    BY <2>3, <2>5
  <2>9. a # <<new>> /\ (a # <<>> => a = <<a[1]>>)
    BY <2>4, <2>6
  <2>10. a = <<>> <=> b = <<>>
    <3> HIDE DEF a, b
    <3> QED
      BY <2>7, <2>8
  <2>11. ASSUME a # <<>>, NEW i \in DOMAIN T[g].uses
         PROVE  UsePrefix(U[g].uses[i]) = b[1] <=> UsePrefix(T[g].uses[i]) = a[1]
    <3>1. UsePrefix(U[g].uses[i]) = IF g = f /\ UsePrefix(T[g].uses[i]) = p THEN new ELSE UsePrefix(T[g].uses[i])
      BY <2>2, <2>5
    <3>2. UsePrefix(T[g].uses[i]) # new
      BY <2>4
    <3> HIDE DEF a, b
    <3>3. a[1] # new
      BY <2>7, <2>9, <2>11
    <3>4. CASE g = f /\ a = <<p>>
      <4>1. b[1] = new /\ a[1] = p
        BY <2>7, <2>8, <3>4
      <4> QED
        BY <3>1, <3>2, <3>4, <4>1
    <3>5. CASE ~(g = f /\ a = <<p>>)
      <4>1. b = a
        BY <2>8, <3>5
      <4>2. g = f => a[1] # p
        BY <2>9, <2>11, <3>5
      <4> QED
        BY <3>1, <3>3, <4>1, <4>2
    <3> QED
      BY <3>4, <3>5
  <2>12. /\ \A i \in DOMAIN T[g].uses : U[g].uses[i].package = T[g].uses[i].package
         /\ ref(T).prefix = <<>> <=> ref(U).prefix = <<>>
         /\ ref(T).prefix # <<>> =>
                \A i \in DOMAIN T[g].uses : UsePrefix(U[g].uses[i]) = ref(U).prefix[1]
                                             <=> UsePrefix(T[g].uses[i]) = ref(T).prefix[1]
    BY <2>2, <2>10, <2>11
  <2> HIDE DEF ref
  <2>13. SamePrefix(T[g], U[g], ref(T), ref(U))
    BY <2>1, <2>12 DEF SamePrefix
  <2> QED
    BY <2>13, PackageKept
<1>9. \A q \in NamePackage(T, T[g], ref(T)) : \A e \in DOMAIN T[FileOf(T, q)].decls :
          PathsOf(U[FileOf(T, q)])[e] = PathsOf(T[FileOf(T, q)])[e]
  <2> SUFFICES ASSUME NEW q \in NamePackage(T, T[g], ref(T)), NEW e \in DOMAIN T[FileOf(T, q)].decls
               PROVE  PathsOf(U[FileOf(T, q)])[e] = PathsOf(T[FileOf(T, q)])[e]
    OBVIOUS
  <2>1. q \in PackagesOf(T)
    BY PackageLeads DEF SamePlaces
  <2>2. FileOf(T, q) \in DOMAIN T /\ WellNamed(T[FileOf(T, q)])
    BY <2>1, FilesFound DEF SamePlaces, ProjectFiles
  <2>3. e \in 0 .. Len(T[FileOf(T, q)].decls)
    BY <2>2, FileParts
  <2> QED
    BY <1>5, <2>2, <2>3
<1> HIDE DEF ref, n
<1>10. Meant(U, g, d, ref(U), n) = Meant(T, g, d, ref(T), n)
  BY <1>7, <1>8, <1>9, MeaningKept
<1> QED
  BY <1>10 DEF MeansAlike, ref, n

-----------------------------------------------------------------------------
TypeEdits(T, edits, q, k) ==
    /\ \A g, i : ~In(edits, g, UseAt(i))
    /\ \A g, d, r : ~In(edits, g, StepAt(d, r, 0))
    /\ \A g, d : In(edits, g, DeclAt(d)) <=>
           g = FileOf(T, q) /\ d \in Processed(T[FileOf(T, q)]) /\ PathsOf(T[FileOf(T, q)])[d] = k
    /\ \A g \in DOMAIN T : ~T[g].readOnly =>
           \A d, r : <<d, r>> \in References(T[g]) =>
               \A j \in 1 .. Len(T[g].decls[d].refs[r].path) :
                   In(edits, g, StepAt(d, r, j)) <=>
                       /\ q \in NamePackage(T, T[g], T[g].decls[d].refs[r])
                       /\ Full(T[g], d, T[g].decls[d].refs[r], j) = k

(* What a type rename is of: it is registered, and can be changed.           *)
Target(T, f, at, q, k) ==
    /\ KeyAt(T, T[f], at) = {[package |-> q, path |-> k]}
    /\ q \in PackagesOf(T) /\ ~T[FileOf(T, q)].readOnly
    /\ k \in Seq(STRING) /\ k # <<>>
Unregistered(T, f, at) ==
    at.k = "ref" /\ \E m \in Meant(T, f, at.i, RefAt(T[f], at), at.step) : m.decl \notin Processed(T[m.file])
AllRegistered(T, q, k) ==
    \A e \in DOMAIN T[FileOf(T, q)].decls :
        PathsOf(T[FileOf(T, q)])[e] = k => e \in Processed(T[FileOf(T, q)])

LEMMA PartsOfPlace ==
    ASSUME NEW t, NEW d, NEW r, <<d, r>> \in References(t)
    PROVE  d \in Processed(t) /\ r \in DOMAIN t.decls[d].refs
<1>1. \A e, s : <<d, r>> = <<e, s>> => d = e /\ r = s
  OBVIOUS
<1> QED
  BY <1>1, ReferencesAre

LEMMA TypeTarget ==
    ASSUME NEW T, ProjectFiles(T), NEW f \in DOMAIN T, NEW at \in TypeTriggers(T, T[f])
    PROVE  \E q, k : Target(T, f, at, q, k) /\ (Unregistered(T, f, at) \/ AllRegistered(T, q, k))
<1> DEFINE t == T[f]
<1>1. WellNamed(t) /\ ~t.readOnly /\ t.package \in PackagesOf(T) /\ FileOf(T, t.package) = f
  BY FilesFound DEF ProjectFiles, TypeTriggers
<1>2. \/ \E d \in Processed(t) : at = DeclAt(d)
      \/ at \in Steps(t) /\ PackageOf(T, t, RefAt(t, at)) # {}
         /\ (RefAt(t, at).relative \/ Renamable(T, t, RefAt(t, at)))
  BY DEF TypeTriggers
<1>3. CASE \E d \in Processed(t) : at = DeclAt(d)
  <2>1. PICK d \in Processed(t) : at = DeclAt(d)
    BY <1>3
  <2> DEFINE q == t.package
             k == PathsOf(t)[d]
  <2>2. d \in DOMAIN t.decls /\ d \in 0 .. Len(t.decls) /\ d # 0
    <3>1. d \in DOMAIN t.decls
      BY <1>1, <2>1, ProcessedIs
    <3>2. Len(t.decls) \in Nat /\ DOMAIN t.decls = 1 .. Len(t.decls)
      BY <1>1, FileParts
    <3> QED
      BY <3>1, <3>2
  <2>3. k \in Seq(STRING) /\ k # <<>>
    BY <1>1, <2>2, PathsTyped
  <2>4. at \notin Steps(t)
    BY <2>1, PlacesApart, StepsAre
  <2>5. \A x, y : DeclKey(t, at, x, y) <=> x = q /\ y = k
    BY <2>1, PlacesApart DEF DeclKey
  <2>6. \A x, y : [package |-> x, path |-> y] \in KeyAt(T, t, at) <=> x = q /\ y = k
    BY <2>4, <2>5, KeysAre DEF StepKey
  <2> HIDE DEF q, k
  <2>7. KeyAt(T, t, at) = {[package |-> q, path |-> k]}
    <3>1. [package |-> q, path |-> k] \in KeyAt(T, t, at)
      BY <2>6
    <3>2. ASSUME NEW x \in KeyAt(T, t, at) PROVE x = [package |-> q, path |-> k]
      <4>1. x = [package |-> x.package, path |-> x.path]
        BY KeysAre
      <4>2. x.package = q /\ x.path = k
        BY <2>6, <4>1
      <4> QED
        BY <4>1, <4>2
    <3> QED
      BY <3>1, <3>2
  <2>8. AllRegistered(T, q, k)
    <3>1. \A e \in DOMAIN t.decls : PathsOf(t)[e] = k => e = d
      BY <1>1, <2>2, PathsDiffer DEF k
    <3> QED
      BY <1>1, <3>1 DEF AllRegistered, q
  <2>9. Target(T, f, at, q, k)
    BY <1>1, <2>3, <2>7 DEF Target, q, t
  <2> QED
    BY <2>8, <2>9
<1>4. CASE at \in Steps(t) /\ PackageOf(T, t, RefAt(t, at)) # {}
           /\ (RefAt(t, at).relative \/ Renamable(T, t, RefAt(t, at)))
  <2> DEFINE ref == RefAt(t, at)
             k == Full(t, at.i, ref, at.step)
  <2>1. PICK q \in PackageOf(T, t, ref) : TRUE
    BY <1>4
  <2>2. StepKey(T, t, at, q, k)
    BY <1>4, <2>1 DEF StepKey
  <2>3. /\ at.k = "ref" /\ at.i \in DOMAIN t.decls /\ at.r \in DOMAIN t.decls[at.i].refs
        /\ ref = t.decls[at.i].refs[at.r] /\ at.step \in 1 .. Len(ref.path)
    BY <1>4, StepIs
  <2>4. /\ q \in PackagesOf(T)
        /\ Meant(T, f, at.i, ref, at.step) = Named(T, q, k)
        /\ KeyAt(T, t, at) = {[package |-> q, path |-> k]}
    BY <1>4, <2>2, StepIs
  <2>5. k \in Seq(STRING) /\ k # <<>>
    <3> DEFINE d == at.i
               r == at.r
               j == at.step
    <3>1. d \in DOMAIN t.decls /\ r \in DOMAIN t.decls[d].refs /\ j \in 1 .. Len(t.decls[d].refs[r].path)
      BY <2>3
    <3>2. Full(t, d, t.decls[d].refs[r], j) \in Seq(STRING) /\ Full(t, d, t.decls[d].refs[r], j) # <<>>
      <4> HIDE DEF d, r, j, t, k, ref
      <4> QED
        BY <1>1, <3>1, FullLong
    <3> QED
      BY <2>3, <3>2
  <2>6. ~T[FileOf(T, q)].readOnly
    <3>1. CASE ref.relative
      <4>3. t.decls[at.i].refs[at.r].relative => t.decls[at.i].refs[at.r].prefix = <<>>
        BY <1>1, <2>3, RefParts
      <4>1. ref.prefix = <<>>
        BY <2>3, <3>1, <4>3
      <4>2. q = t.package
        BY <2>1, <4>1 DEF PackageOf
      <4> QED
        BY <1>1, <4>2
    <3>2. CASE Renamable(T, t, ref)
      BY <2>1, <3>2 DEF Renamable
    <3> QED
      BY <1>4, <3>1, <3>2
  <2> HIDE DEF ref, k
  <2>7. ASSUME ~Unregistered(T, f, at) PROVE AllRegistered(T, q, k)
    <3> DEFINE g == FileOf(T, q)
    <3> SUFFICES ASSUME NEW e \in DOMAIN T[g].decls, PathsOf(T[g])[e] = k PROVE e \in Processed(T[g])
      BY DEF AllRegistered
    <3>1. [file |-> g, decl |-> e] \in Named(T, q, k)
      BY DEF Named
    <3>2. [file |-> g, decl |-> e].decl = e /\ [file |-> g, decl |-> e].file = g
      OBVIOUS
    <3> DEFINE m == [file |-> g, decl |-> e]
    <3>3. m \in Meant(T, f, at.i, ref, at.step) /\ m.decl = e /\ m.file = g
      BY <2>4, <3>1, <3>2
    <3> HIDE DEF m
    <3>4. m.decl \in Processed(T[m.file])
      BY <2>3, <2>7, <3>3 DEF Unregistered, ref
    <3> QED
      BY <3>3, <3>4
  <2>8. Target(T, f, at, q, k)
    BY <2>4, <2>5, <2>6 DEF Target, t
  <2> QED
    BY <2>7, <2>8
<1> QED
  BY <1>2, <1>3, <1>4

LEMMA TypeEdited ==
    ASSUME NEW T, ProjectFiles(T), NEW f \in DOMAIN T, NEW at, NEW q, NEW k, Target(T, f, at, q, k)
    PROVE  TypeEdits(T, RenamedType(T, f, at), q, k)
<1> DEFINE edits == RenamedType(T, f, at)
           g0 == FileOf(T, q)
<1>1. /\ g0 \in DOMAIN T /\ ~T[g0].readOnly /\ T[g0].package = q
      /\ \A g \in DOMAIN T : T[g].package = q => g = g0
  BY FilesFound DEF Target
<1>2. KeyAt(T, T[f], at) = {[package |-> q, path |-> k]}
  BY DEF Target
<1>3. ASSUME NEW g, NEW a
      PROVE  In(edits, g, a) <=> /\ g \in DOMAIN T
                                 /\ \/ ~T[g].readOnly /\ DeclKey(T[g], a, q, k)
                                    \/ /\ StepKey(T, T[g], a, q, k)
                                       /\ RefAt(T[g], a).relative \/ Renamable(T, T[g], RefAt(T[g], a))
  BY <1>2, FoundAre DEF In
<1> HIDE DEF edits, g0
<1>4. ASSUME NEW t, NEW a, NEW x, NEW y
      PROVE  /\ DeclKey(t, a, x, y) => a.k = "decl"
             /\ StepKey(T, t, a, x, y) => a.k = "ref"
  BY PlacesApart, StepsAre DEF DeclKey, StepKey
<1>5. \A g, i : ~In(edits, g, UseAt(i))
  <2>1. \A i : UseAt(i).k = "use"
    BY PlacesApart
  <2> QED
    BY <1>3, <1>4, <2>1
<1>6. ASSUME NEW g, NEW d, NEW r PROVE ~In(edits, g, StepAt(d, r, 0))
  <2>1. SUFFICES ASSUME g \in DOMAIN T, StepKey(T, T[g], StepAt(d, r, 0), q, k) PROVE FALSE
    BY <1>3, <1>4, PlacesApart
  <2>2. WellNamed(T[g])
    BY <2>1 DEF ProjectFiles
  <2>3. PICK e \in Processed(T[g]) : \E s \in DOMAIN T[g].decls[e].refs :
            \E j \in DOMAIN T[g].decls[e].refs[s].path : StepAt(d, r, 0) = StepAt(e, s, j)
    BY <2>1, StepsAre DEF StepKey
  <2>4. PICK s \in DOMAIN T[g].decls[e].refs :
            \E j \in DOMAIN T[g].decls[e].refs[s].path : StepAt(d, r, 0) = StepAt(e, s, j)
    BY <2>3
  <2>5. PICK j \in DOMAIN T[g].decls[e].refs[s].path : StepAt(d, r, 0) = StepAt(e, s, j)
    BY <2>4
  <2>6. j = 0
    BY <2>5 DEF StepAt
  <2>7. e \in DOMAIN T[g].decls
    BY <2>2, ProcessedIs
  <2>8. DOMAIN T[g].decls[e].refs[s].path = 1 .. Len(T[g].decls[e].refs[s].path)
    BY <2>2, <2>7, RefParts
  <2> QED
    BY <2>6, <2>8
<1>7. ASSUME NEW g, NEW d
      PROVE  In(edits, g, DeclAt(d)) <=> g = g0 /\ d \in Processed(T[g0]) /\ PathsOf(T[g0])[d] = k
  <2>1. ~StepKey(T, T[g], DeclAt(d), q, k)
    BY <1>4, PlacesApart
  <2>2. In(edits, g, DeclAt(d)) <=> g \in DOMAIN T /\ ~T[g].readOnly /\ DeclKey(T[g], DeclAt(d), q, k)
    BY <1>3, <2>1
  <2>3. DeclKey(T[g], DeclAt(d), q, k) <=> d \in Processed(T[g]) /\ q = T[g].package /\ k = PathsOf(T[g])[d]
    BY PlacesApart DEF DeclKey
  <2> QED
    BY <1>1, <2>2, <2>3
<1>8. ASSUME NEW g \in DOMAIN T, ~T[g].readOnly, NEW d, NEW r, <<d, r>> \in References(T[g]),
             NEW j \in 1 .. Len(T[g].decls[d].refs[r].path)
      PROVE  In(edits, g, StepAt(d, r, j)) <=>
                 /\ q \in NamePackage(T, T[g], T[g].decls[d].refs[r])
                 /\ Full(T[g], d, T[g].decls[d].refs[r], j) = k
  <2> DEFINE t == T[g]
             a == StepAt(d, r, j)
             ref == t.decls[d].refs[r]
  <2>1. WellNamed(t)
    BY DEF ProjectFiles
  <2>2. d \in Processed(t) /\ r \in DOMAIN t.decls[d].refs
    BY <1>8, PartsOfPlace
  <2>3. d \in DOMAIN t.decls /\ t.parses
    BY <2>1, <2>2, ProcessedIs
  <2>4. j \in DOMAIN ref.path
    BY <2>1, <2>2, <2>3, RefParts
  <2>5. a \in Steps(t)
    BY <2>2, <2>4, StepsAre
  <2>6. RefAt(t, a) = ref /\ a.i = d /\ a.step = j /\ a.k = "ref"
    BY PlacesApart DEF RefAt
  <2> HIDE DEF a, ref, t
  <2>7. StepKey(T, t, a, q, k) <=> q \in PackageOf(T, t, ref) /\ k = Full(t, d, ref, j)
    BY <2>5, <2>6 DEF StepKey
  <2>8. PackageOf(T, t, ref) = NamePackage(T, t, ref) /\ \A x, y \in NamePackage(T, t, ref) : x = y
    BY <2>3, PackageLeads DEF t
  <2>9. q \in PackageOf(T, t, ref) => Renamable(T, t, ref)
    BY <1>1, <1>8, <2>8 DEF Renamable, t, g0
  <2>10. ~DeclKey(t, a, q, k)
    BY <1>4, <2>6
  <2>11. In(edits, g, a) <=> StepKey(T, t, a, q, k) /\ (ref.relative \/ Renamable(T, t, ref))
    BY <1>3, <2>6, <2>10 DEF t
  <2>12. In(edits, g, a) <=> q \in NamePackage(T, t, ref) /\ Full(t, d, ref, j) = k
    BY <2>7, <2>8, <2>9, <2>11
  <2> QED
    BY <2>12 DEF a, ref, t
<1> QED
  BY <1>5, <1>6, <1>7, <1>8 DEF TypeEdits, edits, g0

(* Renaming a declaration changes no meaning, but where it is one that is    *)
(* not registered.                                                           *)
LEMMA TypePaths ==
    ASSUME NEW T, NEW U, SamePlaces(T, U), NEW edits, NEW new \in STRING, Rewritten(T, U, edits, new),
           NEW q \in PackagesOf(T), NEW k \in Seq(STRING), k # <<>>, TypeEdits(T, edits, q, k),
           AllRegistered(T, q, k), NEW g \in DOMAIN T
    PROVE  \A e \in 0 .. Len(T[g].decls) :
               PathsOf(U[g])[e] = IF g = FileOf(T, q) THEN Renewed(k, new, PathsOf(T[g])[e]) ELSE PathsOf(T[g])[e]
<1>1. WellNamed(T[g]) /\ WellNamed(U[g]) /\ DOMAIN U[g].decls = DOMAIN T[g].decls
  BY DEF SamePlaces, ProjectFiles
<1>2. \A e \in DOMAIN T[g].decls :
          /\ U[g].decls[e].parent = T[g].decls[e].parent
          /\ U[g].decls[e].name = IF In(edits, g, DeclAt(e)) THEN new ELSE T[g].decls[e].name
  BY DEF Rewritten, FileAfter, DeclAfter
<1>3. CASE g = FileOf(T, q)
  <2>1. \A e \in DOMAIN T[g].decls : In(edits, g, DeclAt(e)) <=> PathsOf(T[g])[e] = k
    BY <1>3 DEF TypeEdits, AllRegistered
  <2>2. \A e \in DOMAIN T[g].decls :
            /\ U[g].decls[e].parent = T[g].decls[e].parent
            /\ U[g].decls[e].name = IF PathsOf(T[g])[e] = k THEN new ELSE T[g].decls[e].name
    BY <1>2, <2>1
  <2> QED
    BY <1>1, <1>3, <2>2, PathsRenewed
<1>4. CASE g # FileOf(T, q)
  <2>1. \A e : ~In(edits, g, DeclAt(e))
    BY <1>4 DEF TypeEdits
  <2>2. \A e \in DOMAIN T[g].decls :
            U[g].decls[e].parent = T[g].decls[e].parent /\ U[g].decls[e].name = T[g].decls[e].name
    BY <1>2, <2>1
  <2> QED
    BY <1>1, <1>4, <2>2, PathsAlike
<1> QED
  BY <1>3, <1>4

LEMMA TypeKeeps ==
    ASSUME NEW T, NEW U, SamePlaces(T, U), NEW edits, NEW new \in STRING, Rewritten(T, U, edits, new),
           NEW q \in PackagesOf(T), NEW k \in Seq(STRING), k # <<>>, TypeEdits(T, edits, q, k),
           AllRegistered(T, q, k),
           \A g \in DOMAIN T : \E prefix : UnusedIn(T[g], new, prefix),
           NEW g \in DOMAIN T, ~T[g].readOnly, NEW d, NEW r, <<d, r>> \in References(T[g])
    PROVE  MeansAlike(T, U, g, d, r)
<1> DEFINE ref(X) == X[g].decls[d].refs[r]
           n == Len(ref(U).path)
           m == Len(ref(T).path)
           steps(X) == ref(X).path
           start(X) == Stem(X[g], d, ref(X))
           y == start(T) \o steps(T)
<1>1. WellNamed(T[g]) /\ WellNamed(U[g])
  BY DEF SamePlaces, ProjectFiles
<1>2. d \in DOMAIN T[g].decls /\ r \in DOMAIN T[g].decls[d].refs
  BY <1>1, PartsOfPlace, ProcessedIs
<1>3. \A h \in DOMAIN T : FileAfter(U[h], T[h], h, edits, new)
  BY DEF Rewritten
<1>4. RefAfter(ref(U), ref(T), g, edits, new, d, r)
  BY <1>2, <1>3 DEF FileAfter, DeclAfter
<1>5. d \in DOMAIN U[g].decls /\ r \in DOMAIN U[g].decls[d].refs
  BY <1>2, <1>3 DEF FileAfter, DeclAfter
<1>6. /\ ref(U).relative = ref(T).relative /\ ref(U).prefix = ref(T).prefix
      /\ steps(U) = [j \in 1 .. m |-> IF In(edits, g, StepAt(d, r, j)) THEN new ELSE steps(T)[j]]
      /\ Len(steps(U)) = m
  BY <1>4 DEF RefAfter, TypeEdits
<1>7. NamePath(T[g], d, ref(T), m) = y /\ NamePath(U[g], d, ref(U), n) = start(U) \o steps(U)
  BY <1>1, <1>2, <1>5, PathAfter
<1>8. start(T) \in Seq(STRING) /\ start(U) \in Seq(STRING)
  BY <1>1, <1>2, <1>5, PathAfter
<1>9. /\ steps(T) \in Seq(STRING) /\ steps(U) \in Seq(STRING) /\ m \in Nat
      /\ DOMAIN steps(T) = 1 .. m
      /\ ref(T).relative => ref(T).prefix = <<>>
  BY <1>1, <1>2, <1>5, RefParts
<1>10. NamePackage(U, U[g], ref(U)) = NamePackage(T, T[g], ref(T))
  <2>1. \A i \in DOMAIN T[g].uses : /\ U[g].uses[i].package = T[g].uses[i].package
                                    /\ UsePrefix(U[g].uses[i]) = UsePrefix(T[g].uses[i])
    BY <1>3 DEF FileAfter, UseAfter, TypeEdits
  <2>2. DOMAIN U[g].uses = DOMAIN T[g].uses
    BY <1>3 DEF FileAfter
  <2>3. SamePrefix(T[g], U[g], ref(T), ref(U))
    BY <1>6, <2>1, <2>2 DEF SamePrefix
  <2> QED
    BY <2>3, PackageKept
<1>11. ASSUME NEW h \in DOMAIN T
       PROVE  \A e \in 0 .. Len(T[h].decls) :
                  PathsOf(U[h])[e] = IF h = FileOf(T, q) THEN Renewed(k, new, PathsOf(T[h])[e]) ELSE PathsOf(T[h])[e]
  BY TypePaths
<1>12. ASSUME NEW h \in DOMAIN T
       PROVE  \A e \in 0 .. Len(T[h].decls) :
                  PathsOf(T[h])[e] \in Seq(STRING) /\ \A i \in 1 .. Len(PathsOf(T[h])[e]) : PathsOf(T[h])[e][i] # new
  <2>1. WellNamed(T[h]) /\ \A e \in DOMAIN T[h].decls : T[h].decls[e].name # new
    BY DEF SamePlaces, ProjectFiles, UnusedIn
  <2> QED
    BY <2>1, PathsTyped, PathsAvoid
<1>13. d \in 0 .. Len(T[g].decls)
  BY <1>1, <1>2, FileParts
<1>14. y \in Seq(STRING) /\ \A i \in 1 .. Len(y) : y[i] # new
  <2>1. \A j \in 1 .. m : steps(T)[j] # new
    BY <1>2, <1>9 DEF UnusedIn
  <2>2. \A i \in 1 .. Len(start(T)) : start(T)[i] # new
    <3>1. CASE ref(T).relative
      BY <1>12, <1>13, <3>1 DEF Stem
    <3>2. CASE ~ref(T).relative
      <4>1. start(T) = <<>>
        BY <3>2 DEF Stem
      <4> QED
        BY <4>1
    <3> QED
      BY <3>1, <3>2
  <2> HIDE DEF start, steps
  <2>3. \A i \in 1 .. Len(y) : y[i] # new
    BY <1>8, <1>9, <2>1, <2>2, NotJoined DEF steps
  <2>4. y \in Seq(STRING)
    BY <1>8, <1>9, ConcatProperties
  <2> QED
    BY <2>3, <2>4
<1>15. \A x, z \in NamePackage(T, T[g], ref(T)) : x \in PackagesOf(T) /\ x = z
  BY PackageLeads DEF SamePlaces
<1>16. \A j \in 1 .. m : In(edits, g, StepAt(d, r, j)) <=>
                             q \in NamePackage(T, T[g], ref(T)) /\ start(T) \o SubSeq(steps(T), 1, j) = k
  <2> SUFFICES ASSUME NEW j \in 1 .. m
               PROVE  In(edits, g, StepAt(d, r, j)) <=>
                             q \in NamePackage(T, T[g], ref(T)) /\ start(T) \o SubSeq(steps(T), 1, j) = k
    OBVIOUS
  <2>1. In(edits, g, StepAt(d, r, j)) <=> q \in NamePackage(T, T[g], ref(T)) /\ Full(T[g], d, ref(T), j) = k
    BY DEF TypeEdits
  <2>2. Full(T[g], d, ref(T), j) = start(T) \o SubSeq(steps(T), 1, j)
    BY <1>1, <1>2, FullIs
  <2> QED
    BY <2>1, <2>2
<1>17. FileOf(T, T[g].package) = g /\ \A x \in PackagesOf(T) : FileOf(T, x) \in DOMAIN T /\ T[FileOf(T, x)].package = x
  BY FilesFound DEF SamePlaces
<1>18. ref(T).relative => NamePackage(T, T[g], ref(T)) = {T[g].package}
  BY <1>9 DEF NamePackage
<1>19. /\ ref(T).relative => start(T) = PathsOf(T[g])[d] /\ start(U) = PathsOf(U[g])[d]
       /\ ~ref(T).relative => start(T) = <<>> /\ start(U) = <<>>
  BY <1>6 DEF Stem
<1>20. ASSUME q \in NamePackage(T, T[g], ref(T))
       PROVE  start(U) \o steps(U) = Renewed(k, new, y)
  <2>1. start(U) = Renewed(k, new, start(T))
    <3>1. CASE ref(T).relative
      <4>1. g = FileOf(T, q)
        BY <1>17, <1>18, <1>20, <3>1
      <4> QED
        BY <1>11, <1>13, <1>19, <3>1, <4>1
    <3>2. CASE ~ref(T).relative
      <4>1. Renewed(k, new, <<>>) = <<>>
        <5> <<>> \in Seq(STRING)
          OBVIOUS
        <5> QED
          BY RenewedTyped
      <4> QED
        BY <1>19, <3>2, <4>1
    <3> QED
      BY <3>1, <3>2
  <2>2. RenewedSteps(k, new, start(T), steps(T), steps(U))
    <3> SUFFICES ASSUME NEW j \in 1 .. m
                 PROVE  steps(U)[j] = IF start(T) \o SubSeq(steps(T), 1, j) = k THEN new ELSE steps(T)[j]
      BY DEF RenewedSteps
    <3>1. steps(U)[j] = IF In(edits, g, StepAt(d, r, j)) THEN new ELSE steps(T)[j]
      BY <1>6
    <3> QED
      BY <1>16, <1>20, <3>1
  <2>3. Len(steps(U)) = Len(steps(T))
    BY <1>6
  <2> HIDE DEF start, steps
  <2>4. RenewedJoin(k, new, start(T), steps(T), steps(U))
    BY <1>8, <1>9, <2>2, <2>3, RenewedReference
  <2> QED
    BY <2>1, <2>4 DEF RenewedJoin
<1>21. ASSUME q \notin NamePackage(T, T[g], ref(T))
       PROVE  start(U) \o steps(U) = y
  <2>1. steps(U) = steps(T)
    <3>1. \A j \in 1 .. m : ~In(edits, g, StepAt(d, r, j))
      BY <1>16, <1>21
    <3> HIDE DEF steps
    <3>2. steps(U) = [j \in 1 .. m |-> steps(T)[j]]
      BY <1>6, <3>1
    <3>3. steps(T) = [j \in 1 .. m |-> steps(T)[j]]
      BY <1>9
    <3> QED
      BY <3>2, <3>3
  <2>2. start(U) = start(T)
    <3>1. CASE ref(T).relative
      <4>1. g # FileOf(T, q)
        BY <1>17, <1>18, <1>21, <3>1
      <4> QED
        BY <1>11, <1>13, <1>19, <3>1, <4>1
    <3>2. CASE ~ref(T).relative
      BY <1>19, <3>2
    <3> QED
      BY <3>1, <3>2
  <2> QED
    BY <2>1, <2>2
<1>22. ASSUME NEW x \in NamePackage(T, T[g], ref(T)), NEW e \in DOMAIN T[FileOf(T, x)].decls
       PROVE  PathsOf(U[FileOf(T, x)])[e] = start(U) \o steps(U) <=> PathsOf(T[FileOf(T, x)])[e] = y
  <2> DEFINE h == FileOf(T, x)
             a == PathsOf(T[h])[e]
  <2>1. x \in PackagesOf(T) /\ h \in DOMAIN T /\ WellNamed(T[h])
    BY <1>15, <1>17 DEF SamePlaces, ProjectFiles
  <2>2. e \in 0 .. Len(T[h].decls)
    BY <2>1, FileParts
  <2>3. a \in Seq(STRING) /\ \A i \in 1 .. Len(a) : a[i] # new
    BY <1>12, <2>1, <2>2
  <2>4. CASE x = q
    <3>1. start(U) \o steps(U) = Renewed(k, new, y)
      BY <1>20, <2>4
    <3>2. PathsOf(U[h])[e] = Renewed(k, new, a)
      BY <1>11, <2>1, <2>2, <2>4
    <3> HIDE DEF y, a, h, start, steps
    <3>3. Renewed(k, new, a) = Renewed(k, new, y) => a = y
      BY <1>14, <2>3, RenewedApart
    <3> QED
      BY <3>1, <3>2, <3>3 DEF a, h
  <2>5. CASE x # q
    <3>1. q \notin NamePackage(T, T[g], ref(T))
      BY <1>15, <2>5
    <3>2. start(U) \o steps(U) = y
      BY <1>21, <3>1
    <3>3. h # FileOf(T, q)
      BY <1>17, <2>1, <2>5
    <3>4. PathsOf(U[h])[e] = a
      BY <1>11, <2>1, <2>2, <3>3
    <3> HIDE DEF y, start, steps
    <3> QED
      BY <3>2, <3>4
  <2> QED
    BY <2>4, <2>5
<1> HIDE DEF y, start, steps
<1>23. \A x \in NamePackage(T, T[g], ref(T)) : \A e \in DOMAIN T[FileOf(T, x)].decls :
           PathsOf(U[FileOf(T, x)])[e] = NamePath(U[g], d, ref(U), n)
             <=> PathsOf(T[FileOf(T, x)])[e] = NamePath(T[g], d, ref(T), n)
  <2>1. n = m
    BY <1>6 DEF steps
  <2> HIDE DEF n, m, ref
  <2> QED
    BY <1>7, <1>22, <2>1
<1> HIDE DEF ref, n, m
<1>24. Meant(U, g, d, ref(U), n) = Meant(T, g, d, ref(T), n)
  BY <1>10, <1>23, MeaningKept
<1> QED
  BY <1>24 DEF MeansAlike, ref, n

-----------------------------------------------------------------------------
(* The files after a rename are again files that the compiler accepts, and   *)
(* the names that are still to give are not in them.                         *)
Harmless(T, edits, new) ==
    \A f \in DOMAIN T :
        /\ \A i, j \in DOMAIN T[f].uses : In(edits, f, UseAt(i)) /\ In(edits, f, UseAt(j)) => i = j
        /\ \A i, j \in DOMAIN T[f].uses : In(edits, f, UseAt(i)) => UsePrefix(T[f].uses[j]) # new
        /\ \A d, e \in DOMAIN T[f].decls : In(edits, f, DeclAt(d)) /\ In(edits, f, DeclAt(e)) => d = e
        /\ \A d, e \in DOMAIN T[f].decls : In(edits, f, DeclAt(d)) => T[f].decls[e].name # new
        /\ \A d \in DOMAIN T[f].decls : \A r \in DOMAIN T[f].decls[d].refs :
              In(edits, f, StepAt(d, r, 0)) => T[f].decls[d].refs[r].prefix # <<>>
LEMMA ProjectStays ==
    ASSUME NEW T, ProjectFiles(T), NEW U, NEW edits, NEW new \in STRING, Rewritten(T, U, edits, new),
           Harmless(T, edits, new)
    PROVE  SamePlaces(T, U)
<1>1. ASSUME NEW f \in DOMAIN T
      PROVE  WellNamed(U[f]) /\ U[f].package = T[f].package /\ DOMAIN U[f].decls = DOMAIN T[f].decls
  <2>1. WellNamed(T[f]) /\ FileAfter(U[f], T[f], f, edits, new)
    BY DEF ProjectFiles, Rewritten
  <2>2. WellNamed(U[f])
    BY <2>1, StaysWellNamed DEF Harmless
  <2> QED
    BY <2>1, <2>2 DEF FileAfter
<1>2. DOMAIN U = DOMAIN T
  BY DEF Rewritten
<1>3. ProjectFiles(U)
  BY <1>1, <1>2 DEF ProjectFiles
<1> QED
  BY <1>1, <1>2, <1>3 DEF SamePlaces

LEMMA NewNames ==
    ASSUME NEW new \in {FreshType, FreshPrefix}
    PROVE  /\ MaxRenames \in Nat
           /\ \A i \in 1 .. MaxRenames : new[i] \in STRING
           /\ \A i, j \in 1 .. MaxRenames : new[i] = new[j] => i = j
<1>1. /\ MaxRenames \in Nat /\ new \in Seq(STRING) /\ MaxRenames <= Len(new)
      /\ \A i, j \in DOMAIN new : new[i] = new[j] => i = j
  BY NavigationAssumption
<1>2. DOMAIN new = 1 .. Len(new) /\ Len(new) \in Nat /\ \A i \in 1 .. Len(new) : new[i] \in STRING
  BY <1>1
<1>3. 1 .. MaxRenames \subseteq 1 .. Len(new)
  BY <1>1, <1>2
<1> QED
  BY <1>1, <1>2, <1>3

LEMMA NamesLeft ==
    ASSUME NEW T, ProjectFiles(T), NEW U, NEW edits, NEW new \in STRING, Rewritten(T, U, edits, new),
           NEW n \in 1 .. MaxRenames, Unused(T, n),
           \/ new = FreshPrefix[n] /\ PrefixOnly(edits)
           \/ new = FreshType[n] /\ TypeOnly(edits)
    PROVE  Unused(U, n + 1)
<1> SUFFICES ASSUME NEW i \in n + 1 .. MaxRenames, NEW f \in DOMAIN U
             PROVE  UnusedIn(U[f], FreshType[i], FreshPrefix[i])
  BY DEF Unused
<1>1. f \in DOMAIN T /\ WellNamed(T[f]) /\ FileAfter(U[f], T[f], f, edits, new)
  BY DEF ProjectFiles, Rewritten
<1>2. MaxRenames \in Nat
  BY NewNames
<1>3. i \in n .. MaxRenames /\ i \in 1 .. MaxRenames /\ i # n
  BY <1>2
<1>4. UnusedIn(T[f], FreshType[i], FreshPrefix[i])
  BY <1>1, <1>3 DEF Unused
<1>5. FreshType[i] # FreshType[n] /\ FreshPrefix[i] # FreshPrefix[n]
  BY <1>3, NewNames
<1>6. new = FreshPrefix[i] => TypeOnly(edits)
  BY <1>5
<1>7. new = FreshType[i] => PrefixOnly(edits)
  BY <1>5
<1> QED
  BY <1>1, <1>4, <1>6, <1>7, StaysUnused

(* What a rename keeps. *)
MeaningsStay(T, U) ==
    \A f \in DOMAIN T : ~T[f].readOnly =>
        \A p \in References(T[f]) : MeansAlike(T, U, f, p[1], p[2])
Renames(T, edits, new) == [f \in DOMAIN T |-> Edited(f, T[f], edits, new)]

LEMMA RewrittenBy ==
    ASSUME NEW T, ProjectFiles(T), NEW edits, NEW new \in STRING
    PROVE  Rewritten(T, Renames(T, edits, new), edits, new)
<1>1. \A f \in DOMAIN T : FileAfter(Edited(f, T[f], edits, new), T[f], f, edits, new)
  BY FileEdited DEF ProjectFiles
<1> QED
  BY <1>1 DEF Rewritten, Renames

LEMMA PrefixStep ==
    ASSUME NEW T, ProjectFiles(T), NEW n \in 1 .. MaxRenames, Unused(T, n),
           NEW f \in DOMAIN T, NEW at \in PrefixTriggers(T[f]), RenamedPrefix(T, f, at) # {},
           NEW U, U = Renames(T, RenamedPrefix(T, f, at), FreshPrefix[n])
    PROVE  ProjectFiles(U) /\ Unused(U, n + 1) /\ MeaningsStay(T, U)
<1> DEFINE edits == RenamedPrefix(T, f, at)
           new == FreshPrefix[n]
           p == PrefixAt(T[f], at)
<1>1. p \in STRING /\ PrefixEdits(T, edits, f, p) /\ new \in STRING
  BY PrefixEdited, NewNames
<1>2. Rewritten(T, U, edits, new)
  BY <1>1, RewrittenBy
<1>3. ASSUME NEW g \in DOMAIN T PROVE UnusedIn(T[g], FreshType[n], new)
  <2> n \in n .. MaxRenames
    BY NewNames
  <2> QED
    BY DEF Unused
<1> HIDE DEF edits, new, p
<1>4. Harmless(T, edits, new)
  <2> SUFFICES ASSUME NEW g \in DOMAIN T
               PROVE  /\ \A i, j \in DOMAIN T[g].uses : In(edits, g, UseAt(i)) /\ In(edits, g, UseAt(j)) => i = j
                      /\ \A i, j \in DOMAIN T[g].uses : In(edits, g, UseAt(i)) => UsePrefix(T[g].uses[j]) # new
                      /\ \A d \in DOMAIN T[g].decls : \A r \in DOMAIN T[g].decls[d].refs :
                            In(edits, g, StepAt(d, r, 0)) => T[g].decls[d].refs[r].prefix # <<>>
    BY <1>1 DEF Harmless, PrefixEdits
  <2>1. NamedOnce(T[g])
    BY DEF ProjectFiles, WellNamed
  <2>2. \A i \in DOMAIN T[g].uses : In(edits, g, UseAt(i)) => UsePrefix(T[g].uses[i]) = p
    BY <1>1 DEF PrefixEdits
  <2>3. \A d, r : In(edits, g, StepAt(d, r, 0)) => T[g].decls[d].refs[r].prefix = <<p>>
    BY <1>1 DEF PrefixEdits
  <2>4. <<p>> # <<>>
    OBVIOUS
  <2> QED
    BY <1>3, <2>1, <2>2, <2>3, <2>4 DEF NamedOnce, UnusedIn
<1>5. SamePlaces(T, U)
  BY <1>1, <1>2, <1>4, ProjectStays
<1>6. Unused(U, n + 1)
  <2>1. PrefixOnly(edits)
    BY <1>1 DEF PrefixEdits, PrefixOnly
  <2> QED
    BY <1>1, <1>2, <2>1, NamesLeft DEF new
<1>7. MeaningsStay(T, U)
  <2> SUFFICES ASSUME NEW g \in DOMAIN T, NEW x \in References(T[g])
               PROVE  MeansAlike(T, U, g, x[1], x[2])
    BY DEF MeaningsStay
  <2>1. x = <<x[1], x[2]>>
    BY ReferencesAre
  <2>2. <<x[1], x[2]>> \in References(T[g])
    BY <2>1
  <2>3. \A h \in DOMAIN T : \E type : UnusedIn(T[h], type, new)
    BY <1>3
  <2> QED
    BY <1>1, <1>2, <1>5, <2>2, <2>3, PrefixKeeps
<1> QED
  BY <1>5, <1>6, <1>7 DEF SamePlaces

LEMMA TypeStep ==
    ASSUME NEW T, ProjectFiles(T), NEW n \in 1 .. MaxRenames, Unused(T, n),
           NEW f \in DOMAIN T, NEW at \in TypeTriggers(T, T[f]),
           NEW U, U = Renames(T, RenamedType(T, f, at), FreshType[n])
    PROVE  ProjectFiles(U) /\ Unused(U, n + 1) /\ (Unregistered(T, f, at) \/ MeaningsStay(T, U))
<1> DEFINE edits == RenamedType(T, f, at)
           new == FreshType[n]
<1>1. PICK q, k : Target(T, f, at, q, k) /\ (Unregistered(T, f, at) \/ AllRegistered(T, q, k))
  BY TypeTarget
<1>2. TypeEdits(T, edits, q, k) /\ new \in STRING
  BY <1>1, TypeEdited, NewNames
<1>3. Rewritten(T, U, edits, new)
  BY <1>2, RewrittenBy
<1>4. ASSUME NEW g \in DOMAIN T PROVE UnusedIn(T[g], new, FreshPrefix[n])
  <2> n \in n .. MaxRenames
    BY NewNames
  <2> QED
    BY DEF Unused
<1>5. q \in PackagesOf(T) /\ k \in Seq(STRING) /\ k # <<>>
  BY <1>1 DEF Target
<1> HIDE DEF edits, new
<1>6. Harmless(T, edits, new)
  <2> SUFFICES ASSUME NEW g \in DOMAIN T
               PROVE  /\ \A d, e \in DOMAIN T[g].decls : In(edits, g, DeclAt(d)) /\ In(edits, g, DeclAt(e)) => d = e
                      /\ \A d, e \in DOMAIN T[g].decls : In(edits, g, DeclAt(d)) => T[g].decls[e].name # new
    BY <1>2 DEF Harmless, TypeEdits
  <2>1. WellNamed(T[g])
    BY DEF ProjectFiles
  <2>2. \A d : In(edits, g, DeclAt(d)) => PathsOf(T[g])[d] = k
    BY <1>2 DEF TypeEdits
  <2>3. \A d, e \in DOMAIN T[g].decls : In(edits, g, DeclAt(d)) /\ In(edits, g, DeclAt(e)) => d = e
    BY <2>1, <2>2, PathsDiffer
  <2> QED
    BY <1>4, <2>3 DEF UnusedIn
<1>7. SamePlaces(T, U)
  BY <1>2, <1>3, <1>6, ProjectStays
<1>8. Unused(U, n + 1)
  <2>1. TypeOnly(edits)
    BY <1>2 DEF TypeEdits, TypeOnly
  <2> QED
    BY <1>2, <1>3, <2>1, NamesLeft DEF new
<1>9. ASSUME AllRegistered(T, q, k) PROVE MeaningsStay(T, U)
  <2> SUFFICES ASSUME NEW g \in DOMAIN T, ~T[g].readOnly, NEW x \in References(T[g])
               PROVE  MeansAlike(T, U, g, x[1], x[2])
    BY DEF MeaningsStay
  <2>1. x = <<x[1], x[2]>>
    BY ReferencesAre
  <2>2. <<x[1], x[2]>> \in References(T[g])
    BY <2>1
  <2>3. \A h \in DOMAIN T : \E prefix : UnusedIn(T[h], new, prefix)
    BY <1>4
  <2> QED
    BY <1>2, <1>3, <1>5, <1>7, <1>9, <2>2, <2>3, TypeKeeps
<1> QED
  BY <1>1, <1>7, <1>8, <1>9 DEF SamePlaces

-----------------------------------------------------------------------------
NavigationInv ==
    /\ renames \in 0 .. MaxRenames
    /\ ProjectFiles(texts) /\ Unused(texts, renames + 1)
    /\ Renamed

LEMMA NavigationInvInit == NavigationInit => NavigationInv
<1> SUFFICES ASSUME NavigationInit PROVE NavigationInv
  OBVIOUS
<1>1. renames \in 0 .. MaxRenames
  BY NewNames DEF NavigationInit
<1>2. ProjectFiles(texts) /\ Unused(texts, renames + 1)
  <2>1. renames + 1 = 1
    BY DEF NavigationInit
  <2> QED
    BY <2>1, NavigationAssumption DEF NavigationInit
<1>3. Renamed
  BY DEF NavigationInit, Renamed
<1> QED
  BY <1>1, <1>2, <1>3 DEF NavigationInv

LEMMA NavigationInvNext == NavigationInv /\ [NavigationNext]_navigationVars => NavigationInv'
<1> SUFFICES ASSUME NavigationInv, [NavigationNext]_navigationVars PROVE NavigationInv'
  OBVIOUS
<1> DEFINE n == renames + 1
<1>1. ASSUME NEW edits, NEW new, NEW unregistered, Renaming(edits, new, unregistered)
      PROVE  /\ n \in 1 .. MaxRenames /\ n = renames' /\ renames' \in 0 .. MaxRenames
             /\ edits # {} /\ earlier' = texts /\ hidden' = unregistered
             /\ texts' = Renames(texts, edits, new)
  BY <1>1, NewNames DEF Renaming, NavigationInv, Renames
<1>2. MeaningsStay(earlier', texts') => Renamed'
  BY DEF MeaningsStay, MeansAlike, Renamed
<1>3. CASE RenamePrefix
  <2>1. PICK f \in DOMAIN texts : \E at \in PrefixTriggers(texts[f]) :
                 Renaming(RenamedPrefix(texts, f, at), FreshPrefix[n], FALSE)
    BY <1>3 DEF RenamePrefix
  <2>2. PICK at \in PrefixTriggers(texts[f]) : Renaming(RenamedPrefix(texts, f, at), FreshPrefix[n], FALSE)
    BY <2>1
  <2>3. /\ n \in 1 .. MaxRenames /\ n = renames' /\ renames' \in 0 .. MaxRenames
        /\ RenamedPrefix(texts, f, at) # {} /\ earlier' = texts
        /\ texts' = Renames(texts, RenamedPrefix(texts, f, at), FreshPrefix[n])
    BY <1>1, <2>2
  <2>4. ProjectFiles(texts) /\ Unused(texts, n)
    BY DEF NavigationInv
  <2> HIDE DEF n
  <2>5. ProjectFiles(texts') /\ Unused(texts', n + 1) /\ MeaningsStay(texts, texts')
    BY <2>3, <2>4, PrefixStep
  <2> QED
    BY <1>2, <2>3, <2>5 DEF NavigationInv
<1>4. CASE RenameType
  <2>1. PICK f \in DOMAIN texts : \E at \in TypeTriggers(texts, texts[f]) :
                 Renaming(RenamedType(texts, f, at), FreshType[n], Unregistered(texts, f, at))
    BY <1>4 DEF RenameType, Unregistered
  <2>2. PICK at \in TypeTriggers(texts, texts[f]) :
                 Renaming(RenamedType(texts, f, at), FreshType[n], Unregistered(texts, f, at))
    BY <2>1
  <2>3. /\ n \in 1 .. MaxRenames /\ n = renames' /\ renames' \in 0 .. MaxRenames
        /\ earlier' = texts /\ hidden' = Unregistered(texts, f, at)
        /\ texts' = Renames(texts, RenamedType(texts, f, at), FreshType[n])
    BY <1>1, <2>2
  <2>4. ProjectFiles(texts) /\ Unused(texts, n)
    BY DEF NavigationInv
  <2> HIDE DEF n
  <2>5. /\ ProjectFiles(texts') /\ Unused(texts', n + 1)
        /\ Unregistered(texts, f, at) \/ MeaningsStay(texts, texts')
    BY <2>3, <2>4, TypeStep
  <2>6. Renamed'
    BY <1>2, <2>3, <2>5 DEF Renamed
  <2> QED
    BY <2>3, <2>5, <2>6 DEF NavigationInv
<1>5. CASE UNCHANGED navigationVars
  BY <1>5 DEF NavigationInv, navigationVars, Renamed
<1> QED
  BY <1>3, <1>4, <1>5 DEF NavigationNext

(* Whatever the projects are, and however often they are renamed in: the     *)
(* definition and the references the language server finds are those the     *)
(* compiler's Name::into_model gives (Traced), what it offers is what can    *)
(* stand there (Suitable), and a rename that finds the declaration it is of  *)
(* leaves every name with its meaning (Renamed).                             *)
THEOREM NamesKeepMeaning == NavigationSpec => []Navigates
<1>1. NavigationInv => Navigates
  <2> SUFFICES ASSUME NavigationInv PROVE Navigates
    OBVIOUS
  <2>1. ProjectFiles(texts) /\ Renamed
    BY DEF NavigationInv
  <2>2. Traced
    BY <2>1, TracedHolds
  <2>3. Suitable
    BY <2>1, SuitableHolds
  <2> QED
    BY <2>1, <2>2, <2>3 DEF Navigates
<1> QED
  BY <1>1, NavigationInvInit, NavigationInvNext, PTL DEF NavigationSpec
=============================================================================
