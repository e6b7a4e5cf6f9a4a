---------------------------- MODULE SessionProofs ----------------------------
(***************************************************************************)
(* Proofs about Session, for any sources, however they use each other, any *)
(* number of roots and whatever is wrong with any of them.                 *)
(***************************************************************************)
EXTENDS Session, FiniteSetTheorems, TLAPS

-----------------------------------------------------------------------------
Frames == [package : Package, source : Source, next : Nat \ {0}, diag : BOOLEAN]

WorldOK ==
    /\ uses \in [Source -> Seq(Required)]
    /\ flaw \in [Source -> Flaws]
    /\ resolver \in [Required -> Source \cup {NoPackage, Broken}]
    /\ versionOf \in [Required -> Package]

SessionTypeOK ==
    /\ WorldOK
    /\ roots \in Seq(Root) /\ stack \in Seq(Frames)
    /\ DOMAIN lookupRequired \subseteq Required
    /\ \A r \in DOMAIN lookupRequired : lookupRequired[r] \in Package \cup {NoPackage}
    /\ lookupVersioned \subseteq Package
    /\ DOMAIN files \subseteq Package /\ \A p \in DOMAIN files : files[p] \in Source
    /\ opened \in [Source -> Nat]
    /\ reported \in BOOLEAN /\ errors \in BOOLEAN /\ duplicate \in BOOLEAN

(* The files being loaded, wherever they are on the stack. *)
Elements(s) == {s[i] : i \in 1..Len(s)}

(* How far a file has got: what it uses up to there was looked up, and it has *)
(* a diagnostic exactly when something of that was not found.                 *)
Before(f) == 1..(f.next - 1)
FrameAt(f, U, lookup, count) ==
    /\ f.next <= Len(U[f.source]) + 1
    /\ \A i \in Before(f) : U[f.source][i] \in DOMAIN lookup
    /\ f.diag <=> \E i \in Before(f) : lookup[U[f.source][i]] = NoPackage
    /\ count[f.source] > 0
FrameOK(f) == FrameAt(f, uses, lookupRequired, opened)

(* What was looked up is what the resolver says. *)
Remembered ==
    \A r \in DOMAIN lookupRequired :
        IF lookupRequired[r] = NoPackage THEN resolver[r] = NoPackage ELSE resolver[r] \in Source

(* A registered file has found everything it uses. *)
FilesOK ==
    \A p \in DOMAIN files : \A i \in DOMAIN uses[files[p]] :
        /\ uses[files[p]][i] \in DOMAIN lookupRequired
        /\ lookupRequired[uses[files[p]][i]] # NoPackage

(* Until something is reported, a package that was found is registered or    *)
(* still being loaded, a source that was opened is fine or is still being     *)
(* looked at, and nothing is wrong with a registered one.                     *)
Present(p) == p \in DOMAIN files \/ \E f \in Elements(stack) : f.package = p
Fine(s) == \/ Good(s)
           \/ /\ flaw[s] = "conflict" /\ \A p \in DOMAIN files : files[p] # s
              /\ \A i \in DOMAIN uses[s] : resolver[uses[s][i]] \in Source
Pending ==
    ~reported =>
        /\ \A p \in lookupVersioned : Present(p)
        /\ \A r \in DOMAIN lookupRequired : lookupRequired[r] = NoPackage \/ Present(lookupRequired[r])
        /\ \A s \in Source : opened[s] > 0 => Fine(s) \/ \E f \in Elements(stack) : f.source = s
        /\ \A p \in DOMAIN files : flaw[files[p]] = "none"

(* Something is reported for a reason, and what fails without is a root that *)
(* was given twice.                                                          *)
Blamed ==
    /\ reported => \E s \in Source : opened[s] > 0 /\ ~Good(s)
    /\ errors => reported \/ duplicate

Decided ==
    /\ outcome # "none" => roots = <<>> /\ stack = <<>>
    /\ outcome = "translated" => ~reported
    /\ outcome = "refused" => reported \/ (errors /\ driver = "cli")
    /\ outcome \in {"none", "translated", "refused"}

SessionInv ==
    /\ SessionTypeOK /\ (\A f \in Elements(stack) : FrameOK(f))
    /\ Remembered /\ FilesOK /\ Pending /\ Blamed /\ Decided

-----------------------------------------------------------------------------
(* Lemmas about stacks.                                                    *)

LEMMA Pushed ==
    ASSUME NEW s \in Seq(Frames), NEW f \in Frames
    PROVE  <<f>> \o s \in Seq(Frames) /\ Elements(<<f>> \o s) = {f} \cup Elements(s)
<1> DEFINE t == <<f>> \o s
<1>1. t \in Seq(Frames) /\ Len(t) = Len(s) + 1 /\ t[1] = f
  OBVIOUS
<1>2. \A i \in 1..Len(s) : t[i + 1] = s[i]
  OBVIOUS
<1>3. \A i \in 1..Len(t) : i = 1 \/ (i - 1 \in 1..Len(s) /\ t[i] = s[i - 1])
  OBVIOUS
<1> HIDE DEF t
<1>4. Elements(t) = {f} \cup Elements(s)
  <2>1. ASSUME NEW x \in Elements(t) PROVE x \in {f} \cup Elements(s)
    <3>1. PICK i \in 1..Len(t) : x = t[i]
      BY DEF Elements
    <3> QED
      BY <1>1, <1>3, <3>1 DEF Elements
  <2>2. f \in Elements(t)
    <3>1. 1 \in 1..Len(t)
      BY <1>1
    <3> QED
      BY <1>1, <3>1 DEF Elements
  <2>3. ASSUME NEW x \in Elements(s) PROVE x \in Elements(t)
    <3>1. PICK i \in 1..Len(s) : x = s[i]
      BY DEF Elements
    <3>2. i + 1 \in 1..Len(t) /\ t[i + 1] = x
      BY <1>1, <1>2, <3>1
    <3> QED
      BY <3>2 DEF Elements
  <2> QED
    BY <2>1, <2>2, <2>3
<1> QED
  BY <1>1, <1>4 DEF t

LEMMA Popped ==
    ASSUME NEW s \in Seq(Frames), s # <<>>
    PROVE  /\ Head(s) \in Frames /\ Tail(s) \in Seq(Frames)
           /\ Elements(s) = {Head(s)} \cup Elements(Tail(s))
<1>1. Head(s) \in Frames /\ Tail(s) \in Seq(Frames)
  OBVIOUS
<1>2. s = <<Head(s)>> \o Tail(s)
  OBVIOUS
<1> QED
  BY <1>1, <1>2, Pushed

LEMMA SeqElements ==
    ASSUME NEW s \in Seq(Frames)
    PROVE  \A f \in Elements(s) : f \in Frames
BY DEF Elements

LEMMA EmptyStack == Elements(<<>>) = {}
BY DEF Elements

-----------------------------------------------------------------------------
(* Lemmas about files being loaded.                                        *)

(* Loading goes on with the next `use`, which has been looked up. *)
Onward(f, d) == [f EXCEPT !.next = @ + 1, !.diag = @ \/ d]

LEMMA Advanced ==
    ASSUME NEW U \in [Source -> Seq(Required)], NEW lookup, NEW count,
           NEW f \in Frames, FrameAt(f, U, lookup, count), f.next <= Len(U[f.source]),
           U[f.source][f.next] \in DOMAIN lookup,
           NEW d \in BOOLEAN, d <=> lookup[U[f.source][f.next]] = NoPackage,
           NEW g, g = Onward(f, d)
    PROVE  /\ g \in Frames /\ g.package = f.package /\ g.source = f.source
           /\ FrameAt(g, U, lookup, count)
<1>1. /\ f.next \in Nat \ {0} /\ f.source \in Source /\ f.diag \in BOOLEAN
      /\ f.package \in Package
  BY DEF Frames
<1>2. /\ g.next = f.next + 1 /\ g.source = f.source /\ g.package = f.package
      /\ (g.diag <=> f.diag \/ d) /\ g \in Frames
  <2>1. g.next = f.next + 1 /\ g.source = f.source /\ g.package = f.package
    BY DEF Frames, Onward
  <2>2. g.diag = (f.diag \/ d)
    BY DEF Frames, Onward
  <2>3. g \in Frames
    <3>1. PICK e \in BOOLEAN : e = (f.diag \/ d)
      BY <1>1
    <3>2. g = [package |-> f.package, source |-> f.source, next |-> f.next + 1, diag |-> e]
      BY <3>1 DEF Frames, Onward
    <3> QED
      BY <1>1, <3>1, <3>2 DEF Frames
  <2> QED
    BY <2>1, <2>2, <2>3
<1>3. Before(g) = Before(f) \cup {f.next}
  BY <1>1, <1>2 DEF Before
<1>4. g.next <= Len(U[g.source]) + 1
  BY <1>1, <1>2
<1>5. \A i \in Before(g) : U[g.source][i] \in DOMAIN lookup
  BY <1>2, <1>3 DEF FrameAt
<1>6. g.diag <=> \E i \in Before(g) : lookup[U[g.source][i]] = NoPackage
  <2>1. g.diag <=> (f.diag \/ d)
    BY <1>2
  <2> QED
    BY <1>2, <1>3, <2>1 DEF FrameAt
<1> QED
  BY <1>2, <1>4, <1>5, <1>6 DEF FrameAt

(* More is looked up and opened: what was known of a file stays true. *)
LEMMA FrameStays ==
    ASSUME NEW U, NEW lookup, NEW more, NEW count, NEW counts,
           NEW f \in Frames, FrameAt(f, U, lookup, count),
           DOMAIN lookup \subseteq DOMAIN more, \A r \in DOMAIN lookup : more[r] = lookup[r],
           \A s \in Source : count[s] > 0 => counts[s] > 0
    PROVE  FrameAt(f, U, more, counts)
BY DEF FrameAt, Frames

LEMMA SessionInitial == Init => SessionInv
<1> SUFFICES ASSUME Init PROVE SessionInv
  OBVIOUS
<1> USE OutcomeAssumption, LimitAssumption DEF Init
<1>1. uses \in [Source -> Seq(Required)]
  <2>1. \A s \in Source : uses[s] \in Seq(Required)
    OBVIOUS
  <2> QED
    BY <2>1
<1>2. roots \in Seq(Root)
  OBVIOUS
<1>3. SessionTypeOK
  <2>1. WorldOK
    BY <1>1 DEF WorldOK
  <2>2. stack \in Seq(Frames)
    OBVIOUS
  <2>3. DOMAIN lookupRequired = {} /\ DOMAIN files = {}
    OBVIOUS
  <2>4. opened \in [Source -> Nat]
    OBVIOUS
  <2> QED
    BY <1>2, <2>1, <2>2, <2>3, <2>4 DEF SessionTypeOK
<1>4. Elements(stack) = {}
  BY EmptyStack
<1>5. Remembered /\ FilesOK /\ Pending /\ Blamed /\ Decided
  BY DEF Remembered, FilesOK, Pending, Blamed, Decided
<1> QED
  BY <1>3, <1>4, <1>5 DEF SessionInv

LEMMA SessionStep == SessionInv /\ [Next]_vars => SessionInv'
<1> SUFFICES ASSUME SessionInv, [Next]_vars PROVE SessionInv'
  OBVIOUS
<1> USE OutcomeAssumption DEF SessionInv, world, session, hist
<1>0. ASSUME Loading
      PROVE  /\ Top \in Frames /\ Tail(stack) \in Seq(Frames)
             /\ Elements(stack) = {Top} \cup Elements(Tail(stack))
             /\ Top.source \in Source /\ Top.package \in Package
             /\ FrameOK(Top) /\ opened[Top.source] > 0 /\ outcome = "none"
  <2>1. /\ Top \in Frames /\ Tail(stack) \in Seq(Frames)
        /\ Elements(stack) = {Top} \cup Elements(Tail(stack))
    BY <1>0, Popped DEF Loading, Top, SessionTypeOK
  <2>2. Top.source \in Source /\ Top.package \in Package
    BY <2>1 DEF Frames
  <2> QED
    BY <1>0, <2>1, <2>2 DEF FrameOK, FrameAt, Decided, Loading
<1>1. CASE ImportSource
  <2> DEFINE root == Head(roots)
  <2>1. /\ root \in Root /\ Tail(roots) \in Seq(Root) /\ stack = <<>> /\ Elements(stack) = {}
        /\ root.package \in Package /\ root.source \in Source /\ outcome = "none"
    <3>1. root \in Root /\ Tail(roots) \in Seq(Root)
      BY <1>1 DEF ImportSource, SessionTypeOK
    <3> QED
      BY <1>1, <3>1, EmptyStack DEF ImportSource, Loading, Root, Decided
  <2>2. CASE root.package \in lookupVersioned
    <3>1. /\ roots' = Tail(roots) /\ errors' = TRUE /\ duplicate' = TRUE
          /\ UNCHANGED <<world, stack, session, reported, outcome, opened>>
      BY <1>1, <2>2 DEF ImportSource
    <3>2. SessionTypeOK' /\ Decided' /\ Blamed'
      BY <2>1, <3>1 DEF SessionTypeOK, WorldOK, Decided, Blamed, Good
    <3>3. Remembered' /\ FilesOK' /\ Pending' /\ \A f \in Elements(stack') : FrameOK(f)'
      BY <3>1 DEF Remembered, FilesOK, Pending, Present, Fine, Good, FrameOK
    <3> QED
      BY <3>2, <3>3
  <2>3. CASE root.package \notin lookupVersioned
    <3>0. PICK f : f = Frame(root.package, root.source)
      OBVIOUS
    <3>1. /\ roots' = Tail(roots) /\ lookupVersioned' = lookupVersioned \cup {root.package}
          /\ stack' = <<f>> \o stack /\ opened' = [opened EXCEPT ![root.source] = @ + 1]
          /\ UNCHANGED <<world, lookupRequired, files, reported, errors, outcome, duplicate>>
      BY <1>1, <2>3, <3>0 DEF ImportSource, Open
    <3>2. f \in Frames /\ f.package = root.package /\ f.source = root.source
      BY <2>1, <3>0 DEF Frame, Frames
    <3>3. stack' \in Seq(Frames) /\ Elements(stack') = {f}
      <4>1. stack \in Seq(Frames)
        BY DEF SessionTypeOK
      <4>2. stack' = <<f>> \o stack
        BY <3>1
      <4>3. stack' \in Seq(Frames) /\ Elements(stack') = {f} \cup Elements(stack)
        BY <3>2, <4>1, <4>2, Pushed
      <4> QED
        BY <2>1, <4>3
    <3>4. SessionTypeOK'
      BY <2>1, <3>1, <3>3 DEF SessionTypeOK, WorldOK
    <3>5. \A s \in Source : opened'[s] > 0 <=> opened[s] > 0 \/ s = root.source
      BY <2>1, <3>1 DEF SessionTypeOK
    <3>6. FrameOK(f)'
      <4>1. Before(f) = {} /\ f.next = 1 /\ ~f.diag
        BY <3>0 DEF Before, Frame
      <4>2. Len(uses'[f.source]) \in Nat
        BY <2>1, <3>1, <3>2 DEF SessionTypeOK, WorldOK
      <4> QED
        BY <2>1, <3>2, <3>5, <4>1, <4>2 DEF FrameOK, FrameAt
    <3> HIDE DEF root
    <3>7. Remembered' /\ FilesOK' /\ Decided'
      BY <2>1, <3>1 DEF Remembered, FilesOK, Decided
    <3>8. Pending'
      BY <2>1, <3>1, <3>2, <3>3, <3>5 DEF Pending, Present, Fine, Good
    <3>9. Blamed'
      BY <3>1, <3>5 DEF Blamed, Good
    <3> QED
      BY <3>3, <3>4, <3>6, <3>7, <3>8, <3>9
  <2> QED
    BY <2>2, <2>3

\* The next `use` does not have to be loaded: it was, or it cannot be found.
<1>2. ASSUME HasUse, NEW lookup, NEW d \in BOOLEAN, Skip(d), lookupRequired' = lookup,
             UNCHANGED <<world, roots, lookupVersioned, files, reported, errors, outcome, hist>>,
             NextUse \in DOMAIN lookup, d <=> lookup[NextUse] = NoPackage,
             DOMAIN lookup \subseteq DOMAIN lookupRequired \cup {NextUse},
             DOMAIN lookupRequired \subseteq DOMAIN lookup,
             \A r \in DOMAIN lookupRequired : lookup[r] = lookupRequired[r],
             NextUse \notin DOMAIN lookupRequired =>
                lookup[NextUse] = NoPackage /\ resolver[NextUse] = NoPackage
      PROVE  SessionInv'
  <2>g. PICK g : g = Onward(Top, d)
    OBVIOUS
  <2>0. Loading
    BY <1>2 DEF HasUse
  <2>1. NextUse \in Required /\ Top.next <= Len(uses[Top.source])
    BY <1>0, <1>2, <2>0 DEF HasUse, NextUse, SessionTypeOK, WorldOK, Frames
  <2>2. FrameAt(Top, uses, lookup, opened)
    BY <1>0, <1>2, <2>0, FrameStays DEF FrameOK
  <2>3. /\ g \in Frames /\ g.package = Top.package /\ g.source = Top.source
        /\ FrameAt(g, uses, lookup, opened)
    <3>1. uses \in [Source -> Seq(Required)] /\ Top \in Frames
      BY <1>0, <2>0 DEF SessionTypeOK, WorldOK
    <3>2. uses[Top.source][Top.next] \in DOMAIN lookup
      BY <1>2 DEF NextUse
    <3>3. d <=> lookup[uses[Top.source][Top.next]] = NoPackage
      BY <1>2 DEF NextUse
    <3>4. d \in BOOLEAN
      BY <1>2
    <3> QED
      BY <2>1, <2>2, <2>g, <3>1, <3>2, <3>3, <3>4, Advanced
  <2>4. stack' \in Seq(Frames) /\ Elements(stack') = {g} \cup Elements(Tail(stack))
    BY <1>0, <1>2, <2>0, <2>3, <2>g, Pushed DEF Skip, Onward
  <2>5. SessionTypeOK'
    BY <1>2, <2>1, <2>4 DEF SessionTypeOK, WorldOK
  <2>6. \A f \in Elements(stack') : FrameOK(f)'
    <3>1. \A f \in Elements(Tail(stack)) : f \in Frames /\ FrameOK(f)
      BY <1>0, <2>0, SeqElements
    <3> QED
      BY <1>2, <2>3, <2>4, <3>1, FrameStays DEF FrameOK
  <2>7. Remembered' /\ FilesOK'
    BY <1>2, <2>1 DEF Remembered, FilesOK
  <2>8. \A p : Present(p) => Present(p)'
    BY <1>0, <1>2, <2>0, <2>3, <2>4 DEF Present
  <2>9. \A s \in Source : (\E f \in Elements(stack) : f.source = s)
                            => \E f \in Elements(stack') : f.source = s
    BY <1>0, <2>0, <2>3, <2>4
  <2>10. Pending'
    BY <1>2, <2>8, <2>9 DEF Pending, Fine, Good
  <2>11. Blamed' /\ Decided'
    BY <1>0, <1>2, <2>0 DEF Blamed, Decided, Good
  <2> QED
    BY <2>5, <2>6, <2>7, <2>10, <2>11
<1>3. CASE UseKnown
  <2>1. PICK d \in BOOLEAN : d <=> lookupRequired[NextUse] = NoPackage
    OBVIOUS
  <2>2. Skip(d)
    BY <1>3, <2>1 DEF UseKnown, Skip
  <2> QED
    BY <1>2, <1>3, <2>1, <2>2 DEF UseKnown
<1>4. CASE UseMissing
  <2>1. PICK lookup : lookup = With(lookupRequired, NextUse, NoPackage)
    OBVIOUS
  <2>2. /\ DOMAIN lookup = DOMAIN lookupRequired \cup {NextUse}
        /\ lookup[NextUse] = NoPackage
        /\ \A r \in DOMAIN lookupRequired : lookup[r] = lookupRequired[r]
    <3>1. NextUse \notin DOMAIN lookupRequired
      BY <1>4 DEF UseMissing
    <3> QED
      BY <2>1, <3>1 DEF With
  <2>3. Skip(TRUE) /\ lookupRequired' = lookup /\ resolver[NextUse] = NoPackage /\ HasUse
    BY <1>4, <2>1 DEF UseMissing
  <2>4. UNCHANGED <<world, roots, lookupVersioned, files, reported, errors, outcome, hist>>
    BY <1>4 DEF UseMissing
  <2> HIDE DEF Skip
  <2> QED
    BY <1>2, <2>2, <2>3, <2>4
\* Something is found wrong with the file, and everything that waits for it fails.
<1>5. ASSUME Loading, NEW s \in Source, opened[s] > 0, ~Good(s), Abort,
             UNCHANGED <<world, roots, lookupRequired, lookupVersioned, outcome, hist>>,
             FilesOK', DOMAIN files' \subseteq Package, \A p \in DOMAIN files' : files'[p] \in Source
      PROVE  SessionInv'
  <2>1. stack' = <<>> /\ reported' = TRUE /\ errors' = TRUE /\ Elements(stack') = {}
    BY <1>5, EmptyStack DEF Abort
  <2>2. SessionTypeOK'
    BY <1>5, <2>1 DEF SessionTypeOK, WorldOK
  <2>3. Remembered' /\ Pending' /\ Blamed'
    BY <1>5, <2>1 DEF Remembered, Pending, Blamed, Good
  <2>4. Decided'
    BY <1>0, <1>5 DEF Decided
  <2> QED
    BY <1>5, <2>1, <2>2, <2>3, <2>4
<1>6. CASE UseBroken
  <2>1. Loading /\ Top.next \in DOMAIN uses[Top.source] /\ resolver[NextUse] \notin Source
    BY <1>0, <1>6 DEF UseBroken, HasUse, SessionTypeOK, WorldOK, Frames
  <2>2. ~Good(Top.source)
    BY <2>1 DEF Good, NextUse
  <2>3. FilesOK'
    BY <1>6 DEF UseBroken, FilesOK
  <2> QED
    BY <1>0, <1>5, <1>6, <2>1, <2>2, <2>3 DEF UseBroken, SessionTypeOK
<1>7. CASE Reject
  <2>1. Loading
    BY <1>7 DEF Reject
  <2>2. ~Good(Top.source)
    <3>1. CASE flaw[Top.source] # "none"
      BY <3>1 DEF Good
    <3>2. CASE Top.diag
      <4>1. PICK i \in Before(Top) : lookupRequired[uses[Top.source][i]] = NoPackage
        BY <1>0, <2>1, <3>2 DEF FrameOK, FrameAt
      <4>2. uses[Top.source][i] \in DOMAIN lookupRequired /\ Top.next <= Len(uses[Top.source]) + 1
        BY <1>0, <2>1 DEF FrameOK, FrameAt
      <4>3. i \in DOMAIN uses[Top.source]
        BY <1>0, <2>1, <4>2 DEF Before, Frames, SessionTypeOK, WorldOK
      <4>4. resolver[uses[Top.source][i]] \notin Source
        BY <4>1, <4>2 DEF Remembered
      <4> QED
        BY <4>3, <4>4 DEF Good
    <3> QED
      BY <1>7, <3>1, <3>2 DEF Reject
  <2>3. FilesOK'
    BY <1>7 DEF Reject, FilesOK
  <2> QED
    BY <1>0, <1>5, <1>7, <2>1, <2>2, <2>3 DEF Reject, SessionTypeOK
<1>8. CASE UseFound
  <2>f. PICK f : f = Frame(versionOf[NextUse], resolver[NextUse])
    OBVIOUS
  <2>g. PICK g : g = [Top EXCEPT !.next = @ + 1]
    OBVIOUS
  <2>l. PICK lookup : lookup = With(lookupRequired, NextUse, versionOf[NextUse])
    OBVIOUS
  <2>0. Loading /\ NextUse \notin DOMAIN lookupRequired /\ resolver[NextUse] \in Source
    BY <1>8 DEF UseFound, HasUse
  <2>1. NextUse \in Required /\ Top.next <= Len(uses[Top.source])
    <3>1. Top.next <= Len(uses[Top.source])
      BY <1>8 DEF UseFound, HasUse
    <3> QED
      BY <1>0, <2>0, <3>1 DEF NextUse, SessionTypeOK, WorldOK, Frames
  <2>2. /\ lookupRequired' = lookup
        /\ stack' = <<f, g>> \o Tail(stack)
        /\ opened' = [opened EXCEPT ![resolver[NextUse]] = @ + 1]
        /\ UNCHANGED <<world, roots, lookupVersioned, files, reported, errors, outcome, duplicate>>
    BY <1>8, <2>f, <2>g, <2>l DEF UseFound
  <2>3. /\ DOMAIN lookup = DOMAIN lookupRequired \cup {NextUse}
        /\ lookup[NextUse] = versionOf[NextUse]
        /\ \A r \in DOMAIN lookupRequired : lookup[r] = lookupRequired[r]
    BY <2>0, <2>l DEF With
  <2>4. versionOf[NextUse] \in Package /\ versionOf[NextUse] # NoPackage
    BY <2>1 DEF SessionTypeOK, WorldOK
  <2>5. f \in Frames /\ f.package = versionOf[NextUse] /\ f.source = resolver[NextUse]
    BY <2>0, <2>4, <2>f DEF Frame, Frames
  <2>6. \A s \in Source : opened'[s] > 0 <=> opened[s] > 0 \/ s = f.source
    BY <2>0, <2>2, <2>5 DEF SessionTypeOK
  <2>7. FrameAt(Top, uses, lookup, opened')
    BY <1>0, <2>0, <2>3, <2>6, FrameStays DEF FrameOK
  <2>8. /\ g \in Frames /\ g.package = Top.package /\ g.source = Top.source
        /\ FrameAt(g, uses, lookup, opened')
    <3>1. uses \in [Source -> Seq(Required)] /\ Top \in Frames
      BY <1>0, <2>0 DEF SessionTypeOK, WorldOK
    <3>2. uses[Top.source][Top.next] \in DOMAIN lookup
      BY <2>3 DEF NextUse
    <3>d. PICK d \in BOOLEAN : d = FALSE
      OBVIOUS
    <3>3. d <=> lookup[uses[Top.source][Top.next]] = NoPackage
      BY <2>3, <2>4, <3>d DEF NextUse
    <3>4. g = Onward(Top, d)
      BY <2>g, <3>1, <3>d DEF Frames, Onward
    <3> QED
      BY <2>1, <2>7, <3>1, <3>2, <3>3, <3>4, Advanced
  <2>9. FrameAt(f, uses, lookup, opened')
    <3>1. Before(f) = {} /\ f.next = 1 /\ ~f.diag
      BY <2>f DEF Before, Frame
    <3>2. Len(uses[f.source]) \in Nat /\ f.source \in Source
      BY <2>0, <2>5 DEF SessionTypeOK, WorldOK
    <3> QED
      BY <2>6, <3>1, <3>2 DEF FrameAt
  <2>10. stack' \in Seq(Frames) /\ Elements(stack') = {f, g} \cup Elements(Tail(stack))
    <3>1. Tail(stack) \in Seq(Frames)
      BY <1>0, <2>0
    <3>2. PICK s : s = <<g>> \o Tail(stack)
      OBVIOUS
    <3>3. s \in Seq(Frames) /\ Elements(s) = {g} \cup Elements(Tail(stack))
      BY <2>8, <3>1, <3>2, Pushed
    <3>4. <<f, g>> \o Tail(stack) = <<f>> \o s
      BY <2>5, <2>8, <3>1, <3>2
    <3>5. stack' = <<f>> \o s
      BY <2>2, <3>4
    <3>6. <<f>> \o s \in Seq(Frames) /\ Elements(<<f>> \o s) = {f} \cup Elements(s)
      BY <2>5, <3>3, Pushed
    <3> QED
      BY <3>3, <3>5, <3>6
  <2>11. SessionTypeOK'
    <3>1. opened' \in [Source -> Nat]
      BY <2>0, <2>2 DEF SessionTypeOK
    <3>2. \A r \in DOMAIN lookup : lookup[r] \in Package \cup {NoPackage}
      BY <2>3, <2>4 DEF SessionTypeOK
    <3>3. DOMAIN lookup \subseteq Required
      BY <2>1, <2>3 DEF SessionTypeOK
    <3> QED
      BY <2>2, <2>10, <3>1, <3>2, <3>3 DEF SessionTypeOK, WorldOK
  <2>12. \A h \in Elements(stack') : FrameOK(h)'
    <3>1. \A h \in Elements(Tail(stack)) : h \in Frames /\ FrameOK(h)
      BY <1>0, <2>0, SeqElements
    <3>2. \A h \in Elements(Tail(stack)) : FrameAt(h, uses, lookup, opened')
      BY <2>3, <2>6, <3>1, FrameStays DEF FrameOK
    <3> QED
      BY <2>2, <2>8, <2>9, <2>10, <3>2 DEF FrameOK
  <2>13. Remembered'
    BY <2>0, <2>2, <2>3, <2>4 DEF Remembered
  <2>14. FilesOK'
    BY <2>2, <2>3 DEF FilesOK
  <2>15. (\A p : Present(p) => Present(p)') /\ Present(f.package)'
    <3>1. \A h \in Elements(stack) : h = Top \/ h \in Elements(stack')
      BY <1>0, <2>0, <2>10
    <3>2. f \in Elements(stack') /\ g \in Elements(stack')
      BY <2>10
    <3> QED
      BY <2>2, <2>8, <3>1, <3>2 DEF Present
  <2>16. /\ \A s \in Source : (\E h \in Elements(stack) : h.source = s)
                                 => \E h \in Elements(stack') : h.source = s
         /\ \E h \in Elements(stack') : h.source = f.source
    BY <1>0, <2>0, <2>8, <2>10
  <2>17. Pending'
    <3>1. \A s \in Source : Fine(s) => Fine(s)'
      BY <2>2 DEF Fine, Good
    <3>2. lookup[NextUse] = f.package
      BY <2>3, <2>5
    <3> QED
      BY <2>2, <2>3, <2>6, <2>15, <2>16, <3>1, <3>2 DEF Pending
  <2>18. Blamed' /\ Decided'
    BY <1>0, <2>0, <2>2, <2>6 DEF Blamed, Decided, Good
  <2> QED
    BY <2>11, <2>12, <2>13, <2>14, <2>17, <2>18
<1>9. CASE ProcessFile
  <2>1. Loading /\ ~Top.diag /\ flaw[Top.source] \in {"none", "conflict"}
    BY <1>9 DEF ProcessFile
  <2>2. /\ UNCHANGED <<world, roots, lookupRequired, lookupVersioned, outcome, hist>>
        /\ files' = IF Top.package \in DOMAIN files THEN files
                    ELSE With(files, Top.package, Top.source)
    BY <1>9 DEF ProcessFile
  <2>3. \A i \in DOMAIN uses[Top.source] :
            /\ uses[Top.source][i] \in DOMAIN lookupRequired
            /\ lookupRequired[uses[Top.source][i]] # NoPackage
    <3>1. ~(Top.next <= Len(uses[Top.source]))
      BY <1>9, <2>1 DEF ProcessFile, HasUse
    <3>2. Top.next \in Nat /\ Len(uses[Top.source]) \in Nat
          /\ DOMAIN uses[Top.source] = 1..Len(uses[Top.source])
      BY <1>0, <2>1 DEF Frames, SessionTypeOK, WorldOK
    <3>3. DOMAIN uses[Top.source] \subseteq Before(Top)
      BY <3>1, <3>2 DEF Before
    <3> QED
      BY <1>0, <2>1, <3>3 DEF FrameOK, FrameAt
  <2>4. /\ DOMAIN files' = DOMAIN files \cup {Top.package}
        /\ \A p \in DOMAIN files : files'[p] = files[p]
        /\ Top.package \notin DOMAIN files => files'[Top.package] = Top.source
    BY <2>2 DEF With
  <2>5. DOMAIN files' \subseteq Package /\ \A p \in DOMAIN files' : files'[p] \in Source
    BY <1>0, <2>1, <2>4 DEF SessionTypeOK
  <2>6. FilesOK'
    BY <2>2, <2>3, <2>4 DEF FilesOK
  <2>7. CASE Top.package \notin DOMAIN files /\ flaw[Top.source] = "conflict"
    <3>1. Abort
      BY <1>9, <2>7 DEF ProcessFile
    <3>2. ~Good(Top.source)
      BY <2>7 DEF Good
    <3> QED
      BY <1>0, <1>5, <2>1, <2>2, <2>5, <2>6, <3>1, <3>2
  <2>8. CASE ~(Top.package \notin DOMAIN files /\ flaw[Top.source] = "conflict")
    <3>1. stack' = Tail(stack) /\ UNCHANGED <<reported, errors>>
      BY <1>9, <2>8 DEF ProcessFile
    <3>2. SessionTypeOK'
      BY <1>0, <2>1, <2>2, <2>5, <3>1 DEF SessionTypeOK, WorldOK
    <3>3. \A f \in Elements(stack') : FrameOK(f)'
      BY <1>0, <2>1, <2>2, <3>1 DEF FrameOK
    <3>4. \A i \in DOMAIN uses[Top.source] : resolver[uses[Top.source][i]] \in Source
      BY <2>3 DEF Remembered
    <3>5. \A p : Present(p) => Present(p)'
      BY <1>0, <2>1, <2>4, <3>1 DEF Present
    <3>6. ~reported => \A p \in DOMAIN files' : flaw[files'[p]] = "none"
      BY <2>1, <2>4, <2>8 DEF Pending
    <3>7. ~reported => \A s \in Source : opened[s] > 0 /\ flaw[s] = "conflict"
                           => \A p \in DOMAIN files' : files'[p] # s
      BY <3>6
    <3>t. PICK t \in Source : t = Top.source
      BY <1>0, <2>1
    <3>8. ~reported => Fine(t)'
      <4>1. CASE flaw[t] = "none"
        BY <2>2, <3>4, <3>t, <4>1 DEF Fine, Good
      <4>2. CASE flaw[t] = "conflict"
        BY <1>0, <2>1, <2>2, <3>4, <3>7, <3>t, <4>2 DEF Fine
      <4> QED
        BY <2>1, <3>t, <4>1, <4>2
    <3>9. ~reported => \A s \in Source : opened[s] > 0 /\ Fine(s) => Fine(s)'
      BY <2>2, <3>7 DEF Fine, Good
    <3>10. \A s \in Source : (\E f \in Elements(stack) : f.source = s)
                    => s = t \/ \E f \in Elements(stack') : f.source = s
      BY <1>0, <2>1, <3>1, <3>t
    <3>11. Pending'
      BY <2>2, <3>1, <3>5, <3>6, <3>8, <3>9, <3>10 DEF Pending
    <3>12. Remembered' /\ Blamed' /\ Decided'
      BY <1>0, <2>1, <2>2, <3>1 DEF Remembered, Blamed, Decided, Good
    <3> QED
      BY <2>6, <3>2, <3>3, <3>11, <3>12
  <2> QED
    BY <2>7, <2>8
<1>10. CASE Translate
  <2>1. /\ UNCHANGED <<world, roots, stack, session, reported, errors, hist>>
        /\ roots = <<>> /\ stack = <<>>
        /\ outcome' = IF reported \/ (errors /\ driver = "cli") THEN "refused" ELSE "translated"
    BY <1>10 DEF Translate, Loading
  <2>2. SessionTypeOK' /\ Decided'
    BY <2>1 DEF SessionTypeOK, WorldOK, Decided
  <2>3. Remembered' /\ FilesOK' /\ Pending' /\ Blamed' /\ \A f \in Elements(stack') : FrameOK(f)'
    BY <2>1 DEF Remembered, FilesOK, Pending, Present, Fine, Good, Blamed, FrameOK
  <2> QED
    BY <2>2, <2>3
<1>11. CASE UNCHANGED vars
  <2>1. UNCHANGED <<world, roots, stack, session, reported, errors, outcome, hist>>
    BY <1>11 DEF vars
  <2>2. SessionTypeOK' /\ Decided'
    BY <2>1 DEF SessionTypeOK, WorldOK, Decided
  <2>3. Remembered' /\ FilesOK' /\ Pending' /\ Blamed' /\ \A f \in Elements(stack') : FrameOK(f)'
    BY <2>1 DEF Remembered, FilesOK, Pending, Present, Fine, Good, Blamed, FrameOK
  <2> QED
    BY <2>2, <2>3
<1> QED
  BY <1>1, <1>3, <1>4, <1>6, <1>7, <1>8, <1>9, <1>10, <1>11 DEF Next, Finished

-----------------------------------------------------------------------------
LEMMA SessionKept == Spec => []SessionInv
<1>1. Init => SessionInv
  BY SessionInitial
<1>2. SessionInv /\ [Next]_vars => SessionInv'
  BY SessionStep
<1> QED
  BY <1>1, <1>2, PTL DEF Spec

(* What a translated session refers to is part of it (Session::import,       *)
(* import_source and process_file): a package found is registered before     *)
(* anything is translated, whatever cycles and failures there were.          *)
THEOREM ClosedAtTheEnd == Spec => []Closed
<1>1. SessionInv => Closed
  <2> SUFFICES ASSUME SessionInv, outcome = "translated" PROVE Closed
    BY DEF Closed
  <2>1. ~reported /\ Elements(stack) = {}
    BY EmptyStack DEF SessionInv, Decided
  <2> QED
    BY <2>1 DEF SessionInv, Pending, Present, FilesOK, Closed
<1> QED
  BY <1>1, SessionKept, PTL

(* Nothing wrong with a source that was opened is passed over by a session   *)
(* that is translated (try_with_diag, with_span, Session::translate).        *)
THEOREM NothingPassedOver == Spec => []NothingSilent
<1>1. SessionInv => NothingSilent
  <2> SUFFICES ASSUME SessionInv, outcome = "translated" PROVE NothingSilent
    BY DEF NothingSilent
  <2>1. ~reported /\ Elements(stack) = {}
    BY EmptyStack DEF SessionInv, Decided
  <2> QED
    BY <2>1 DEF SessionInv, Pending, Fine, NothingSilent
<1> QED
  BY <1>1, SessionKept, PTL

(* A session is refused only when some source it opened is at fault, or the  *)
(* command line was given a package twice (import_source, translate).        *)
THEOREM RefusedFairly == Spec => []RefusedForCause
<1>1. SessionInv => RefusedForCause
  BY DEF SessionInv, Decided, Blamed, RefusedForCause
<1> QED
  BY <1>1, SessionKept, PTL

-----------------------------------------------------------------------------
(* How often a source was opened is bounded by what was looked up.          *)
Counted ==
    /\ IsFiniteSet(DOMAIN lookupRequired) /\ IsFiniteSet(lookupVersioned)
    /\ OpenedOnce

LEMMA OneMore ==
    ASSUME NEW S, IsFiniteSet(S), NEW x, x \notin S
    PROVE  /\ IsFiniteSet(S \cup {x}) /\ Cardinality(S) \in Nat
           /\ Cardinality(S \cup {x}) = Cardinality(S) + 1
BY FS_AddElement, FS_CardinalityType

LEMMA CountedInitial == Init => Counted
<1> SUFFICES ASSUME Init PROVE Counted
  OBVIOUS
<1>1. DOMAIN lookupRequired = {} /\ lookupVersioned = {} /\ IsFiniteSet({}) /\ Cardinality({}) = 0
  BY FS_EmptySet DEF Init
<1>2. ASSUME NEW s \in Source
      PROVE  opened[s] <= Cardinality({r \in DOMAIN lookupRequired : resolver[r] = s})
                          + Cardinality(lookupVersioned)
  <2>1. opened[s] = 0 /\ {r \in DOMAIN lookupRequired : resolver[r] = s} = {}
    BY <1>1 DEF Init
  <2> QED
    BY <1>1, <2>1
<1> QED
  BY <1>1, <1>2 DEF Counted, OpenedOnce

LEMMA CountedStep == SessionInv /\ Counted /\ [Next]_vars => Counted'
<1> SUFFICES ASSUME SessionInv, Counted, [Next]_vars PROVE Counted'
  OBVIOUS
<1> DEFINE From(s, D) == {r \in D : resolver[r] = s}
<1>1. ASSUME NEW s \in Source
      PROVE  /\ IsFiniteSet(From(s, DOMAIN lookupRequired)) /\ opened[s] \in Nat
             /\ Cardinality(From(s, DOMAIN lookupRequired)) \in Nat
             /\ Cardinality(lookupVersioned) \in Nat
             /\ opened[s] <= Cardinality(From(s, DOMAIN lookupRequired))
                             + Cardinality(lookupVersioned)
  <2>1. IsFiniteSet(From(s, DOMAIN lookupRequired))
    BY FS_Subset DEF Counted
  <2>2. opened[s] \in Nat
    BY DEF SessionInv, SessionTypeOK
  <2> QED
    BY <2>1, <2>2, FS_CardinalityType DEF Counted, OpenedOnce
<1>2. CASE UNCHANGED <<resolver, lookupRequired, lookupVersioned, opened>>
  BY <1>2 DEF Counted, OpenedOnce
<1>3. CASE ImportSource /\ Head(roots).package \notin lookupVersioned
  <2>1. /\ lookupVersioned' = lookupVersioned \cup {Head(roots).package}
        /\ opened' = [opened EXCEPT ![Head(roots).source] = @ + 1]
        /\ UNCHANGED <<lookupRequired, resolver>>
    BY <1>3 DEF ImportSource, Open, world
  <2>2. IsFiniteSet(lookupVersioned)
    BY DEF Counted
  <2>3. /\ IsFiniteSet(lookupVersioned')
        /\ Cardinality(lookupVersioned') = Cardinality(lookupVersioned) + 1
    BY <1>3, <2>1, <2>2, OneMore
  <2>4. ASSUME NEW s \in Source
        PROVE  opened'[s] <= Cardinality({r \in DOMAIN lookupRequired' : resolver'[r] = s})
                             + Cardinality(lookupVersioned')
    <3>1. From(s, DOMAIN lookupRequired) = {r \in DOMAIN lookupRequired' : resolver'[r] = s}
      BY <2>1
    <3>2. opened'[s] \in {opened[s], opened[s] + 1}
      BY <2>1 DEF SessionInv, SessionTypeOK
    <3> HIDE DEF From
    <3> QED
      BY <1>1, <2>3, <3>1, <3>2
  <2> QED
    BY <2>1, <2>3, <2>4 DEF Counted, OpenedOnce
<1>4. CASE UseMissing \/ UseFound
  <2>1. PICK x : x = NextUse
    OBVIOUS
  <2>2. /\ x \notin DOMAIN lookupRequired
        /\ DOMAIN lookupRequired' = DOMAIN lookupRequired \cup {x}
        /\ UNCHANGED <<resolver, lookupVersioned>>
        /\ \/ resolver[x] = NoPackage /\ opened' = opened
           \/ resolver[x] \in Source /\ opened' = [opened EXCEPT ![resolver[x]] = @ + 1]
    BY <1>4, <2>1 DEF UseMissing, UseFound, With, world, hist
  <2>3. IsFiniteSet(DOMAIN lookupRequired')
    BY <2>2, OneMore DEF Counted
  <2>4. ASSUME NEW s \in Source
        PROVE  opened'[s] <= Cardinality(From(s, DOMAIN lookupRequired'))
                             + Cardinality(lookupVersioned')
    <3>1. CASE resolver[x] = s
      <4>1. From(s, DOMAIN lookupRequired') = From(s, DOMAIN lookupRequired) \cup {x}
        BY <2>2, <3>1
      <4>2. x \notin From(s, DOMAIN lookupRequired)
        BY <2>2
      <4>3. opened'[s] \in {opened[s], opened[s] + 1}
        BY <2>2 DEF SessionInv, SessionTypeOK
      <4> HIDE DEF From
      <4>4. Cardinality(From(s, DOMAIN lookupRequired'))
            = Cardinality(From(s, DOMAIN lookupRequired)) + 1
        BY <1>1, <4>1, <4>2, OneMore
      <4> QED
        BY <1>1, <2>2, <4>3, <4>4
    <3>2. CASE resolver[x] # s
      <4>1. From(s, DOMAIN lookupRequired') = From(s, DOMAIN lookupRequired)
        BY <2>2, <3>2
      <4>2. opened'[s] = opened[s]
        BY <2>2, <3>2 DEF SessionInv, SessionTypeOK
      <4> HIDE DEF From
      <4> QED
        BY <1>1, <2>2, <4>1, <4>2
    <3> QED
      BY <3>1, <3>2
  <2>5. \A s \in Source : From(s, DOMAIN lookupRequired')
                            = {r \in DOMAIN lookupRequired' : resolver'[r] = s}
    BY <2>2
  <2> HIDE DEF From
  <2> QED
    BY <2>2, <2>3, <2>4, <2>5 DEF Counted, OpenedOnce
<1>5. \/ UNCHANGED <<resolver, lookupRequired, lookupVersioned, opened>>
      \/ ImportSource /\ Head(roots).package \notin lookupVersioned
      \/ UseMissing \/ UseFound
  <2> USE DEF world, session, hist
  <2>1. CASE ImportSource
    BY <2>1 DEF ImportSource
  <2>2. CASE UseKnown \/ UseBroken
    BY <2>2 DEF UseKnown, UseBroken
  <2>3. CASE Reject \/ ProcessFile \/ Translate
    BY <2>3 DEF Reject, ProcessFile, Translate
  <2>4. CASE UNCHANGED vars
    BY <2>4 DEF vars
  <2> QED
    BY <2>1, <2>2, <2>3, <2>4 DEF Next, Finished
<1> QED
  BY <1>2, <1>3, <1>4, <1>5

(* No required package and no root is loaded twice, however packages use     *)
(* each other (Session::import remembers before it loads).                   *)
THEOREM LoadedOnce == Spec => []OpenedOnce
<1>1. Init => Counted
  BY CountedInitial
<1>2. SessionInv /\ Counted /\ [Next]_vars => Counted'
  BY CountedStep
<1>3. Counted => OpenedOnce
  BY DEF Counted
<1> QED
  BY <1>1, <1>2, <1>3, SessionKept, PTL DEF Spec
=============================================================================
