------------------------------- MODULE MCUpkeep -------------------------------
(***************************************************************************)
(* Small instances of the parts around the compiler that share no state:   *)
(* requirements on versions, names of packages, OpenAPI documents,         *)
(* `reproto watch`, indexes kept in git, `reproto self-update`, the        *)
(* releases of a package, calls of services, and the names that the        *)
(* language server knows.  A behaviour is one of one of them, so that a    *)
(* single run checks them all.                                             *)
(***************************************************************************)
EXTENDS Requirements, PackageNames, OpenApi, Watch, GitCheckout, SelfUpdate,
        Semck, Navigation, MCServices

VARIABLE part  \* the part that moves

parts == <<requirementVars, nameVars, docVars, watchVars, gitVars, updateVars,
           releaseVars, serviceVars, navigationVars>>
upkeepVars == <<part, parts>>

(* The parts that do not move start in one of their initial states. *)
OneText == CHOOSE t \in RangeTexts : TRUE
OneLoaded == CHOOSE P \in Loaded : TRUE
OneDocument == CHOOSE d \in Documents : TRUE
OneProject == CHOOSE p \in Project : TRUE
OneService == CHOOSE s \in Offered : TRUE
NoFiles == <<>>

Init ==
    /\ part \in {"requirement", "names", "document", "watch", "git", "update",
                "releases", "service", "navigation"}
    /\ IF part = "requirement" THEN TRUE ELSE text = OneText
    /\ IF part = "names" THEN TRUE
       ELSE joins = FALSE /\ keyword = <<>> /\ waiting = [p \in OneLoaded |-> 0]
    /\ IF part = "document" THEN TRUE ELSE todo = OneDocument
    /\ IF part = "watch" THEN TRUE ELSE project = OneProject
    /\ IF part = "service" THEN TRUE ELSE service = OneService
    /\ IF part = "navigation" THEN TRUE ELSE texts = NoFiles
    /\ RequirementInit /\ NamesInit /\ DocInit /\ WatchInit
    /\ GitInit
    /\ UpdateInit
    /\ ReleasesInit /\ ServiceInit /\ NavigationInit

Next ==
    \/ /\ part = "requirement" /\ RequirementNext
       /\ UNCHANGED <<part, nameVars, docVars, watchVars, gitVars,
                      updateVars, releaseVars, serviceVars, navigationVars>>
    \/ /\ part = "names" /\ NamesNext
       /\ UNCHANGED <<part, requirementVars, docVars, watchVars, gitVars,
                      updateVars, releaseVars, serviceVars, navigationVars>>
    \/ /\ part = "document" /\ DocNext
       /\ UNCHANGED <<part, requirementVars, nameVars, watchVars, gitVars,
                      updateVars, releaseVars, serviceVars, navigationVars>>
    \/ /\ part = "watch" /\ WatchNext
       /\ UNCHANGED <<part, requirementVars, nameVars, docVars, gitVars,
                      updateVars, releaseVars, serviceVars, navigationVars>>
    \/ /\ part = "git" /\ GitNext
       /\ UNCHANGED <<part, requirementVars, nameVars, docVars, watchVars,
                      updateVars, releaseVars, serviceVars, navigationVars>>
    \/ /\ part = "update" /\ UpdateNext
       /\ UNCHANGED <<part, requirementVars, nameVars, docVars, watchVars,
                      gitVars, releaseVars, serviceVars, navigationVars>>
    \/ /\ part = "releases" /\ ReleasesNext
       /\ UNCHANGED <<part, requirementVars, nameVars, docVars, watchVars,
                      gitVars, updateVars, serviceVars, navigationVars>>
    \/ /\ part = "service" /\ ServiceNext
       /\ UNCHANGED <<part, requirementVars, nameVars, docVars, watchVars,
                      gitVars, updateVars, releaseVars, navigationVars>>
    \/ /\ part = "navigation" /\ NavigationNext
       /\ UNCHANGED <<part, requirementVars, nameVars, docVars, watchVars,
                      gitVars, updateVars, releaseVars, serviceVars>>

Spec == Init /\ [][Next]_upkeepVars

-----------------------------------------------------------------------------
At(major, minor, patch, before) ==
    [major |-> major, minor |-> minor, patch |-> patch, pre |-> before, build |-> <<>>]

-----------------------------------------------------------------------------
(* Requirements: every operator with every shape of version, pairs that      *)
(* bound an interval, and what stands for any version.                       *)
N(n) == <<Digits(n, FALSE)>>
S(x) == <<Symbol(x)>>
DotParts == {<<>>} \cup {S(".") \o a : a \in {N(0), N(1), S("*")}}
Pres == {<<>>, S("-") \o N(1), S("-") \o <<IdentToken(Word(1))>> \o S("-") \o N(1)}
Predicates(operators) ==
    {o \o n \o m \o p \o q :
        o \in operators, n \in {N(0), N(1)}, m \in DotParts, p \in DotParts, q \in Pres}
Lower == {S(">=") \o N(1) \o S(".") \o N(0) \o S(".") \o N(0) \o q : q \in Pres}
TheRangeTexts ==
    {<<a>> : a \in Predicates({S(o) : o \in Ops} \cup {<<>>})}
    \cup {<<a, S(" ") \o b>> : a \in Lower, b \in Predicates({S("<"), S("^"), S("~")})}
    \cup {<<<<>>>>, <<S("*")>>, <<S("*"), S(">") \o N(1)>>, <<<<IdentToken(X)>>>>}
TheVersionTexts ==
    {a \o S(".") \o b \o S(".") \o c \o q :
        a, b, c \in {N(0), N(1), N(2)}, q \in Pres \cup {S("-") \o N(0), S("+") \o N(1)}}

-----------------------------------------------------------------------------
(* Packages: versions of one that differ in every part, two that naming runs *)
(* together (1.11 and 1.1.1), and packages named like them.                  *)
TheVWord == Word(1)
Foo == <<<<Word(2)>>>>
Versioned(v) == [path |-> Foo, version |-> <<v>>]
Unversioned(name) == [path |-> Append(Foo, name), version |-> <<>>]
Packages ==
    {Versioned(At(1, 0, 0, <<>>)), Versioned(At(1, 1, 1, <<>>)), Versioned(At(1, 1, 2, <<>>)),
     Versioned(At(1, 11, 0, <<>>)), Versioned(At(2, 0, 0, <<>>)),
     Versioned(At(1, 1, 1, <<Numeric(1)>>)), Versioned(At(1, 1, 1, <<Word(3)>>)),
     Unversioned(<<TheVWord, Numeric(1)>>), Unversioned(<<TheVWord, Numeric(1), Numeric(0)>>)}
TheLoaded == {P \in SUBSET Packages : Cardinality(P) <= 4}
TheKeyword == {<<>>, <<TheVWord, Numeric(1)>> :> <<Word(9)>>}

-----------------------------------------------------------------------------
(* Declarations with a name in two packages, in two versions and by several  *)
(* prefixes, that refer to each other.                                       *)
ReadAs(package, version, path, ends) ==
    [package |-> package, version |-> version, path |-> path, ends |-> ends]
Name(package, version, path) == ReadAs(package, version, path, [i \in DOMAIN path |-> i])
In(prefix, name) == [prefix |-> prefix, name |-> name]
TheAnyKey == In(<<>>, Name(<<>>, <<>>, <<"Any">>))
A1 == Name(<<"P">>, <<"V100">>, <<"A">>)
A2 == Name(<<"P">>, <<"V200">>, <<"A">>)
AQ == Name(<<"Q">>, <<>>, <<"A">>)
AB == Name(<<"P">>, <<>>, <<"A", "B">>)
I1 == Name(<<"P">>, <<"V100">>, <<"I">>)
IB == Name(<<"P">>, <<"V100">>, <<"I", "B">>)
IC == Name(<<"P">>, <<"V100">>, <<"I", "C">>)
ABC == Name(<<"P">>, <<>>, <<"A", "B", "C">>)
Service == Name(<<"P">>, <<>>, <<"S">>)
A1Read == ReadAs(<<>>, <<>>, <<"P", "V100", "A", "0">>, <<4>>)
Ref(prefix, name, depth) == [k |-> "name", key |-> In(prefix, name), depth |-> depth]
AnyType == [k |-> "any", key |-> TheAnyKey, depth |-> 1]
OtherType == [k |-> "other", key |-> TheAnyKey, depth |-> 0]
Decl(kind, fields, subs) == [kind |-> kind, fields |-> fields, subs |-> subs]
Sub(name, fields) == [name |-> name, fields |-> fields]
TheDeclared ==
    (A1 :> Decl("type", <<Ref(<<>>, AB, 0), Ref(<<"q">>, AQ, 1), AnyType>>, <<>>))
    @@ (A2 :> Decl("tuple", <<Ref(<<"p">>, A1, 0), OtherType>>, <<>>))
    @@ (AQ :> Decl("enum", <<>>, <<>>))
    @@ (AB :> Decl("untagged", <<Ref(<<>>, A1, 0)>>, <<Sub(ABC, <<Ref(<<"v">>, A1, 0)>>)>>))
    @@ (I1 :> Decl("tagged", <<Ref(<<"w">>, A1, 0)>>, <<Sub(IB, <<Ref(<<>>, I1, 0)>>), Sub(IC, <<>>)>>))
    @@ (Service :> Decl("service", <<>>, <<>>))
    @@ (A1Read :> Decl("enum", <<>>, <<>>))
Types ==
    {AnyType} \cup
    {Ref(k.prefix, k.name, d) : d \in {0, 1},
        k \in {In(<<>>, A1), In(<<"p">>, A1), In(<<"p2">>, A2), In(<<"q">>, AQ), In(<<>>, I1),
               In(<<>>, IB), In(<<>>, Service), In(<<>>, AB), In(<<>>, A1Read)}}
EndpointOf(path, vars, bodies) == [path |-> path, vars |-> vars, bodies |-> bodies]
TheDocuments ==
    {<<EndpointOf(b, <<x>>, <<y>>),
       EndpointOf(TRUE, <<>>, <<z, IF b THEN Ref(<<>>, A1, 0) ELSE OtherType>>)>> :
        b \in BOOLEAN, x \in {t \in Types : t.depth = 1}, y \in Types,
        z \in {t \in Types : t.depth = 0 \/ t = AnyType}}

-----------------------------------------------------------------------------
(* Projects of which files come and go, among them two of one directory.     *)
State(present, reads, writes, ok) ==
    [present |-> present, reads |-> reads, writes |-> writes, ok |-> ok]
Projects ==
    {State({"a"}, {"a"}, {"oa"}, TRUE),
     State({"a", "b", "c"}, {"a", "b", "c"}, {"oa", "ob"}, TRUE),
     State({"a", "b", "c"}, {"a", "c"}, {"oc"}, FALSE),
     State({"a", "c"}, {"a", "c"}, {"oa", "oc"}, TRUE),
     State({"a", "b", "c"}, {"a"}, {"oa"}, TRUE),
     State({"a", "c"}, {"a"}, {}, FALSE)}
Directories == [a |-> "x", b |-> "y", c |-> "y"]

-----------------------------------------------------------------------------
(* Commands that share a checkout differ in nothing, nor do releases in it.  *)
Interchangeable == Permutations(User) \cup Permutations(Release)

-----------------------------------------------------------------------------
(* A release, and one that needs --pre.                                      *)
ThePublished == {At(1, 0, 0, <<>>), At(1, 1, 0, <<Word(1)>>)}
TheInstalled == At(0, 9, 0, <<>>)
NoneSuch == At(0, 0, 0, <<>>)

-----------------------------------------------------------------------------
(* Releases: versions that differ in every part, a pre-release among them,   *)
(* and one declaration, of every kind.                                       *)
TheVersions == {At(1, 0, 0, <<>>), At(1, 0, 1, <<>>),
              At(1, 1, 0, <<Word(1)>>), At(1, 2, 1, <<>>)}

FieldOf(x, n, t, r) == [ident |-> x, name |-> n, type |-> t, required |-> r]
Scalars == {"string", "u32"}
Released(kind, fields, variants, endpoints, key) ==
    [kind |-> kind, fields |-> fields, variants |-> variants, endpoints |-> endpoints, key |-> key]

OneField(n) ==
    {<<FieldOf("x", n, "u32", r)>> : r \in BOOLEAN} \cup {<<FieldOf("x", n, "string", TRUE)>>}
TwoFields == {<<FieldOf("x", "x", "string", TRUE), FieldOf("y", "y", "u32", r)>> : r \in BOOLEAN}
OfTypes == {Released("type", f, <<>>, <<>>, "none") :
             f \in {<<>>} \cup OneField("x") \cup TwoFields \cup {<<FieldOf("x", "z", "u32", TRUE)>>}}
OfTuples == {Released("tuple", f, <<>>, <<>>, "none") :
                f \in {<<>>} \cup TwoFields \cup {<<s[2], s[1]>> : s \in {t \in TwoFields : t[2].required}}}
VariantOf(x, value) == [ident |-> x, value |-> value]
OfEnums == {Released("enum", <<>>, v, <<>>, "none") :
             v \in {<<VariantOf("A", 1)>>, <<VariantOf("A", 2)>>, <<VariantOf("A", 1), VariantOf("B", 2)>>}}
Method(x, q, r) == [ident |-> x, request |-> q, response |-> r]
OfServices == {Released("service", <<>>, <<>>, e, "none") :
                e \in {<<Method("get", "u32", r)>> : r \in Scalars}
                      \cup {<<Method("get", "string", "u32")>>,
                            <<Method("get", "u32", "u32"), Method("put", "u32", "u32")>>}}
OfSubTypes == {Released("subtype", f, <<>>, <<>>, k) :
                f \in {<<>>, <<FieldOf("x", "x", "u32", FALSE)>>}, k \in {"a", "b"}}
SchemaOf(d) == [n \in {"N"} |-> d]

TheSchemas == {<<>>} \cup {SchemaOf(d) : d \in OfTypes \cup OfTuples \cup OfEnums \cup OfServices \cup OfSubTypes}

-----------------------------------------------------------------------------
(* Files: one that refers in every way to itself and to two versions of one  *)
(* package, which may be read-only, or one of them not be parsed; and no     *)
(* files, for when another part moves.                                       *)
NRel(path) == [relative |-> TRUE, prefix |-> <<>>, path |-> path]
NAbs(prefix, path) == [relative |-> FALSE, prefix |-> prefix, path |-> path]
NDecl(name, parent, kind, refs) == [name |-> name, parent |-> parent, kind |-> kind, refs |-> refs]
NUse(q, last, alias) == [package |-> q, last |-> last, alias |-> alias]
NFile(q, readOnly, parses, uses, decls) ==
    [package |-> q, readOnly |-> readOnly, parses |-> parses, uses |-> uses, decls |-> decls]
NMain(a, b, c, alias) ==
    NFile("p", FALSE, TRUE, <<NUse("q1", "q", <<>>), NUse("q2", "q", <<alias>>)>>,
          <<NDecl("A", 0, "type", <<a, NAbs(<<"q">>, <<"A">>)>>), NDecl("B", 1, "type", <<b>>),
            NDecl("I", 0, "interface", <<c, NAbs(<<alias>>, <<"A", "B">>)>>),
            NDecl("S", 3, "subtype", <<NAbs(<<>>, <<"A">>)>>)>>)
NNames == {NRel(<<"B">>), NRel(<<"B", "B">>), NAbs(<<>>, <<"A", "B">>), NAbs(<<>>, <<"I", "S">>), NAbs(<<"z">>, <<"A">>),
           NAbs(<<"q">>, <<"A", "B">>)}
NOther(q, readOnly, parses) ==
    NFile(q, readOnly, parses, <<NUse("p", "p", <<>>), NUse("none", "z", <<>>)>>,
          <<NDecl("A", 0, "type", <<NRel(<<"B">>), NAbs(<<"p">>, <<"A">>)>>), NDecl("B", 1, "type", <<NAbs(<<"p">>, <<"A", "B">>)>>)>>)
NLock(r, s, t) == [one |-> r, two |-> s, parses |-> t]
TheLayouts ==
    {<<>>} \cup
    {("main" :> NMain(a, b, c, IF b.relative THEN "k" ELSE "k_"))
        @@ ("one" :> NOther("q1", x.one, TRUE)) @@ ("two" :> NOther("q2", x.two, x.parses)) :
        a \in NNames, b \in {NRel(<<"B">>), NAbs(<<>>, <<"A">>)},
        c \in {NRel(<<"S">>), NAbs(<<"q">>, <<"A", "B">>)},
        x \in {NLock(FALSE, FALSE, TRUE), NLock(TRUE, FALSE, TRUE), NLock(FALSE, TRUE, FALSE)}}
TheFreshTypes == <<"X", "Y">>
TheFreshPrefixes == <<"x", "y">>
=============================================================================
