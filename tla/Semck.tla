------------------------------- MODULE Semck -------------------------------
(***************************************************************************)
(* The semantic version checker (lib/semck): what it finds wrong with a    *)
(* file that is to be released after another one; and the releases of a    *)
(* package by a team that publishes only what `reproto check` accepts      *)
(* (cli/src/ops/check.rs, cli/src/utils.rs): each release is compared with *)
(* the last one before it that is no pre-release, and with no other.       *)
(*                                                                         *)
(* A file is a function from the names of its declarations, sub-types      *)
(* included, to what the checker looks at.  Names are those after          *)
(* localize(), so the version in them does not count.                      *)
(*   kind       "type", "tuple", "interface", "subtype", "enum", "service" *)
(*   fields     sequence of [ident, name, type, required]; `name` is the   *)
(*              one used in data                                           *)
(*   variants   sequence of [ident, value]                                 *)
(*   endpoints  sequence of [ident, request, response]                     *)
(*   key        the tag and the value of it that mark a sub-type in data   *)
(***************************************************************************)
EXTENDS Versions

Idents(s) == {s[i].ident : i \in DOMAIN s}
Of(s, x) == s[CHOOSE i \in DOMAIN s : s[i].ident = x]
Removed(s, t) == Idents(s) \ Idents(t)
Added(s, t) == Idents(t) \ Idents(s)
Changed(s, t, what) ==
    {x \in Idents(s) \cap Idents(t) : Of(s, x)[what] # Of(t, x)[what]}
Report(violation, component, where) == {<<violation, component, x>> : x \in where}

(* What check_minor and check_patch have in common for one declaration: of *)
(* an endpoint, check_endpoint_type looks at the response alone.            *)
CheckCommon(c, a, b) ==
    Report("RemoveField", c, Removed(a.fields, b.fields))
    \cup Report("FieldTypeChange", c, Changed(a.fields, b.fields, "type"))
    \cup Report("FieldNameChange", c, Changed(a.fields, b.fields, "name"))
    \cup Report("RemoveVariant", c, Removed(a.variants, b.variants))
    \cup Report("VariantOrdinalChange", c, Changed(a.variants, b.variants, "value"))
    \cup Report("RemoveEndpoint", c, Removed(a.endpoints, b.endpoints))
    \cup Report("EndpointResponseChange", c, Changed(a.endpoints, b.endpoints, "response"))

(* A minor release adds optional fields only, and makes none required. *)
BecomesRequired(s, t) ==
    {x \in Idents(s) \cap Idents(t) : ~Of(s, x).required /\ Of(t, x).required}
MinorDecl_AnyField(a, b) ==
    CheckCommon("minor", a, b)
    \cup Report("FieldRequiredChange", "minor", BecomesRequired(a.fields, b.fields))
MinorDecl(a, b) ==
    CheckCommon("minor", a, b)
    \cup Report("AddRequiredField", "minor",
                {x \in Added(a.fields, b.fields) : Of(b.fields, x).required})
    \cup Report("FieldRequiredChange", "minor", BecomesRequired(a.fields, b.fields))

(* A patch release adds nothing. *)
PatchDecl_Optional(a, b) ==
    CheckCommon("patch", a, b)
    \cup Report("AddField", "patch", Added(a.fields, b.fields))
    \cup Report("AddVariant", "patch", Added(a.variants, b.variants))
    \cup Report("AddEndpoint", "patch", Added(a.endpoints, b.endpoints))
    \cup Report("FieldModifierChange", "patch", BecomesRequired(a.fields, b.fields))
PatchDecl(a, b) ==
    CheckCommon("patch", a, b)
    \cup Report("AddField", "patch", Added(a.fields, b.fields))
    \cup Report("AddVariant", "patch", Added(a.variants, b.variants))
    \cup Report("AddEndpoint", "patch", Added(a.endpoints, b.endpoints))
    \cup Report("FieldModifierChange", "patch", Changed(a.fields, b.fields, "required"))

Kept(from, to) == DOMAIN from \cap DOMAIN to
DeclsRemoved(c, from, to) == Report("DeclRemoved", c, DOMAIN from \ DOMAIN to)

CheckMinor(from, to) ==
    DeclsRemoved("minor", from, to) \cup UNION {MinorDecl(from[n], to[n]) : n \in Kept(from, to)}

CheckPatch(from, to) ==
    DeclsRemoved("patch", from, to)
    \cup Report("DeclAdded", "patch", DOMAIN to \ DOMAIN from)
    \cup UNION {PatchDecl(from[n], to[n]) : n \in Kept(from, to)}

(* semck::check: `from` is version v, `to` is to become version w. *)
Check(v, from, w, to) ==
    IF v.major # w.major THEN {}
    ELSE IF v.minor < w.minor THEN CheckMinor(from, to)
    ELSE IF v.patch < w.patch THEN CheckPatch(from, to)
    ELSE {}

-----------------------------------------------------------------------------
(* What the compiler lets through to the checker (lib/trans/into_model.rs).  *)
Kinds == {"type", "tuple", "interface", "subtype", "enum", "service"}
Unique(s, what) == \A i, j \in DOMAIN s : s[i][what] = s[j][what] => i = j
AsEndpoint(e) == [ident |-> e.ident, request |-> e.request, response |-> e.response]
WellFormed(d) ==
    /\ d.kind \in Kinds
    /\ Unique(d.fields, "ident") /\ Unique(d.fields, "name")
    /\ Unique(d.variants, "ident") /\ Unique(d.endpoints, "ident")
    /\ \A i \in DOMAIN d.fields : d.fields[i].required \in BOOLEAN
    /\ \A i \in DOMAIN d.endpoints : d.endpoints[i] = AsEndpoint(d.endpoints[i])

-----------------------------------------------------------------------------
(* What the check is for.  The rest is a reference definition that the code  *)
(* does not contain: the data that goes over the wire for a declaration, as  *)
(* the backends encode it.                                                   *)
Names(d) == {d.fields[i].name : i \in DOMAIN d.fields}
Named(d, n) == d.fields[CHOOSE i \in DOMAIN d.fields : d.fields[i].name = n]
RequiredNames(d) == {n \in Names(d) : Named(d, n).required}

IsObject(d) == d.kind \in {"type", "interface", "subtype"}

(* An object has all required fields, and may have the others. *)
Objects(d) ==
    {[shape |-> "object", key |-> d.key, members |-> [n \in N |-> Named(d, n).type]] :
        N \in {M \in SUBSET Names(d) : RequiredNames(d) \subseteq M}}

(* A tuple is an array, in the order in which the fields are declared. *)
Cell(f, null) == IF null THEN "null" ELSE f.type
Arrays(d) ==
    {[shape |-> "array", items |-> [i \in DOMAIN d.fields |-> Cell(d.fields[i], nulls[i])]] :
        nulls \in {z \in [DOMAIN d.fields -> BOOLEAN] :
                      \A i \in DOMAIN z : z[i] => ~d.fields[i].required}}

Values(d) == {[shape |-> "value", value |-> d.variants[i].value] : i \in DOMAIN d.variants}

(* A call names an endpoint, brings its request and waits for its response. *)
Calls(d) == {[shape |-> "call", endpoint |-> d.endpoints[i]] : i \in DOMAIN d.endpoints}

(* What a program built from the declaration sends ... *)
Sent(d) ==
    CASE IsObject(d) -> Objects(d)
      [] d.kind = "tuple" -> Arrays(d)
      [] d.kind = "enum" -> Values(d)
      [] d.kind = "service" -> Calls(d)

(* ... and what it understands: unknown members of an object are ignored. *)
Understands(d, x) ==
    CASE IsObject(d) ->
            /\ x.shape = "object" /\ x.key = d.key
            /\ RequiredNames(d) \subseteq DOMAIN x.members
            /\ \A n \in Names(d) \cap DOMAIN x.members : x.members[n] = Named(d, n).type
      [] d.kind = "tuple" ->
            /\ x.shape = "array" /\ DOMAIN x.items = DOMAIN d.fields
            /\ \A i \in DOMAIN d.fields :
                  x.items[i] = d.fields[i].type \/ (x.items[i] = "null" /\ ~d.fields[i].required)
      [] d.kind = "enum" -> x \in Values(d)
      [] d.kind = "service" -> x \in Calls(d)

(* Programs built from `to` understand those built from `from`. *)
Compatible(from, to) ==
    \A n \in DOMAIN from :
        n \in DOMAIN to /\ \A x \in Sent(from[n]) : Understands(to[n], x)

(* What the checker does not look at is the same in both. *)
SameShape(from, to) ==
    \A n \in Kept(from, to) :
        /\ from[n].kind = to[n].kind /\ from[n].key = to[n].key
        /\ from[n].kind = "tuple" =>
              [i \in DOMAIN from[n].fields |-> from[n].fields[i].ident]
              = [i \in DOMAIN to[n].fields |-> to[n].fields[i].ident]
        /\ \A x \in Idents(from[n].endpoints) \cap Idents(to[n].endpoints) :
              Of(from[n].endpoints, x).request = Of(to[n].endpoints, x).request

-----------------------------------------------------------------------------
(* Releases.                                                                 *)
CONSTANTS
    Version,     \* versions that may be released
    Schema,      \* files that may be released
    MaxReleases  \* bound: releases in all

(* Versions that differ in their build alone are one to an index.            *)
ASSUME VersionAssumption ==
    Version \subseteq SemVersion /\ \A v, w \in Version : Equal(v, w) => v = w
ASSUME SchemaAssumption == \A s \in Schema : \A n \in DOMAIN s : WellFormed(s[n])
ASSUME ReleasesAssumption == MaxReleases \in Nat

VARIABLES
    released,  \* the index: a schema for each version released
    late,      \* history: <<v, w>> when v was made with w there, which is no older
    count      \* releases so far

releaseVars == <<released, late, count>>

ReleasesInit ==
    /\ released = <<>>
    /\ late = {}
    /\ count = 0

(* semck_check: the last deployment up to the new version, in the order of  *)
(* the index, that is no pre-release.                                        *)
Baselines(w) ==
    LET before == {v \in DOMAIN released : AtMost(v, w) /\ ~IsPrerelease(v)}
    IN  {v \in before : \A u \in before : AtMost(u, v)}

Violations(w, s) == UNION {Check(v, released[v], w, s) : v \in Baselines(w)}

MakeRelease(w, s, force) ==
    /\ count < MaxReleases /\ count' = count + 1
    /\ Violations(w, s) = {}
    /\ w \in DOMAIN released => force
    /\ released' = [v \in DOMAIN released \cup {w} |-> IF v = w THEN s ELSE released[v]]
    /\ late' = late \cup {<<w, v>> : v \in {x \in DOMAIN released : AtMost(w, x)}}

ReleasesNext == \E w \in Version, s \in Schema, force \in BOOLEAN : MakeRelease(w, s, force)

ReleasesSpec == ReleasesInit /\ [][ReleasesNext]_releaseVars

-----------------------------------------------------------------------------
(* What a package that requires `^v` gets once w is released. *)
Caret(v) == [op |-> "^", major |-> v.major, minor |-> v.minor, patch |-> v.patch, pre |-> v.pre]
Upgrade(v, w) == ~IsPrerelease(v) /\ ~IsPrerelease(w) /\ Matches(<<Caret(v)>>, w)
Fix(v, w) == v.minor = w.minor

(* The releases from v to w, pre-releases apart, were made one after the     *)
(* other in the order of their versions, and none of them again.  A release  *)
(* that is made after a newer one is compared with its predecessor only, so  *)
(* nothing is known of what comes after it.                                  *)
FromTo(v, w) == {u \in DOMAIN released : ~IsPrerelease(u) /\ AtMost(v, u) /\ AtMost(u, w)}
InOrder(v, w) == \A u, x \in FromTo(v, w) : <<u, x>> \notin late

(* A release can be upgraded to any other that a caret requirement on it     *)
(* matches, although each was only compared with its predecessor.  Premises: *)
(* those between the two were made in order, whenever older and newer ones   *)
(* were, and keep what the checker does not look at (SameShape).             *)
UpgradesWork ==
    \A v, w \in DOMAIN released :
        /\ Upgrade(v, w) /\ InOrder(v, w)
        /\ \A u \in FromTo(v, w) :
              SameShape(released[v], released[u]) /\ SameShape(released[u], released[w])
        => Compatible(released[v], released[w])

(* Releases that differ in their patch number alone understand each other    *)
(* both ways, on the same premises: those between the two were made in the   *)
(* order of their versions, none of them again, and keep what the checker    *)
(* does not look at.                                                         *)
FixesMatch ==
    \A v, w \in DOMAIN released :
        /\ Upgrade(v, w) /\ Fix(v, w) /\ InOrder(v, w)
        /\ \A u \in FromTo(v, w) :
              SameShape(released[v], released[u]) /\ SameShape(released[w], released[u])
        => Compatible(released[w], released[v])

=============================================================================
