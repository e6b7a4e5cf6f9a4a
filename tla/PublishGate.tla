---------------------------- MODULE PublishGate ----------------------------
(***************************************************************************)
(* One `reproto publish` or `reproto check` from the command line to the   *)
(* repository (cli/src/ops/publish.rs, cli/src/ops/check.rs,               *)
(* cli/src/utils.rs): which packages are meant and in which version, how   *)
(* each is validated, and what is done about what was found.  Another      *)
(* publisher may be at work on the same repository.                        *)
(***************************************************************************)
EXTENDS Integers, Sequences, FiniteSets

CONSTANTS
    Package, Source,
    Version,     \* versions, as integers: the order is that of semver
    Prerelease,  \* the versions that are pre-releases
    NoVersion,   \* an un-versioned package, or no --version
    Unloadable,  \* sources that cannot be loaded
    Featured,    \* sources with features enabled
    Violates(_, _, _, _), \* semck finds something between two versions
    MaxMatches,  \* bound: packages a publish entry resolves to
    MaxOthers    \* bound: publications by others

ASSUME GateAssumption ==
    /\ Version \subseteq Int /\ Prerelease \subseteq Version /\ NoVersion \notin Version
    /\ Unloadable \subseteq Source /\ Featured \subseteq Source
    /\ MaxMatches \in Nat /\ MaxOthers \in Nat

VARIABLES
    index,        \* the deployments of each package
    run,          \* the command line
    manifest,     \* the publish entries of the manifest: a version, and what
                  \*   the prefix resolves to
    named,        \* what each package on the command line resolves to
    phase,
    results,      \* the matches
    next,         \* the next one to be validated or published
    semckErrors,  \* some match violates semantic versioning
    featureOk,    \* no match has features enabled
    outcome,
    others,       \* publications by others so far
    atStart       \* history: the index when the run began

input == <<run, manifest, named>>
verdict == <<semckErrors, featureOk>>
vars == <<index, input, phase, results, next, verdict, outcome, others, atStart>>

Deployment == [version : Version, source : Source]
Resolved == [package : Package, version : Version \cup {NoVersion}, source : Source]
Match == [package : Package, version : Version, source : Source]
ASSUME MatchAssumption == IsFiniteSet(Match)

Run == [op : {"publish", "check"}, force : BOOLEAN, pretend : BOOLEAN,
        noSemck : BOOLEAN, version : Version \cup {NoVersion}]

OnePerVersion(D) == \A d, e \in D : d.version = e.version => d = e

Init ==
    /\ index \in [Package -> {D \in SUBSET Deployment : OnePerVersion(D)}]
    /\ run \in {r \in Run : r.op = "check" => ~r.force /\ ~r.pretend /\ ~r.noSemck}
    /\ manifest \in {<<>>} \cup
           {<<e>> : e \in [packages : {R \in SUBSET Resolved : Cardinality(R) <= MaxMatches},
                           version : Version]}
    /\ named \in {<<>>, <<{}>>} \cup {<<{r}>> : r \in Resolved}
    /\ phase = "manifest"
    /\ results = <<>>
    /\ next = 1
    /\ semckErrors = FALSE /\ featureOk = TRUE
    /\ outcome = "none"
    /\ others = 0
    /\ atStart = index

End(result) == phase' = "end" /\ outcome' = result

AsMatch(p, v, s) == [package |-> p, version |-> v, source |-> s]
Override(v) == IF run.version # NoVersion THEN run.version ELSE v

Unversioned(R) == {r \in R : r.version = NoVersion}

(* publish_matches: an un-versioned package gets the version of the entry and *)
(* a versioned one is passed over.  They come in some order.                  *)
CollectManifest ==
    /\ phase = "manifest"
    /\ IF \E i \in DOMAIN manifest : manifest[i].packages = {}
       THEN End("error") /\ UNCHANGED results
       ELSE /\ LET R == UNION {{AsMatch(r.package, Override(manifest[i].version), r.source) :
                                   r \in Unversioned(manifest[i].packages)} : i \in DOMAIN manifest}
               IN  results' \in {s \in [1..Cardinality(R) -> R] : {s[i] : i \in DOMAIN s} = R}
            /\ phase' = "named" /\ UNCHANGED outcome
    /\ UNCHANGED <<index, input, next, verdict, others, atStart>>

(* matches: a package named must resolve to one source, and is published in  *)
(* the version it has unless another is asked for.                           *)
CollectNamed ==
    /\ phase = "named"
    /\ IF \A i \in DOMAIN named :
             \E r \in named[i] : named[i] = {r} /\ Override(r.version) # NoVersion
       THEN /\ results' = results \o [i \in DOMAIN named |->
                   LET r == CHOOSE r \in named[i] : TRUE
                   IN  AsMatch(r.package, Override(r.version), r.source)]
            /\ phase' = "validate" /\ UNCHANGED outcome
       ELSE End("error") /\ UNCHANGED results
    /\ UNCHANGED <<index, input, next, verdict, others, atStart>>

\* semck_check: the last release up to the version of the match.
Baselines(m) ==
    LET before == {d \in index[m.package] :
                      d.version <= m.version /\ d.version \notin Prerelease}
    IN  {d \in before : \A e \in before : e.version <= d.version}

Violating(m) ==
    \E d \in Baselines(m) : Violates(d.version, d.source, m.version, m.source)

(* The match is loaded, compared, and searched for features. *)
Validate ==
    /\ phase = "validate" /\ next <= Len(results)
    /\ LET m == results[next]
       IN  IF ({m.source} \cup {d.source : d \in Baselines(m)}) \cap Unloadable # {}
           THEN End("error") /\ UNCHANGED <<next, verdict>>
           ELSE /\ next' = next + 1
                /\ semckErrors' = (semckErrors \/ Violating(m))
                /\ featureOk' = (featureOk /\ (run.op = "check" \/ m.source \notin Featured))
                /\ UNCHANGED <<phase, outcome>>
    /\ UNCHANGED <<index, input, results, others, atStart>>

(* check.rs returns what was found as an error. *)
DecideCheck ==
    /\ phase = "validate" /\ next > Len(results) /\ run.op = "check"
    /\ End(IF semckErrors THEN "refused" ELSE "ok")
    /\ UNCHANGED <<index, input, results, next, verdict, others, atStart>>

DecidePublish_AtOnce ==
    /\ phase = "validate" /\ next > 1 /\ run.op = "publish"
    /\ phase' = "publish" /\ next' = 1 /\ UNCHANGED outcome
    /\ UNCHANGED <<index, input, results, verdict, others, atStart>>

(* publish.rs: the condition is that of the code. *)
DecidePublish ==
    /\ phase = "validate" /\ next > Len(results) /\ run.op = "publish"
    /\ LET semckOk == ~run.noSemck \/ ~semckErrors
       IN  IF ~semckOk /\ ~featureOk
           THEN End("refused") /\ UNCHANGED next
           ELSE phase' = "publish" /\ next' = 1 /\ UNCHANGED outcome
    /\ UNCHANGED <<index, input, results, verdict, others, atStart>>

AsDeployment(m) == [version |-> m.version, source |-> m.source]
Put(i, m) ==
    [i EXCEPT ![m.package] = {d \in @ : d.version # m.version} \cup {AsDeployment(m)}]
Exists(m) == \E d \in index[m.package] : d.version = m.version

Publish_Continues ==
    /\ phase = "publish" /\ next <= Len(results)
    /\ LET m == results[next]
       IN  index' = IF run.pretend \/ (Exists(m) /\ ~run.force) THEN index ELSE Put(index, m)
    /\ next' = next + 1 /\ UNCHANGED <<phase, outcome>>
    /\ UNCHANGED <<input, results, verdict, others, atStart>>

(* Repository::publish for one match; the first that fails ends the run. *)
Publish ==
    /\ phase = "publish" /\ next <= Len(results)
    /\ LET m == results[next]
       IN  CASE run.pretend ->
                  next' = next + 1 /\ UNCHANGED <<index, phase, outcome>>
             [] ~run.pretend /\ Exists(m) /\ ~run.force ->
                  End("error") /\ UNCHANGED <<index, next>>
             [] OTHER ->
                  index' = Put(index, m) /\ next' = next + 1 /\ UNCHANGED <<phase, outcome>>
    /\ UNCHANGED <<input, results, verdict, others, atStart>>

Return ==
    /\ phase = "publish" /\ next > Len(results)
    /\ End("ok")
    /\ UNCHANGED <<index, input, results, next, verdict, others, atStart>>

(* Somebody else publishes a new version. *)
Other(m) ==
    /\ others < MaxOthers /\ others' = others + 1
    /\ ~Exists(m)
    /\ index' = Put(index, m)
    /\ UNCHANGED <<input, phase, results, next, verdict, outcome, atStart>>

Over == phase = "end" /\ UNCHANGED vars

Step == CollectManifest \/ CollectNamed \/ Validate \/ DecideCheck \/ DecidePublish
        \/ Publish \/ Return

Next == Step \/ (\E m \in Match : Other(m)) \/ Over

Spec == Init /\ [][Next]_vars
-----------------------------------------------------------------------------
(* Without --force a run takes nothing out of the index; a check, a          *)
(* pretended run, or one that was refused or failed before it published,     *)
(* changes nothing at all; and no publication is made before every match of  *)
(* the run was validated.                                                    *)
Careful ==
    /\ ~run.force => \A p \in Package : atStart[p] \subseteq index[p]
    /\ (run.op = "check" \/ run.pretend \/ (phase # "publish" /\ outcome \in {"none", "refused"}))
          /\ others = 0 => index = atStart
    /\ (index # atStart /\ others = 0) =>
          ~\E i \in DOMAIN results : results[i].source \in Unloadable

SameTarget(m, n) == m.package = n.package /\ m.version = n.version

(* A run that ends well has published everything it was told to, unless two  *)
(* of its matches were for one version and --force let the later one win;    *)
(* one that fails half way leaves what came before it published.             *)
OkPublishes ==
    /\ run.op = "publish" /\ ~run.pretend
    /\ (outcome = "ok" \/ phase = "publish" \/ (outcome = "error" /\ index # atStart /\ others = 0))
    => \A i \in DOMAIN results :
          \/ i >= next
          \/ AsDeployment(results[i]) \in index[results[i].package]
          \/ \E j \in DOMAIN results : j > i /\ SameTarget(results[i], results[j])

(* doc/semck.md: "The version checker is triggered automatically during a    *)
(* `publish` command", and its hint is to use --no-semck to disable it.      *)
SemckEnforced ==
    run.op = "publish" /\ ~run.noSemck /\ semckErrors => index = atStart
=============================================================================
