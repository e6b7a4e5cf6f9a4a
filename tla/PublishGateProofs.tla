-------------------------- MODULE PublishGateProofs --------------------------
(***************************************************************************)
(* Proofs about PublishGate, for any packages, versions, sources, manifest *)
(* and command line, whatever semck finds.                                 *)
(***************************************************************************)
EXTENDS PublishGate, FiniteSetTheorems, SequenceTheorems, TLAPS

-----------------------------------------------------------------------------
GateTypeOK ==
    /\ index \in [Package -> SUBSET Deployment]
    /\ run \in Run
    /\ \A i \in DOMAIN manifest :
          manifest[i].packages \subseteq Resolved /\ manifest[i].version \in Version
    /\ named \in Seq(SUBSET Resolved)
    /\ results \in Seq(Match)
    /\ next \in Nat \ {0} /\ others \in Nat

Loads(i) == results[i].source \notin Unloadable

(* Up to the decision nothing was published, and what was validated could be *)
(* loaded; only `reproto publish` gets past it, with matches that all load.  *)
Gated ==
    /\ phase \in {"manifest", "named"} => next = 1
    /\ phase \in {"manifest", "named", "validate"} =>
          outcome = "none" /\ (others = 0 => index = atStart)
    /\ phase = "validate" => \A i \in DOMAIN results : i < next => Loads(i)
    /\ phase = "publish" => /\ run.op = "publish" /\ outcome = "none"
                            /\ \A i \in DOMAIN results : Loads(i)

GateInv == GateTypeOK /\ Gated /\ Careful /\ OkPublishes

-----------------------------------------------------------------------------
(* Lemmas about the operators.                                             *)

LEMMA PutHolds ==
    ASSUME NEW i \in [Package -> SUBSET Deployment], NEW m \in Match
    PROVE  /\ Put(i, m) \in [Package -> SUBSET Deployment]
           /\ AsDeployment(m) \in Put(i, m)[m.package]
           /\ \A p \in Package, d \in Deployment :
                 d \in i[p] /\ (p # m.package \/ d.version # m.version) => d \in Put(i, m)[p]
BY DEF Put, AsDeployment, Match, Deployment

(* A version that was not there takes none away. *)
LEMMA PutAdds ==
    ASSUME NEW m \in Match, index \in [Package -> SUBSET Deployment], ~Exists(m)
    PROVE  \A p \in Package : index[p] \subseteq Put(index, m)[p]
BY PutHolds DEF Exists

LEMMA GateInitial == Init => GateInv
<1> SUFFICES ASSUME Init
             PROVE  GateInv
  OBVIOUS
<1> USE DEF Init
<1>1. GateTypeOK
  <2>1. index \in [Package -> SUBSET Deployment] /\ run \in Run
    OBVIOUS
  <2>2. \A i \in DOMAIN manifest :
           manifest[i].packages \subseteq Resolved /\ manifest[i].version \in Version
    OBVIOUS
  <2>3. named \in Seq(SUBSET Resolved)
    <3>1. CASE named = <<>>
      BY <3>1
    <3>2. CASE \E R \in SUBSET Resolved : named = <<R>>
      BY <3>2
    <3> QED
      BY <3>1, <3>2
  <2> QED
    BY <2>1, <2>2, <2>3 DEF GateTypeOK
<1>2. Gated
  BY DEF Gated
<1>3. Careful
  BY DEF Careful
<1>4. OkPublishes
  BY DEF OkPublishes
<1> QED
  BY <1>1, <1>2, <1>3, <1>4 DEF GateInv

-----------------------------------------------------------------------------
(* The matches have the right type.                                        *)

LEMMA OverrideType ==
    ASSUME run \in Run, NEW v \in Version \cup {NoVersion}, Override(v) # NoVersion
    PROVE  Override(v) \in Version
BY DEF Override, Run

LEMMA FromManifest ==
    ASSUME GateTypeOK, CollectManifest
    PROVE  results' \in Seq(Match)
<1> USE DEF CollectManifest, GateTypeOK
<1>1. CASE \E i \in DOMAIN manifest : manifest[i].packages = {}
  BY <1>1 DEF End
<1>2. CASE ~\E i \in DOMAIN manifest : manifest[i].packages = {}
  <2> DEFINE R == UNION {{AsMatch(r.package, Override(manifest[i].version), r.source) :
                             r \in Unversioned(manifest[i].packages)} : i \in DOMAIN manifest}
  <2>1. R \subseteq Match
    <3> SUFFICES ASSUME NEW i \in DOMAIN manifest, NEW r \in Unversioned(manifest[i].packages)
                 PROVE  AsMatch(r.package, Override(manifest[i].version), r.source) \in Match
      OBVIOUS
    <3>1. Override(manifest[i].version) \in Version
      BY GateAssumption DEF Override, Run
    <3>2. r \in Resolved
      BY DEF Unversioned
    <3> QED
      BY <3>1, <3>2 DEF AsMatch, Match, Resolved
  <2>2. Cardinality(R) \in Nat
    BY <2>1, MatchAssumption, FS_Subset, FS_CardinalityType
  <2>3. results' \in {s \in [1..Cardinality(R) -> R] : {s[i] : i \in DOMAIN s} = R}
    BY <1>2
  <2> HIDE DEF R
  <2>4. results' \in [1..Cardinality(R) -> Match]
    BY <2>1, <2>3
  <2> QED
    BY <2>2, <2>4, IsASeq
<1> QED
  BY <1>1, <1>2

LEMMA FromNamed ==
    ASSUME GateTypeOK, CollectNamed
    PROVE  results' \in Seq(Match)
<1> USE DEF CollectNamed, GateTypeOK
<1> DEFINE single == \A i \in DOMAIN named :
                        \E r \in named[i] : named[i] = {r} /\ Override(r.version) # NoVersion
           more == [i \in DOMAIN named |->
                      LET r == CHOOSE r \in named[i] : TRUE
                      IN  AsMatch(r.package, Override(r.version), r.source)]
<1>1. CASE ~single
  BY <1>1 DEF End
<1>2. CASE single
  <2>1. results' = results \o more
    BY <1>2
  <2>2. ASSUME NEW i \in DOMAIN named
        PROVE  more[i] \in Match
    <3>1. PICK r \in named[i] : named[i] = {r} /\ Override(r.version) # NoVersion
      BY <1>2
    <3>2. (CHOOSE x \in named[i] : TRUE) = r
      BY <3>1
    <3>3. r \in Resolved
      BY <3>1
    <3>4. r.version \in Version \cup {NoVersion}
      BY <3>3 DEF Resolved
    <3>5. Override(r.version) \in Version
      BY <3>1, <3>4, OverrideType
    <3>6. more[i] = AsMatch(r.package, Override(r.version), r.source)
      BY <3>2
    <3> QED
      BY <3>3, <3>5, <3>6 DEF AsMatch, Match, Resolved
  <2>3. DOMAIN named = 1..Len(named) /\ Len(named) \in Nat
    OBVIOUS
  <2>4. more = [i \in DOMAIN named |-> more[i]]
    OBVIOUS
  <2> HIDE DEF more
  <2>5. more \in [1..Len(named) -> Match]
    BY <2>2, <2>3, <2>4
  <2>6. more \in Seq(Match)
    BY <2>3, <2>5, IsASeq
  <2> QED
    BY <2>1, <2>6
<1> QED
  BY <1>1, <1>2

-----------------------------------------------------------------------------
LEMMA GateStep == GateInv /\ [Next]_vars => GateInv'
<1> SUFFICES ASSUME GateInv, [Next]_vars
             PROVE  GateInv'
  OBVIOUS
<1> USE DEF GateInv, input, verdict
<1>1. CASE CollectManifest
  <2> USE <1>1 DEF CollectManifest, End
  <2>1. GateTypeOK'
    BY FromManifest DEF GateTypeOK
  <2>2. Gated'
    BY <2>1 DEF Gated, GateTypeOK
  <2>3. Careful'
    BY DEF Careful, Gated
  <2>4. OkPublishes'
    BY DEF OkPublishes, Gated
  <2> QED
    BY <2>1, <2>2, <2>3, <2>4
<1>2. CASE CollectNamed
  <2> USE <1>2 DEF CollectNamed, End
  <2>1. GateTypeOK'
    BY FromNamed DEF GateTypeOK
  <2>2. Gated'
    BY <2>1 DEF Gated, GateTypeOK
  <2>3. Careful'
    BY DEF Careful, Gated
  <2>4. OkPublishes'
    BY DEF OkPublishes, Gated
  <2> QED
    BY <2>1, <2>2, <2>3, <2>4
<1>3. CASE Validate
  <2> USE <1>3 DEF Validate, End
  <2>1. GateTypeOK'
    BY DEF GateTypeOK
  <2>2. Gated'
    BY <2>1 DEF Gated, GateTypeOK, Loads
  <2>3. Careful'
    BY DEF Careful, Gated
  <2>4. OkPublishes'
    BY DEF OkPublishes, Gated
  <2> QED
    BY <2>1, <2>2, <2>3, <2>4
<1>4. CASE DecideCheck \/ DecidePublish \/ Return
  <2> USE <1>4 DEF DecideCheck, DecidePublish, Return, End
  <2>1. GateTypeOK'
    BY DEF GateTypeOK
  <2>2. Gated'
    BY <2>1 DEF Gated, GateTypeOK, Loads
  <2>3. Careful'
    BY DEF Careful, Gated, Loads
  <2>4. OkPublishes'
    BY DEF OkPublishes, Gated, GateTypeOK
  <2> QED
    BY <2>1, <2>2, <2>3, <2>4
<1>5. CASE Publish
  <2> DEFINE m == results[next]
             Goes == next' = next + 1 /\ UNCHANGED <<phase, outcome>>
  <2>1. m \in Match
    BY <1>5 DEF GateTypeOK, Publish
  <2>2. /\ phase = "publish" /\ next <= Len(results)
        /\ UNCHANGED <<run, manifest, named, results, others, atStart>>
        /\ \/ index' = index /\ run.pretend /\ Goes
           \/ index' = index /\ next' = next /\ ~run.pretend /\ phase' = "end" /\ outcome' = "error"
           \/ index' = Put(index, m) /\ ~run.pretend /\ (run.force \/ ~Exists(m)) /\ Goes
    BY <1>5 DEF Publish, End
  <2> HIDE DEF m
  <2>3. GateTypeOK'
    BY <2>1, <2>2, PutHolds DEF GateTypeOK
  <2>4. Gated'
    BY <2>2, <2>3 DEF Gated, GateTypeOK, Loads
  <2>5. Careful'
    <3>1. ~run.force => \A p \in Package : index[p] \subseteq index'[p]
      BY <2>1, <2>2, PutAdds DEF GateTypeOK
    <3> QED
      BY <2>2, <3>1 DEF Careful, Gated, GateTypeOK, Loads
  <2>6. OkPublishes'
    <3>1. CASE index' = index /\ (run.pretend \/ next' = next)
      BY <2>2, <3>1 DEF OkPublishes, GateTypeOK
    <3>2. CASE index' = Put(index, m) /\ ~run.pretend /\ Goes
      <4> SUFFICES ASSUME NEW i \in DOMAIN results, i < next'
                   PROVE  \/ AsDeployment(results[i]) \in index'[results[i].package]
                          \/ \E j \in DOMAIN results : j > i /\ SameTarget(results[i], results[j])
        BY <2>2 DEF OkPublishes, GateTypeOK
      <4>1. CASE i = next
        BY <2>1, <3>2, <4>1, PutHolds DEF m, GateTypeOK
      <4>2. CASE i < next /\ SameTarget(results[i], m)
        <5>1. next \in DOMAIN results
          BY <2>2 DEF GateTypeOK
        <5> QED
          BY <4>2, <5>1 DEF m, GateTypeOK
      <4>3. CASE i < next /\ ~SameTarget(results[i], m)
        <5>1. \/ AsDeployment(results[i]) \in index[results[i].package]
              \/ \E j \in DOMAIN results : j > i /\ SameTarget(results[i], results[j])
          BY <2>2, <3>2, <4>3 DEF OkPublishes, Gated, GateTypeOK
        <5>2. results[i] \in Match
          BY DEF GateTypeOK
        <5>3. /\ results[i].package \in Package
              /\ AsDeployment(results[i]) \in Deployment
              /\ AsDeployment(results[i]).version = results[i].version
          BY <5>2 DEF AsDeployment, Match, Deployment
        <5>4. results[i].package # m.package \/ results[i].version # m.version
          BY <4>3 DEF SameTarget
        <5>5. index \in [Package -> SUBSET Deployment]
          BY DEF GateTypeOK
        <5>6. AsDeployment(results[i]) \in index[results[i].package]
                 => AsDeployment(results[i]) \in index'[results[i].package]
          BY <2>1, <3>2, <5>3, <5>4, <5>5, PutHolds
        <5> QED
          BY <5>1, <5>6
      <4> QED
        BY <3>2, <4>1, <4>2, <4>3 DEF GateTypeOK
    <3> QED
      BY <2>2, <3>1, <3>2
  <2> QED
    BY <2>3, <2>4, <2>5, <2>6
<1>6. ASSUME NEW m \in Match, Other(m)
      PROVE  GateInv'
  <2>1. /\ ~Exists(m) /\ index' = Put(index, m) /\ others' = others + 1
        /\ UNCHANGED <<run, manifest, named, phase, results, next, outcome, atStart>>
    BY <1>6 DEF Other
  <2>2. GateTypeOK'
    BY <2>1, PutHolds DEF GateTypeOK
  <2>3. Gated'
    BY <2>1, <2>2 DEF Gated, GateTypeOK, Loads
  <2>4. \A p \in Package : index[p] \subseteq index'[p]
    BY <2>1, PutAdds DEF GateTypeOK
  <2>5. Careful'
    BY <2>1, <2>2, <2>4 DEF Careful, GateTypeOK
  <2>6. OkPublishes'
    <3>1. others' # 0
      BY <2>1 DEF GateTypeOK
    <3>2. \A i \in DOMAIN results : results[i].package \in Package
      <4>1. \A i \in DOMAIN results : results[i] \in Match
        BY DEF GateTypeOK
      <4> QED
        BY <4>1 DEF Match
    <3> QED
      BY <2>1, <2>4, <3>1, <3>2 DEF OkPublishes
  <2> QED
    BY <2>2, <2>3, <2>5, <2>6
<1>7. CASE UNCHANGED vars
  <2> USE <1>7 DEF vars
  <2>1. GateTypeOK' /\ Gated'
    BY DEF GateTypeOK, Gated, Loads
  <2>2. Careful' /\ OkPublishes'
    BY DEF Careful, OkPublishes
  <2> QED
    BY <2>1, <2>2
<1> QED
  BY <1>1, <1>2, <1>3, <1>4, <1>5, <1>6, <1>7 DEF Next, Step, Over

LEMMA AlwaysGated == Spec => []GateInv
BY GateInitial, GateStep, PTL DEF Spec

(* Careful, of every behaviour: nothing is published before everything was   *)
(* validated, nor by a check, a pretended run or one that was refused, and   *)
(* nothing is taken away without --force.                                    *)
THEOREM AlwaysCareful == Spec => []Careful
<1>1. GateInv => Careful
  BY DEF GateInv
<1> QED
  BY <1>1, AlwaysGated, PTL

(* OkPublishes, of every behaviour: what a run claims to have published is   *)
(* in the index, whoever publishes next to it, unless a later match of the   *)
(* run replaced it.                                                          *)
THEOREM PublishesWhatItClaims == Spec => []OkPublishes
<1>1. GateInv => OkPublishes
  BY DEF GateInv
<1> QED
  BY <1>1, AlwaysGated, PTL
=============================================================================
