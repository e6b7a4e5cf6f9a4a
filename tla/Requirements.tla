---------------------------- MODULE Requirements ----------------------------
(***************************************************************************)
(* A requirement on the versions of a package: written by hand in a file   *)
(* or a manifest, read, printed and read again (lib/semver), and matched   *)
(* with the versions of an index, which are printed into it and read from  *)
(* it as well.                                                             *)
(***************************************************************************)
EXTENDS Versions

CONSTANTS
    RangeTexts,   \* requirements, as sequences of sequences of tokens
    VersionTexts  \* versions, as sequences of tokens
ASSUME TextAssumption ==
    /\ RangeTexts \subseteq Seq(Seq(Token)) \ {<<>>}
    /\ VersionTexts \subseteq Seq(Token)

VARIABLES
    text,    \* the requirement as it is written now
    range,   \* what was read from it last
    meant,   \* history: what was read from it first
    reading  \* "first", "read", "again", "reread" or "refused"

requirementVars == <<text, range, meant, reading>>

RequirementInit ==
    /\ text \in RangeTexts
    /\ range = <<>> /\ meant = <<>>
    /\ reading = "first"

(* Range::parse. *)
Read ==
    /\ reading \in {"first", "again"}
    /\ IF ReadRange(text) = {}
       THEN reading' = "refused" /\ UNCHANGED <<range, meant>>
       ELSE /\ range' \in ReadRange(text)
            /\ meant' = IF reading = "first" THEN range' ELSE meant
            /\ reading' = IF reading = "first" THEN "read" ELSE "reread"
    /\ UNCHANGED text

(* Its Display, and that of Serialize. *)
Write ==
    /\ reading = "read"
    /\ text' = WriteRange(range)
    /\ reading' = "again"
    /\ UNCHANGED <<range, meant>>

RequirementNext == Read \/ Write
RequirementSpec == RequirementInit /\ [][RequirementNext]_requirementVars
-----------------------------------------------------------------------------
(* What predicates stand for: the intervals of lib/semver/lib.rs:127-160,    *)
(* with the order of versions for `>=` and `<` in them, and what the other   *)
(* operators mean in that order.                                             *)
V(major, minor, patch, pre) ==
    [major |-> major, minor |-> minor, patch |-> patch, pre |-> pre, build |-> <<>>]
OrZero(n) == IF n = Missing THEN 0 ELSE n
Lowest(p) == V(p.major, OrZero(p.minor), OrZero(p.patch), IF p.patch = Missing THEN <<>> ELSE p.pre)
First(p) == IF p.minor = Missing THEN V(p.major, 0, 0, <<>>) ELSE Lowest(p)
NextMajor(p) == V(p.major + 1, 0, 0, <<>>)
NextMinor(p) == V(p.major, p.minor + 1, 0, <<>>)
NextPatch(p) == V(p.major, p.minor, p.patch + 1, <<>>)

PastCaret(p) ==
    IF p.major > 0 \/ p.minor = Missing THEN NextMajor(p)
    ELSE IF p.minor > 0 \/ p.patch = Missing THEN NextMinor(p) ELSE NextPatch(p)
PastTilde(p) == IF p.minor = Missing THEN NextMajor(p) ELSE NextMinor(p)
Past(p) == IF p.op = "^" THEN PastCaret(p) ELSE PastTilde(p)

(* A version without its last parts stands for all that begin like it. *)
Below(v, p) == IF p.patch = Missing THEN CoreLess(v, Lowest(p)) ELSE Less(v, Lowest(p))
Like(v, p) ==
    IF p.patch # Missing THEN Equal(v, Lowest(p))
    ELSE p.major = v.major /\ (p.minor # Missing => p.minor = v.minor)

Intervals == {"^", "~", "x.*", "x.y.*"}
Intended(p, v) ==
    CASE p.op \in Intervals -> ~Less(v, First(p)) /\ Less(v, Past(p))
      [] p.op = "="  -> Like(v, p)
      [] p.op = "<"  -> Below(v, p)
      [] p.op = "<=" -> Below(v, p) \/ Like(v, p)
      [] p.op = ">=" -> ~Below(v, p)
      [] p.op = ">"  -> ~Below(v, p) /\ ~Like(v, p)

(* Pre-releases of a bound of an interval, unless it is one itself: those of *)
(* the first version in are below it, those of the first one out as well.    *)
OnBound(p, v) ==
    /\ p.op \in Intervals /\ IsPrerelease(v)
    /\ \E b \in {First(p), Past(p)} : ~IsPrerelease(b) /\ SameCore(v, b)
AsRelease(v) == [v EXCEPT !.pre = <<>>]

(* A requirement selects the versions it stands for: those in the intervals  *)
(* of all its predicates, and pre-releases of a version only when it names   *)
(* one of that version.  Neither the requirement nor a version changes its   *)
(* meaning by being printed and read again.  Exceptions, in which the code   *)
(* is not what lib.rs:127-160 says: `*` matches pre-releases, and one of a   *)
(* bound counts as the release of it.  So `>=1.0.0-1, ^1.0.0` matches        *)
(* 1.0.0-1, which is not >=1.0.0, and `>=2.0.0-1, ^1.0.0` does not match     *)
(* 2.0.0-1, which is <2.0.0.                                                 *)
Selects ==
    /\ reading = "refused" => meant = <<>>
    /\ reading \in {"read", "reread"} =>
        \A t \in VersionTexts : \A v \in ReadVersion(t) :
            /\ ReadVersion(WriteVersion(v)) # {}
            /\ \A w \in ReadVersion(WriteVersion(v)) :
                  /\ Equal(v, w)
                  /\ Matches(range, w) <=>
                        /\ \A i \in DOMAIN meant :
                              Intended(meant[i], IF OnBound(meant[i], v) THEN AsRelease(v) ELSE v)
                        /\ \/ meant = <<>> \/ ~IsPrerelease(v)
                           \/ \E i \in DOMAIN meant :
                                 meant[i].pre # <<>> /\ SameCore(meant[i], v)
=============================================================================
