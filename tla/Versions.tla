------------------------------ MODULE Versions ------------------------------
(***************************************************************************)
(* Versions and ranges of them (lib/semver): their order, how they are     *)
(* read and written, and which versions a range matches.                   *)
(*                                                                         *)
(*   version     [major, minor, patch, pre, build]; `pre` and `build` are  *)
(*               sequences of identifiers                                  *)
(*   identifier  [num, n]: the number n, or the n-th of the words          *)
(*   predicate   [op, major, minor, patch, pre]; a part that is left out   *)
(*               is Missing                                                *)
(*   token       [t, num, n]: an identifier has "id" for t, any other      *)
(*               token is its symbol                                       *)
(*                                                                         *)
(* What is read is a sequence of tokens, and of a range one such sequence  *)
(* for every predicate: commas are nowhere else.  A result of reading is   *)
(* the set of what was read, empty when the text is refused.               *)
(***************************************************************************)
EXTENDS Integers, Sequences

CONSTANT MaxNumber  \* the largest u64
ASSUME MaxNumberAssumption == MaxNumber \in Nat

Missing == -1
Numeric(n) == [num |-> TRUE, n |-> n]
Word(n) == [num |-> FALSE, n |-> n]
X == Word(0)  \* `x`, which is a wildcard where a number is expected

Identifier == [num : BOOLEAN, n : Nat]
SemVersion ==
    [major : Nat, minor : Nat, patch : Nat, pre : Seq(Identifier), build : Seq(Identifier)]

-----------------------------------------------------------------------------
(* The order of versions: numbers come before words, a longer pre-release    *)
(* after its prefix, and no pre-release at all last.                         *)
IdentLess(a, b) ==
    \/ a.num /\ ~b.num
    \/ a.num = b.num /\ a.n < b.n

PreLess(p, q) ==
    \E k \in 0..Len(p) :
        /\ k <= Len(q) /\ \A i \in 1..k : p[i] = q[i]
        /\ \/ k = Len(p) /\ k < Len(q)
           \/ k < Len(p) /\ k < Len(q) /\ IdentLess(p[k + 1], q[k + 1])

IsPrerelease(v) == v.pre # <<>>

CoreLess(v, w) ==
    \/ v.major < w.major
    \/ v.major = w.major /\ v.minor < w.minor
    \/ v.major = w.major /\ v.minor = w.minor /\ v.patch < w.patch
SameCore(v, w) == v.major = w.major /\ v.minor = w.minor /\ v.patch = w.patch

Less(v, w) ==
    \/ CoreLess(v, w)
    \/ /\ SameCore(v, w) /\ IsPrerelease(v)
       /\ IsPrerelease(w) => PreLess(v.pre, w.pre)

(* Build metadata does not tell versions apart. *)
Equal(v, w) == SameCore(v, w) /\ v.pre = w.pre
AtMost(v, w) == Less(v, w) \/ Equal(v, w)

-----------------------------------------------------------------------------
(* Predicate::matches and what it calls. *)
IsExact(p, v) ==
    /\ p.major = v.major
    /\ p.minor # Missing => p.minor = v.minor
    /\ p.minor # Missing /\ p.patch # Missing => p.patch = v.patch /\ p.pre = v.pre

IsGreater(p, v) ==
    \/ v.major > p.major
    \/ /\ v.major = p.major /\ p.minor # Missing
       /\ \/ v.minor > p.minor
          \/ /\ v.minor = p.minor /\ p.patch # Missing
             /\ \/ v.patch > p.patch
                \/ /\ v.patch = p.patch /\ p.pre # <<>>
                   /\ ~IsPrerelease(v) \/ PreLess(p.pre, v.pre)

PreIsCompatible(p, v) == ~IsPrerelease(v) \/ v.pre = p.pre \/ PreLess(p.pre, v.pre)
PatchUp(p, v) == v.patch > p.patch \/ (v.patch = p.patch /\ PreIsCompatible(p, v))

MatchesTilde(p, v) ==
    /\ v.major = p.major
    /\ p.minor # Missing => v.minor = p.minor /\ (p.patch # Missing => PatchUp(p, v))

IsCompatible_Major(p, v) ==
    /\ v.major = p.major
    /\ p.minor # Missing =>
          \/ v.minor > p.minor
          \/ v.minor = p.minor /\ (p.patch # Missing => PatchUp(p, v))

IsCompatible(p, v) ==
    /\ v.major = p.major
    /\ p.minor # Missing =>
          \/ p.major > 0 /\ v.minor > p.minor
          \/ /\ v.minor = p.minor
             /\ p.patch # Missing =>
                   IF p.major = 0 /\ p.minor = 0
                   THEN v.patch = p.patch /\ PreIsCompatible(p, v)
                   ELSE PatchUp(p, v)

MatchesWildcard(p, v) ==
    /\ v.major = p.major
    /\ p.op = "x.y.*" /\ p.minor # Missing => v.minor = p.minor

PredicateMatches(p, v) ==
    CASE p.op = "="  -> IsExact(p, v)
      [] p.op = ">"  -> IsGreater(p, v)
      [] p.op = ">=" -> IsExact(p, v) \/ IsGreater(p, v)
      [] p.op = "<"  -> ~IsExact(p, v) /\ ~IsGreater(p, v)
      [] p.op = "<=" -> ~IsGreater(p, v)
      [] p.op = "~"  -> MatchesTilde(p, v)
      [] p.op = "^"  -> IsCompatible(p, v)
      [] OTHER       -> MatchesWildcard(p, v)

(* A pre-release is matched only when a predicate has one of the same core. *)
PreTagIsCompatible(p, v) ==
    IsPrerelease(v) => SameCore(p, v) /\ p.pre # <<>>

Matches(range, v) ==
    range # <<>> =>
        /\ \A i \in DOMAIN range : PredicateMatches(range[i], v)
        /\ \E i \in DOMAIN range : PreTagIsCompatible(range[i], v)

-----------------------------------------------------------------------------
(* The lexer tells numbers from words: a leading zero, or more than fits,    *)
(* makes a word of digits.                                                   *)
Ops == {"=", ">", ">=", "<", "<=", "~", "^"}
TokenKinds == Ops \cup {"*", ".", "-", "+", "||", " ", "id"}
Token == [t : TokenKinds, num : BOOLEAN, n : Nat]

Symbol(s) == [t |-> s, num |-> FALSE, n |-> 0]
IdentToken(x) == [t |-> "id", num |-> x.num, n |-> x.n]
Digits(n, padded) == IdentToken(IF padded \/ n > MaxNumber THEN Word(n) ELSE Numeric(n))
Ident(token) == [num |-> token.num, n |-> token.n]

Peek(s) == IF s = <<>> THEN Symbol("end") ELSE s[1]
Is(s, symbols) == Peek(s).t \in symbols
SkipWhitespace(s) == IF Is(s, {" "}) THEN Tail(s) ELSE s
From(s, i) == SubSeq(s, i, Len(s))
Result(v, rest) == {[v |-> v, rest |-> rest]}

(* Parser::parts: dots and hyphens alike go between identifiers. *)
Parts(s) ==
    LET Chain(k) == \A i \in 1..k : s[i].t \in IF i % 2 = 1 THEN {"id"} ELSE {".", "-"}
        complete == {k \in 1..Len(s) : k % 2 = 1 /\ Chain(k)
                                       /\ ~Is(From(s, k + 1), {".", "-"})}
    IN  UNION {Result([i \in 1..((k + 1) \div 2) |-> Ident(s[2 * i - 1])], From(s, k + 1)) :
                  k \in complete}

(* Parser::pre and plus_build_metadata. *)
Marked(s, mark) == IF Is(s, {mark}) THEN Parts(Tail(s)) ELSE Result(<<>>, s)

Numbered(s) == Is(s, {"id"}) /\ s[1].num

(* Parser::version. *)
ReadVersion(text) ==
    LET s == SkipWhitespace(text)
    IN  IF /\ Len(s) >= 5 /\ s[2].t = "." /\ s[4].t = "."
           /\ Numbered(s) /\ Numbered(From(s, 3)) /\ Numbered(From(s, 5))
        THEN {[major |-> s[1].n, minor |-> s[3].n, patch |-> s[5].n, pre |-> r[1].v, build |-> r[2].v] :
                 r \in {r \in UNION {{<<p, b>> : b \in Marked(p.rest, "+")} :
                                        p \in Marked(From(s, 6), "-")} :
                           SkipWhitespace(r[2].rest) = <<>>}}
        ELSE {}

(* Parser::component and dot_component: [n, wild]. *)
Component(s) ==
    IF Numbered(s) THEN Result([n |-> s[1].n, wild |-> FALSE], Tail(s))
    ELSE IF Is(s, {"*"}) \/ (Is(s, {"id"}) /\ Ident(s[1]) = X)
         THEN Result([n |-> Missing, wild |-> TRUE], Tail(s))
         ELSE {}
DotComponent(s) ==
    IF Is(s, {"."}) THEN Component(Tail(s)) ELSE Result([n |-> Missing, wild |-> FALSE], s)

(* Parser::predicate: the predicate read, or that anything will do. *)
Anything == [op |-> "any", major |-> 0, minor |-> Missing, patch |-> Missing, pre |-> <<>>]
ReadPredicate(s) ==
    LET op == IF Is(s, Ops) THEN s[1].t ELSE "^"
        t == IF Is(s, Ops) THEN SkipWhitespace(Tail(s)) ELSE s
        OpOf(minor, patch) == IF patch.wild THEN "x.y.*" ELSE IF minor.wild THEN "x.*" ELSE op
        After(c) ==
            UNION {UNION {UNION {
                {[v |-> [op |-> OpOf(m.v, q.v), major |-> c.v.n, minor |-> m.v.n, patch |-> q.v.n,
                         pre |-> p.v],
                  rest |-> b.rest] : b \in Marked(p.rest, "+")} :
                    p \in Marked(q.rest, "-")} :
                    q \in DotComponent(m.rest)} :
                    m \in DotComponent(c.rest)}
    IN  IF s = <<>> THEN Result(Anything, s)
        ELSE UNION {IF c.v.wild THEN Result(Anything, c.rest) ELSE After(c) : c \in Component(t)}

(* Parser::range over the texts between commas: a first one that matches     *)
(* anything has to be the only one, and no later one may.                    *)
ReadRange(texts) ==
    LET last == Len(texts)
        piece == [i \in 1..last |-> IF i = 1 THEN texts[i] ELSE SkipWhitespace(texts[i])]
        read == [i \in 1..last |->
                    {r \in ReadPredicate(piece[i]) :
                        IF r.v.op = "any" THEN r.rest = <<>> /\ last = 1
                                       ELSE SkipWhitespace(r.rest) = <<>>}]
    IN  IF \E i \in 1..last : read[i] = {} THEN {}
        ELSE LET v == [i \in 1..last |-> (CHOOSE r \in read[i] : TRUE).v]
             IN  {IF v[1].op = "any" THEN <<>> ELSE v}

-----------------------------------------------------------------------------
(* Display. *)
Join(idents) ==
    [i \in 1..(2 * Len(idents) - 1) |->
        IF i % 2 = 1 THEN IdentToken(idents[(i + 1) \div 2]) ELSE Symbol(".")]
Suffix(mark, idents) == IF idents = <<>> THEN <<>> ELSE <<Symbol(mark)>> \o Join(idents)
Part(n) == IF n = Missing THEN <<>> ELSE <<Symbol("."), IdentToken(Numeric(n))>>

WriteVersion(v) ==
    Join(<<Numeric(v.major), Numeric(v.minor), Numeric(v.patch)>>)
    \o Suffix("-", v.pre) \o Suffix("+", v.build)

Star == <<Symbol("."), Symbol("*")>>
WritePredicate(p) ==
    LET major == <<IdentToken(Numeric(p.major))>>
    IN  CASE p.op = "x.*"   -> major \o Star
          [] p.op = "x.y.*" -> major \o (IF p.minor = Missing THEN Star ELSE Part(p.minor)) \o Star
          [] OTHER -> <<Symbol(p.op)>> \o (IF p.op \in {"~", "^"} THEN <<>> ELSE <<Symbol(" ")>>)
                      \o major \o Part(p.minor) \o Part(p.patch) \o Suffix("-", p.pre)

WriteRange(range) ==
    IF range = <<>> THEN <<<<Symbol("*")>>>>
    ELSE [i \in DOMAIN range |-> (IF i = 1 THEN <<>> ELSE <<Symbol(" ")>>) \o WritePredicate(range[i])]
=============================================================================
