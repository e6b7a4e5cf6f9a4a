--------------------------- MODULE VersionsProofs ---------------------------
(***************************************************************************)
(* Proofs about requirements on versions, for every text of a requirement, *)
(* however many predicates it has, and every version, and about the names  *)
(* of packages, for every set of packages that a session may load.         *)
(*                                                                         *)
(* Requirements: what reading gives is typed; printing it and reading it   *)
(* again gives it back, but for what a wildcard leaves unread; the order   *)
(* of pre-releases is total, so that the code's comparisons of parts are   *)
(* those with the bounds of an interval.  Names: what waits for a name is  *)
(* told apart by more of its version from round to round.                  *)
(***************************************************************************)
EXTENDS Requirements, PackageNames, SequenceTheorems, WellFoundedInduction, TLAPS

-----------------------------------------------------------------------------
(* Requirements: what reading gives for a predicate.                         *)
ParsedPart == Nat \cup {Missing}
PredicateFields ==
    [op : Ops \cup {"x.*", "x.y.*"}, major : Nat, minor : ParsedPart, patch : ParsedPart,
     pre : Seq(Identifier)]
Parsed ==
    {p \in PredicateFields :
        /\ p.op \in Ops /\ p.minor = Missing => p.patch = Missing
        /\ p.op = "x.*" => p.minor = Missing
        /\ p.op = "x.y.*" => p.patch = Missing}

(* Of the tokens between dots every other one is an identifier.              *)
LEMMA Parity ==
  /\ \A k \in Int : (2 * k) % 2 = 0 /\ (2 * k - 1) % 2 = 1
  /\ \A k \in Int : k % 2 = 0 \/ k % 2 = 1
  /\ \A k \in Int : k % 2 = 1 => (k + 1) % 2 = 0 /\ k = 2 * ((k + 1) \div 2) - 1
  /\ \A k \in Int : (2 * k) \div 2 = k
BY SMT

(* Sequences that are put together of pieces, and their tails.               *)
LEMMA Prefixed ==
  ASSUME NEW S, NEW a \in S, NEW s \in Seq(S)
  PROVE  /\ <<a>> \o s \in Seq(S) /\ <<a>> \o s # <<>>
         /\ Len(<<a>> \o s) = Len(s) + 1
         /\ (<<a>> \o s)[1] = a
         /\ Tail(<<a>> \o s) = s
<1> DEFINE t == <<a>> \o s
<1>1. <<a>> \in Seq(S) /\ Len(<<a>>) = 1 /\ <<a>>[1] = a
  OBVIOUS
<1>2. Len(s) \in Nat
  BY LenProperties
<1>3. /\ t \in Seq(S) /\ Len(t) = Len(s) + 1
      /\ \A i \in 1..Len(s) + 1 : t[i] = IF i <= 1 THEN <<a>>[i] ELSE s[i - 1]
  <2>1. /\ <<a>> \o s \in Seq(S)
        /\ Len(<<a>> \o s) = Len(<<a>>) + Len(s)
        /\ \A i \in 1..Len(<<a>>) + Len(s) :
              (<<a>> \o s)[i] = IF i <= Len(<<a>>) THEN <<a>>[i] ELSE s[i - Len(<<a>>)]
    BY <1>1, ConcatProperties
  <2> QED
    BY <1>1, <1>2, <2>1
<1> HIDE DEF t
<1>4. t[1] = a
  BY <1>1, <1>2, <1>3
<1>5. t # <<>>
  BY <1>2, <1>3, EmptySeq
<1>6. /\ Tail(t) \in Seq(S) /\ Len(Tail(t)) = Len(t) - 1
      /\ \A i \in 1..Len(Tail(t)) : Tail(t)[i] = t[i + 1]
  BY <1>3, <1>5, HeadTailProperties
<1>7. Len(Tail(t)) = Len(s)
  BY <1>2, <1>3, <1>6
<1>8. \A i \in 1..Len(s) : Tail(t)[i] = s[i]
  BY <1>2, <1>3, <1>6, <1>7
<1>9. Tail(t) = s
  BY <1>6, <1>7, <1>8, SeqEqual
<1> QED
  BY <1>3, <1>4, <1>5, <1>9 DEF t

LEMMA Regrouped ==
  ASSUME NEW S, NEW x \in Seq(S), NEW y \in Seq(S), NEW z \in Seq(S), NEW w \in Seq(S)
  PROVE  /\ ((x \o y) \o z) \o w = x \o (y \o (z \o w))
         /\ (x \o y) \o z \in Seq(S) /\ y \o (z \o w) \in Seq(S)
<1> DEFINE xy == x \o y
           zw == z \o w
<1>1. xy \in Seq(S) /\ zw \in Seq(S)
  BY ConcatProperties
<1>2. (xy \o z) \o w = xy \o zw
  <2> HIDE DEF xy
  <2> QED
    BY <1>1, ConcatAssociative, SMTT(60)
<1>3. (x \o y) \o zw = x \o (y \o zw)
  <2> HIDE DEF zw
  <2> QED
    BY <1>1, ConcatAssociative, SMTT(60)
<1>4. xy \o z \in Seq(S) /\ y \o zw \in Seq(S)
  <2> HIDE DEF xy, zw
  <2> QED
    BY <1>1, ConcatProperties
<1> QED
  BY <1>2, <1>3, <1>4

OnLeft(x, y, z, w) == ((x \o y) \o z) \o w
OnRight(x, y, z, w) == x \o (y \o (z \o w))
LEMMA Turned ==
  ASSUME NEW S, NEW x \in Seq(S), NEW y \in Seq(S), NEW z \in Seq(S), NEW w \in Seq(S)
  PROVE  OnLeft(x, y, z, w) = OnRight(x, y, z, w)
BY Regrouped, SMTT(60) DEF OnLeft, OnRight

AllOnLeft(a, b, c, d, e, f) == ((((a \o b) \o c) \o d) \o e) \o f
AllOnRight(a, b, c, d, e, f) == a \o (b \o (c \o (d \o (e \o f))))
LEMMA Nested ==
  ASSUME NEW S, NEW a \in Seq(S), NEW b \in Seq(S), NEW c \in Seq(S), NEW d \in Seq(S),
         NEW e \in Seq(S), NEW f \in Seq(S)
  PROVE  AllOnLeft(a, b, c, d, e, f) = AllOnRight(a, b, c, d, e, f)
<1> DEFINE abc == (a \o b) \o c
           def == d \o (e \o f)
<1>1. abc \in Seq(S) /\ def \in Seq(S)
  BY Regrouped
<1>2. OnLeft(abc, d, e, f) = OnRight(abc, d, e, f)
  <2> HIDE DEF abc
  <2> QED
    BY <1>1, Turned
<1>3. OnLeft(a, b, c, def) = OnRight(a, b, c, def)
  <2> HIDE DEF def
  <2> QED
    BY <1>1, Turned
<1> QED
  BY <1>2, <1>3 DEF OnLeft, OnRight, AllOnLeft, AllOnRight

(* What is left of a text from a position on.                                *)
LEMMA Froms ==
  ASSUME NEW S, NEW s \in Seq(S), NEW k \in Nat, k <= Len(s)
  PROVE  /\ From(s, k + 1) \in Seq(S)
         /\ Len(From(s, k + 1)) = Len(s) - k
         /\ \A i \in 1..Len(s) - k : From(s, k + 1)[i] = s[k + i]
<1>1. Len(s) \in Nat
  BY LenProperties
<1>2. \A i \in k + 1..Len(s) : s[i] \in S
  BY ElementOfSeq
<1>3. /\ SubSeq(s, k + 1, Len(s)) \in Seq(S)
      /\ Len(SubSeq(s, k + 1, Len(s))) = IF k + 1 <= Len(s) THEN Len(s) - (k + 1) + 1 ELSE 0
      /\ \A i \in 1..Len(s) - (k + 1) + 1 : SubSeq(s, k + 1, Len(s))[i] = s[k + 1 + i - 1]
  BY <1>1, <1>2, SubSeqProperties
<1> QED
  BY <1>1, <1>3 DEF From

LEMMA PastFirst ==
  ASSUME NEW S, NEW s \in Seq(S), NEW t \in Seq(S)
  PROVE  From(s \o t, Len(s) + 1) = t
<1>1. Len(s) \in Nat /\ Len(t) \in Nat
  BY LenProperties
<1>2. /\ s \o t \in Seq(S) /\ Len(s \o t) = Len(s) + Len(t)
      /\ \A i \in 1..Len(s) + Len(t) : (s \o t)[i] = IF i <= Len(s) THEN s[i] ELSE t[i - Len(s)]
  BY ConcatProperties
<1> DEFINE u == s \o t
           f == From(u, Len(s) + 1)
<1>a. u \in Seq(S) /\ Len(s) \in Nat /\ Len(s) <= Len(u)
  BY <1>1, <1>2
<1> HIDE DEF u
<1>3. /\ f \in Seq(S) /\ Len(f) = Len(u) - Len(s)
      /\ \A i \in 1..Len(u) - Len(s) : f[i] = u[Len(s) + i]
  BY <1>a, Froms
<1> HIDE DEF f
<1> USE DEF u
<1>4. Len(f) = Len(t)
  BY <1>1, <1>2, <1>3
<1>5. \A i \in 1..Len(t) : f[i] = t[i]
  BY <1>1, <1>2, <1>3
<1>6. f = t
  BY <1>3, <1>4, <1>5, SeqEqual
<1> QED
  BY <1>6 DEF f

(* How far Parts may read.                                                   *)
Ends(s) ==
    {k \in 1..Len(s) :
        /\ k % 2 = 1
        /\ \A i \in 1..k : s[i].t \in IF i % 2 = 1 THEN {"id"} ELSE {".", "-"}
        /\ ~Is(From(s, k + 1), {".", "-"})}
Idents(s, k) == [i \in 1..((k + 1) \div 2) |-> Ident(s[2 * i - 1])]

(* Parser::parts, by how far it reads.                                       *)
LEMMA PartsAre ==
  ASSUME NEW s
  PROVE  Parts(s) = {[v |-> Idents(s, k), rest |-> From(s, k + 1)] : k \in Ends(s)}
<1> DEFINE One(k) == [v |-> Idents(s, k), rest |-> From(s, k + 1)]
<1>1. Parts(s) = UNION {{One(k)} : k \in Ends(s)}
  BY DEF Parts, Ends, Idents, Result
<1> HIDE DEF One
<1>2. UNION {{One(k)} : k \in Ends(s)} = {One(k) : k \in Ends(s)}
  OBVIOUS
<1> QED
  BY <1>1, <1>2 DEF One

LEMMA PartsTyped ==
  ASSUME NEW s \in Seq(Token), NEW r \in Parts(s)
  PROVE  r.v \in Seq(Identifier) /\ r.rest \in Seq(Token)
<1>1. PICK k \in Ends(s) : r = [v |-> Idents(s, k), rest |-> From(s, k + 1)]
  BY PartsAre
<1>2. Len(s) \in Nat /\ k \in 1..Len(s) /\ k % 2 = 1
  BY LenProperties DEF Ends
<1> DEFINE n == (k + 1) \div 2
<1>3. n \in Nat /\ k = 2 * n - 1
  BY <1>2, Parity
<1> HIDE DEF n
<1>4. \A i \in 1..n : 2 * i - 1 \in 1..Len(s)
  BY <1>2, <1>3
<1>5. \A i \in 1..n : Ident(s[2 * i - 1]) \in Identifier
  <2>1. \A token \in Token : Ident(token) \in Identifier
    BY DEF Ident, Token, Identifier
  <2>2. \A i \in 1..n : s[2 * i - 1] \in Token
    BY <1>4, ElementOfSeq
  <2> QED
    BY <2>1, <2>2
<1>6. [i \in 1..n |-> Ident(s[2 * i - 1])] \in Seq(Identifier)
  BY <1>3, <1>5
<1>7. From(s, k + 1) \in Seq(Token)
  BY <1>2, Froms
<1> QED
  BY <1>1, <1>6, <1>7 DEF Idents, n

LEMMA TokensOfIdents ==
  ASSUME NEW x \in Identifier
  PROVE  IdentToken(x) \in Token /\ IdentToken(x).t = "id" /\ Ident(IdentToken(x)) = x
<1>1. "id" \in TokenKinds
  BY DEF TokenKinds
<1>2. x.num \in BOOLEAN /\ x.n \in Nat /\ x = [num |-> x.num, n |-> x.n]
  BY DEF Identifier
<1>3. IdentToken(x) \in Token
  BY <1>1, <1>2 DEF IdentToken, Token
<1> QED
  BY <1>2, <1>3 DEF IdentToken, Ident

(* Every symbol is a token of its own kind.                                  *)
LEMMA SymbolsAreTokens ==
  ASSUME NEW x \in TokenKinds
  PROVE  Symbol(x) \in Token /\ Symbol(x).t = x
BY DEF Symbol, Token

(* Identifiers with dots between them alternate with these.                  *)
LEMMA Joined ==
  ASSUME NEW ids \in Seq(Identifier), ids # <<>>
  PROVE  /\ Join(ids) \in Seq(Token) /\ Len(Join(ids)) = 2 * Len(ids) - 1
         /\ Len(ids) \in Nat /\ Len(ids) >= 1
         /\ \A i \in 1..2 * Len(ids) - 1 :
              Join(ids)[i] = IF i % 2 = 1 THEN IdentToken(ids[(i + 1) \div 2]) ELSE Symbol(".")
<1>1. Len(ids) \in Nat /\ Len(ids) >= 1
  BY EmptySeq, LenProperties
<1> DEFINE n == 2 * Len(ids) - 1
           e(i) == IF i % 2 = 1 THEN IdentToken(ids[(i + 1) \div 2]) ELSE Symbol(".")
<1>2. n \in Nat
  BY <1>1
<1>3. \A i \in 1..n : e(i) \in Token
  <2>1. Symbol(".") \in Token
    <3>1. "." \in TokenKinds
      BY DEF TokenKinds
    <3> QED
      BY <3>1, SymbolsAreTokens
  <2>2. ASSUME NEW i \in 1..n, i % 2 = 1
        PROVE  IdentToken(ids[(i + 1) \div 2]) \in Token
    <3>1. i = 2 * ((i + 1) \div 2) - 1 /\ (i + 1) \div 2 \in Int
      BY <2>2, <1>2, Parity
    <3>2. (i + 1) \div 2 \in 1..Len(ids)
      BY <3>1, <1>1
    <3>3. ids[(i + 1) \div 2] \in Identifier
      BY <3>2, ElementOfSeq
    <3> QED
      BY <3>3, TokensOfIdents
  <2> QED
    BY <2>1, <2>2
<1>4. Join(ids) = [i \in 1..n |-> e(i)]
  BY DEF Join
<1> HIDE DEF n, e
<1>5. [i \in 1..n |-> e(i)] \in Seq(Token) /\ Len([i \in 1..n |-> e(i)]) = n
  BY <1>2, <1>3
<1>6. \A i \in 1..n : [j \in 1..n |-> e(j)][i] = e(i)
  OBVIOUS
<1> QED
  BY <1>1, <1>4, <1>5, <1>6 DEF n, e

(* The identifiers that are printed are the ones that are read again, up to  *)
(* what cannot go on with them.                                              *)
LEMMA PartsRead ==
  ASSUME NEW ids \in Seq(Identifier), ids # <<>>,
         NEW rest \in Seq(Token), ~Is(rest, {".", "-"})
  PROVE  Parts(Join(ids) \o rest) = Result(ids, rest)
<1> DEFINE n == Len(ids)
           j == Join(ids)
           s == j \o rest
           m == 2 * n - 1
<1>1. /\ j \in Seq(Token) /\ Len(j) = m /\ n \in Nat /\ n >= 1 /\ m \in 1..m
      /\ \A i \in 1..m : j[i] = IF i % 2 = 1 THEN IdentToken(ids[(i + 1) \div 2]) ELSE Symbol(".")
  BY Joined
<1>2. Len(rest) \in Nat
  BY LenProperties
<1>3. /\ s \in Seq(Token) /\ Len(s) = m + Len(rest)
      /\ \A i \in 1..m + Len(rest) : s[i] = IF i <= m THEN j[i] ELSE rest[i - m]
  <2>1. /\ j \o rest \in Seq(Token) /\ Len(j \o rest) = Len(j) + Len(rest)
        /\ \A i \in 1..Len(j) + Len(rest) :
              (j \o rest)[i] = IF i <= Len(j) THEN j[i] ELSE rest[i - Len(j)]
    BY <1>1, ConcatProperties
  <2> HIDE DEF j, m, n
  <2> QED
    BY <1>1, <2>1 DEF s
<1>4. From(s, m + 1) = rest
  BY <1>1, PastFirst
<1> HIDE DEF n, j, s
<1>5. \A i \in 1..m : s[i] = IF i % 2 = 1 THEN IdentToken(ids[(i + 1) \div 2]) ELSE Symbol(".")
  <2>1. \A i \in 1..m : i \in 1..m + Len(rest) /\ i <= m
    BY <1>1, <1>2
  <2>2. \A i \in 1..m : s[i] = j[i]
    BY <1>3, <2>1
  <2> QED
    BY <1>1, <2>2
<1>6. \A i \in 1..m : i % 2 = 1 => (i + 1) \div 2 \in 1..n /\ ids[(i + 1) \div 2] \in Identifier
  <2> SUFFICES ASSUME NEW i \in 1..m, i % 2 = 1
               PROVE  (i + 1) \div 2 \in 1..n /\ ids[(i + 1) \div 2] \in Identifier
    OBVIOUS
  <2>1. i = 2 * ((i + 1) \div 2) - 1 /\ (i + 1) \div 2 \in Int
    BY Parity, <1>1
  <2>2. (i + 1) \div 2 \in 1..n
    BY <2>1, <1>1
  <2> QED
    BY <2>2, ElementOfSeq DEF n
<1>7. \A i \in 1..m : s[i].t \in IF i % 2 = 1 THEN {"id"} ELSE {".", "-"}
  <2>1. \A i \in 1..m : i % 2 = 1 => s[i].t = "id"
    BY <1>5, <1>6, TokensOfIdents
  <2>2. Symbol(".").t = "."
    BY DEF Symbol
  <2>3. \A i \in 1..m : i % 2 # 1 => s[i].t = "."
    BY <1>5, <2>2
  <2> QED
    BY <2>1, <2>3
<1>8. m \in Ends(s)
  <2>1. m % 2 = 1
    BY <1>1, Parity
  <2>2. m \in 1..Len(s)
    BY <1>1, <1>2, <1>3
  <2> QED
    BY <1>4, <1>7, <2>1, <2>2 DEF Ends
<1>9. ASSUME NEW k \in Ends(s), k # m
      PROVE  FALSE
  <2>1. /\ k \in 1..Len(s) /\ k % 2 = 1 /\ k \in Nat
        /\ \A i \in 1..k : s[i].t \in IF i % 2 = 1 THEN {"id"} ELSE {".", "-"}
        /\ ~Is(From(s, k + 1), {".", "-"})
    BY <1>1, <1>2, <1>3 DEF Ends
  <2>2. (k + 1) % 2 = 0 /\ m % 2 = 1 /\ (m + 1) % 2 = 0
    BY <1>1, <2>1, Parity
  <2>3. CASE k < m
    <3>1. k + 1 \in 1..m /\ k <= Len(s) /\ Len(s) - k >= 1
      BY <1>1, <1>2, <1>3, <2>1, <2>3
    <3>2. s[k + 1] = Symbol(".")
      BY <1>5, <2>2, <3>1
    <3>3. /\ From(s, k + 1) \in Seq(Token) /\ Len(From(s, k + 1)) = Len(s) - k
          /\ \A i \in 1..Len(s) - k : From(s, k + 1)[i] = s[k + i]
      BY <1>3, <2>1, <3>1, Froms
    <3>4. Len(s) \in Nat
      BY <1>1, <1>2, <1>3
    <3>5. From(s, k + 1) # <<>> /\ From(s, k + 1)[1] = s[k + 1]
      BY <2>1, <3>1, <3>3, <3>4, EmptySeq
    <3>6. Is(From(s, k + 1), {".", "-"})
      BY <3>2, <3>5 DEF Is, Peek, Symbol
    <3> QED
      BY <2>1, <3>6
  <2>4. CASE k > m
    <3>1. m + 1 \in 1..k /\ m + 1 \in 1..m + Len(rest) /\ ~(m + 1 <= m) /\ m + 1 - m = 1
      BY <1>1, <1>2, <1>3, <2>1, <2>4
    <3>2. s[m + 1] = rest[1]
      <4> DEFINE i == m + 1
      <4>1. i \in 1..m + Len(rest) /\ ~(i <= m) /\ i - m = 1
        BY <1>1, <3>1
      <4> HIDE DEF i
      <4>2. s[i] = rest[i - m]
        BY <1>3, <4>1
      <4> QED
        BY <4>1, <4>2 DEF i
    <3>3. s[m + 1].t \in {".", "-"}
      BY <2>1, <2>2, <3>1
    <3>4. rest # <<>>
      <4>1. Len(rest) # 0
        BY <1>1, <1>2, <3>1
      <4> QED
        BY <4>1, EmptySeq
    <3> QED
      BY <3>2, <3>3, <3>4 DEF Is, Peek
  <2> QED
    BY <1>1, <1>9, <2>1, <2>3, <2>4
<1>10. Idents(s, m) = ids
  <2>1. (m + 1) \div 2 = n
    BY <1>1, Parity
  <2>2. ASSUME NEW i \in 1..n
        PROVE  Ident(s[2 * i - 1]) = ids[i]
    <3>1. 2 * i - 1 \in 1..m /\ (2 * i - 1) % 2 = 1 /\ (2 * i - 1 + 1) \div 2 = i
      BY <1>1, Parity
    <3>2. s[2 * i - 1] = IdentToken(ids[i]) /\ ids[i] \in Identifier
      BY <1>5, <1>6, <3>1
    <3> QED
      BY <3>2, TokensOfIdents
  <2>3. ids = [i \in 1..n |-> ids[i]]
    BY LenProperties DEF n
  <2> QED
    BY <2>1, <2>2, <2>3 DEF Idents
<1>11. Ends(s) = {m}
  BY <1>8, <1>9
<1>12. Parts(s) = {[v |-> ids, rest |-> rest]}
  BY <1>4, <1>10, <1>11, PartsAre
<1> QED
  BY <1>12 DEF s, j, Result

(* A token that Parser::peek finds is there to be read.                      *)
LEMMA Peeked ==
  ASSUME NEW s \in Seq(Token), NEW kinds, "end" \notin kinds, Is(s, kinds)
  PROVE  /\ s # <<>> /\ s[1] \in Token /\ s[1].t \in kinds
         /\ Tail(s) \in Seq(Token) /\ Len(s) \in Nat /\ Len(s) >= 1
<1>1. s # <<>>
  BY DEF Is, Peek, Symbol
<1>2. Len(s) \in Nat /\ Len(s) >= 1
  BY <1>1, EmptySeq, LenProperties
<1>3. s[1] \in Token
  BY <1>2, ElementOfSeq
<1>4. Tail(s) \in Seq(Token)
  BY <1>1, HeadTailProperties
<1> QED
  BY <1>1, <1>2, <1>3, <1>4 DEF Is, Peek

LEMMA Skipped ==
  ASSUME NEW s \in Seq(Token)
  PROVE  SkipWhitespace(s) \in Seq(Token)
<1>1. CASE Is(s, {" "})
  BY <1>1, Peeked DEF SkipWhitespace
<1>2. CASE ~Is(s, {" "})
  BY <1>2 DEF SkipWhitespace
<1> QED
  BY <1>1, <1>2

(* What is read behind a `-` or `+` are identifiers, and a text is left.     *)
LEMMA MarkedTyped ==
  ASSUME NEW s \in Seq(Token), NEW mark \in {"-", "+"}, NEW r \in Marked(s, mark)
  PROVE  r.v \in Seq(Identifier) /\ r.rest \in Seq(Token)
<1>1. CASE Is(s, {mark})
  <2>1. Tail(s) \in Seq(Token)
    BY <1>1, Peeked
  <2>2. r \in Parts(Tail(s))
    BY <1>1 DEF Marked
  <2> QED
    BY <2>1, <2>2, PartsTyped
<1>2. CASE ~Is(s, {mark})
  <2>1. r = [v |-> <<>>, rest |-> s]
    BY <1>2 DEF Marked, Result
  <2> QED
    BY <2>1
<1> QED
  BY <1>1, <1>2

(* A pre-release that is printed is read again, and so is build metadata.    *)
LEMMA MarkedRead ==
  ASSUME NEW ids \in Seq(Identifier), NEW mark \in {"-", "+"},
         NEW rest \in Seq(Token), ~Is(rest, {".", "-", mark})
  PROVE  /\ Suffix(mark, ids) \in Seq(Token)
         /\ Suffix(mark, ids) \o rest \in Seq(Token)
         /\ Is(Suffix(mark, ids) \o rest, {mark}) \/ Suffix(mark, ids) \o rest = rest
         /\ Marked(Suffix(mark, ids) \o rest, mark) = Result(ids, rest)
<1>1. CASE ids = <<>>
  <2>1. Suffix(mark, ids) = <<>>
    BY <1>1 DEF Suffix
  <2>2. Suffix(mark, ids) \o rest = rest /\ <<>> \in Seq(Token)
    BY <2>1, ConcatEmptySeq
  <2>3. ~Is(rest, {mark})
    BY DEF Is
  <2> QED
    BY <1>1, <2>1, <2>2, <2>3 DEF Marked
<1>2. CASE ids # <<>>
  <2>0. mark \in TokenKinds
    BY DEF TokenKinds
  <2>1. Symbol(mark) \in Token /\ Symbol(mark).t = mark
    BY <2>0, SymbolsAreTokens
  <2>2. Join(ids) \in Seq(Token) /\ Join(ids) \o rest \in Seq(Token)
    BY <1>2, Joined, ConcatProperties
  <2>3. Suffix(mark, ids) = <<Symbol(mark)>> \o Join(ids)
    BY <1>2 DEF Suffix
  <2>4. <<Symbol(mark)>> \in Seq(Token)
    BY <2>1
  <2>5. Suffix(mark, ids) \o rest = <<Symbol(mark)>> \o (Join(ids) \o rest)
    BY <2>2, <2>3, <2>4, ConcatAssociative
  <2> DEFINE s == Suffix(mark, ids) \o rest
             t == Join(ids) \o rest
             m == Symbol(mark)
  <2>6. t \in Seq(Token) /\ m \in Token /\ s = <<m>> \o t
    BY <2>1, <2>2, <2>5
  <2>7. Parts(t) = Result(ids, rest)
    <3>1. ~Is(rest, {".", "-"})
      BY DEF Is
    <3> QED
      BY <1>2, <3>1, PartsRead
  <2> HIDE DEF s, t, m
  <2>8. s \in Seq(Token) /\ s # <<>> /\ s[1] = m /\ Tail(s) = t
    BY <2>6, Prefixed
  <2>9. Is(s, {mark})
    BY <2>1, <2>8 DEF Is, Peek, m
  <2>10. Marked(s, mark) = Result(ids, rest)
    BY <2>7, <2>8, <2>9 DEF Marked
  <2>11. Suffix(mark, ids) \in Seq(Token)
    BY <2>2, <2>3, <2>4, ConcatProperties
  <2> QED
    BY <2>8, <2>9, <2>10, <2>11 DEF s
<1> QED
  BY <1>1, <1>2

(* Nothing is read at the end of a text.                                     *)
LEMMA EmptyText ==
  /\ <<>> \in Seq(Token)
  /\ \A kinds : "end" \notin kinds => ~Is(<<>>, kinds)
  /\ SkipWhitespace(<<>>) = <<>>
  /\ \A mark \in {"-", "+"} : Marked(<<>>, mark) = Result(<<>>, <<>>)
<1>1. \A kinds : "end" \notin kinds => ~Is(<<>>, kinds)
  BY DEF Is, Peek, Symbol
<1>2. ~Is(<<>>, {" "}) /\ \A mark \in {"-", "+"} : ~Is(<<>>, {mark})
  BY <1>1
<1>3. <<>> \in Seq(Token)
  OBVIOUS
<1>4. SkipWhitespace(<<>>) = <<>>
  BY <1>2 DEF SkipWhitespace
<1>5. \A mark \in {"-", "+"} : Marked(<<>>, mark) = Result(<<>>, <<>>)
  BY <1>2 DEF Marked
<1> QED
  BY <1>1, <1>3, <1>4, <1>5

(* What is read as a version is one.                                         *)
LEMMA VersionsTyped ==
  ASSUME NEW words \in Seq(Token), NEW v \in ReadVersion(words)
  PROVE  v \in SemVersion
<1> DEFINE s == SkipWhitespace(words)
           Both == {r \in UNION {{<<p, b>> : b \in Marked(p.rest, "+")} :
                                    p \in Marked(From(s, 6), "-")} :
                       SkipWhitespace(r[2].rest) = <<>>}
           Made(r) == [major |-> s[1].n, minor |-> s[3].n, patch |-> s[5].n,
                       pre |-> r[1].v, build |-> r[2].v]
<1>1. Len(s) >= 5 /\ v \in {Made(r) : r \in Both}
  BY DEF ReadVersion
<1>2. s \in Seq(Token) /\ Len(s) \in Nat
  BY Skipped, LenProperties
<1> HIDE DEF s
<1>3. s[1] \in Token /\ s[3] \in Token /\ s[5] \in Token
  BY <1>1, <1>2, ElementOfSeq
<1>4. s[1].n \in Nat /\ s[3].n \in Nat /\ s[5].n \in Nat
  BY <1>3 DEF Token
<1>5. From(s, 6) \in Seq(Token)
  <2>1. From(s, 5 + 1) \in Seq(Token)
    BY <1>1, <1>2, Froms
  <2> QED
    BY <2>1
<1>6. PICK r \in Both : v = Made(r)
  BY <1>1
<1>7. PICK p \in Marked(From(s, 6), "-") : r \in {<<p, b>> : b \in Marked(p.rest, "+")}
  BY <1>6
<1>8. PICK b \in Marked(p.rest, "+") : r = <<p, b>>
  BY <1>7
<1>9. p.v \in Seq(Identifier) /\ p.rest \in Seq(Token)
  BY <1>5, MarkedTyped
<1>10. b.v \in Seq(Identifier)
  BY <1>9, MarkedTyped
<1>11. r[1] = p /\ r[2] = b
  BY <1>8
<1> QED
  BY <1>4, <1>6, <1>9, <1>10, <1>11 DEF SemVersion

(* A version that is printed and read again is the one that was printed.     *)
LEMMA VersionsRead ==
  ASSUME NEW v \in SemVersion
  PROVE  ReadVersion(WriteVersion(v)) = {v}
<1> DEFINE core == <<Numeric(v.major), Numeric(v.minor), Numeric(v.patch)>>
           h == Join(core)
           build == Suffix("+", v.build)
           rest == Suffix("-", v.pre) \o build
           s == h \o rest
           At(n) == IdentToken(Numeric(n))
<1>1. /\ v.major \in Nat /\ v.minor \in Nat /\ v.patch \in Nat
      /\ v.pre \in Seq(Identifier) /\ v.build \in Seq(Identifier)
      /\ v = [major |-> v.major, minor |-> v.minor, patch |-> v.patch, pre |-> v.pre,
              build |-> v.build]
  BY DEF SemVersion
<1>2. \A n \in Nat : /\ Numeric(n) \in Identifier
                     /\ At(n) \in Token /\ At(n).t = "id" /\ At(n).num /\ At(n).n = n
  <2>1. \A n \in Nat : Numeric(n) \in Identifier /\ Numeric(n).num /\ Numeric(n).n = n
    BY DEF Numeric, Identifier
  <2>2. \A n \in Nat : At(n).num = Numeric(n).num /\ At(n).n = Numeric(n).n
    BY DEF IdentToken
  <2> QED
    BY <2>1, <2>2, TokensOfIdents
<1>3. core \in Seq(Identifier) /\ core # <<>> /\ Len(core) = 3
  BY <1>1, <1>2
<1>4. /\ h \in Seq(Token) /\ Len(h) = 5
      /\ h[1] = At(v.major) /\ h[2] = Symbol(".") /\ h[3] = At(v.minor)
      /\ h[4] = Symbol(".") /\ h[5] = At(v.patch)
  <2>1. /\ h \in Seq(Token) /\ Len(h) = 2 * Len(core) - 1
        /\ \A i \in 1..2 * Len(core) - 1 :
              h[i] = IF i % 2 = 1 THEN IdentToken(core[(i + 1) \div 2]) ELSE Symbol(".")
    BY <1>3, Joined
  <2>2. core[1] = Numeric(v.major) /\ core[2] = Numeric(v.minor) /\ core[3] = Numeric(v.patch)
    OBVIOUS
  <2>3. 2 * Len(core) - 1 = 5
    BY <1>3
  <2> HIDE DEF core, h
  <2>4. h \in Seq(Token) /\ Len(h) = 5
        /\ \A i \in 1..5 :
              h[i] = IF i % 2 = 1 THEN IdentToken(core[(i + 1) \div 2]) ELSE Symbol(".")
    BY <2>1, <2>3
  <2>5. /\ h[1] = IdentToken(core[1]) /\ h[2] = Symbol(".") /\ h[3] = IdentToken(core[2])
        /\ h[4] = Symbol(".") /\ h[5] = IdentToken(core[3])
    <3>1. /\ 1 % 2 = 1 /\ 2 % 2 = 0 /\ 3 % 2 = 1 /\ 4 % 2 = 0 /\ 5 % 2 = 1
          /\ (1 + 1) \div 2 = 1 /\ (3 + 1) \div 2 = 2 /\ (5 + 1) \div 2 = 3
      OBVIOUS
    <3> QED
      BY <2>4, <3>1
  <2> QED
    BY <2>2, <2>4, <2>5
<1>5. ~Is(<<>>, {".", "-", "+"}) /\ <<>> \in Seq(Token)
  BY EmptyText
<1>6. /\ build \in Seq(Token) /\ build = build \o <<>>
      /\ Is(build, {"+"}) \/ build = <<>>
      /\ Marked(build, "+") = Result(v.build, <<>>)
  <2>1. /\ Suffix("+", v.build) \in Seq(Token)
        /\ Is(Suffix("+", v.build) \o <<>>, {"+"}) \/ Suffix("+", v.build) \o <<>> = <<>>
        /\ Marked(Suffix("+", v.build) \o <<>>, "+") = Result(v.build, <<>>)
    BY <1>1, <1>5, MarkedRead
  <2>2. Suffix("+", v.build) \o <<>> = Suffix("+", v.build)
    BY <2>1, ConcatEmptySeq
  <2> QED
    BY <2>1, <2>2
<1>7. ~Is(build, {".", "-"})
  BY <1>6, EmptyText DEF Is
<1>8. rest \in Seq(Token) /\ Marked(rest, "-") = Result(v.pre, build)
  <2>1. ~Is(build, {".", "-", "-"})
    BY <1>7 DEF Is
  <2> HIDE DEF build
  <2> QED
    BY <1>1, <1>6, <2>1, MarkedRead
<1>9. WriteVersion(v) = s
  <2>1. Suffix("-", v.pre) \in Seq(Token)
    <3>1. ~Is(<<>>, {".", "-", "-"})
      BY <1>5 DEF Is
    <3> QED
      BY <1>1, <1>5, <3>1, MarkedRead
  <2> HIDE DEF build, core
  <2>2. WriteVersion(v) = (h \o Suffix("-", v.pre)) \o build
    BY DEF WriteVersion, core, build
  <2> HIDE DEF h
  <2>3. (h \o Suffix("-", v.pre)) \o build = h \o (Suffix("-", v.pre) \o build)
    <3>1. h \in Seq(Token) /\ build \in Seq(Token)
      BY <1>4, <1>6
    <3> QED
      BY <2>1, <3>1, ConcatAssociative
  <2> QED
    BY <2>2, <2>3
<1> HIDE DEF core, h, build, rest, At
<1>10. Len(rest) \in Nat
  BY <1>8, LenProperties
<1>11. /\ s \in Seq(Token) /\ Len(s) = 5 + Len(rest)
       /\ \A i \in 1..5 : s[i] = h[i]
  <2>1. /\ h \o rest \in Seq(Token) /\ Len(h \o rest) = Len(h) + Len(rest)
        /\ \A i \in 1..Len(h) + Len(rest) :
              (h \o rest)[i] = IF i <= Len(h) THEN h[i] ELSE rest[i - Len(h)]
    BY <1>4, <1>8, ConcatProperties
  <2> QED
    BY <1>4, <1>10, <2>1
<1>12. From(s, 6) = rest
  <2>1. From(h \o rest, Len(h) + 1) = rest
    BY <1>4, <1>8, PastFirst
  <2> QED
    BY <1>4, <2>1
<1> HIDE DEF s
<1>13. SkipWhitespace(s) = s
  <2>1. s # <<>>
    BY <1>10, <1>11, EmptySeq
  <2>2. s[1].t = "id"
    BY <1>1, <1>2, <1>4, <1>11
  <2> QED
    BY <2>1, <2>2 DEF SkipWhitespace, Is, Peek
<1>14. ASSUME NEW k \in {0, 2, 4}
       PROVE  Numbered(From(s, k + 1)) /\ s[k + 1].num
  <2> DEFINE f == From(s, k + 1)
  <2>1. k \in Nat /\ k <= Len(s) /\ k + 1 \in 1..5 /\ 1 \in 1..Len(s) - k
    BY <1>10, <1>11
  <2>2. f \in Seq(Token) /\ Len(f) = Len(s) - k /\ f[1] = s[k + 1]
    BY <1>11, <2>1, Froms
  <2>3. f # <<>>
    BY <1>10, <1>11, <2>1, <2>2, EmptySeq
  <2>4. s[k + 1].t = "id" /\ s[k + 1].num
    BY <1>1, <1>2, <1>4, <1>11
  <2> QED
    BY <2>2, <2>3, <2>4 DEF Numbered, Is, Peek
<1>15. Numbered(s) /\ Numbered(From(s, 3)) /\ Numbered(From(s, 5))
  <2>1. Numbered(From(s, 2 + 1)) /\ Numbered(From(s, 4 + 1)) /\ s[0 + 1].num
    BY <1>14
  <2>2. s # <<>>
    BY <1>10, <1>11, EmptySeq
  <2>3. s[1].t = "id" /\ s[1].num
    BY <1>1, <1>2, <1>4, <1>11
  <2> QED
    BY <2>1, <2>2, <2>3 DEF Numbered, Is, Peek
<1>16. Len(s) >= 5 /\ s[2].t = "." /\ s[4].t = "."
  BY <1>4, <1>10, <1>11 DEF Symbol
<1> DEFINE p1 == [v |-> v.pre, rest |-> build]
           b1 == [v |-> v.build, rest |-> <<>>]
           Both == UNION {{<<p, b>> : b \in Marked(p.rest, "+")} : p \in Marked(From(s, 6), "-")}
           Made(r) == [major |-> s[1].n, minor |-> s[3].n, patch |-> s[5].n,
                       pre |-> r[1].v, build |-> r[2].v]
<1>17. Both = {<<p1, b1>>}
  <2>1. Marked(From(s, 6), "-") = {p1}
    BY <1>8, <1>12 DEF Result
  <2>2. Marked(p1.rest, "+") = {b1}
    BY <1>6 DEF Result
  <2> HIDE DEF p1, b1
  <2> QED
    BY <2>1, <2>2
<1>18. ReadVersion(s) = {Made(r) : r \in {r \in Both : SkipWhitespace(r[2].rest) = <<>>}}
  BY <1>13, <1>15, <1>16 DEF ReadVersion
<1>19. {r \in Both : SkipWhitespace(r[2].rest) = <<>>} = {<<p1, b1>>}
  BY <1>17, EmptyText
<1>20. Made(<<p1, b1>>) = v
  BY <1>1, <1>2, <1>4, <1>11
<1> HIDE DEF Made, Both, p1, b1
<1> QED
  BY <1>9, <1>18, <1>19, <1>20

(* A component is a number or a wildcard.                                    *)
LEMMA ComponentsTyped ==
  ASSUME NEW s \in Seq(Token), NEW c \in Component(s)
  PROVE  /\ c.rest \in Seq(Token)
         /\ c.v.n \in ParsedPart /\ (c.v.wild <=> c.v.n = Missing)
<1>0. Missing \notin Nat
  BY DEF Missing
<1>1. CASE Numbered(s)
  <2>1. Is(s, {"id"})
    BY <1>1 DEF Numbered
  <2>2. s[1] \in Token /\ Tail(s) \in Seq(Token)
    BY <2>1, Peeked
  <2>3. c = [v |-> [n |-> s[1].n, wild |-> FALSE], rest |-> Tail(s)]
    BY <1>1 DEF Component, Result
  <2>4. s[1].n \in Nat
    BY <2>2 DEF Token
  <2> QED
    BY <1>0, <2>2, <2>3, <2>4 DEF ParsedPart
<1>2. CASE ~Numbered(s)
  <2>1. Is(s, {"*"}) \/ Is(s, {"id"})
    BY <1>2 DEF Component
  <2>2. c = [v |-> [n |-> Missing, wild |-> TRUE], rest |-> Tail(s)]
    BY <1>2 DEF Component, Result
  <2>3. Tail(s) \in Seq(Token)
    BY <2>1, Peeked
  <2> QED
    BY <2>2, <2>3 DEF ParsedPart
<1> QED
  BY <1>1, <1>2

(* One behind a dot may be missing as well; without a dot it is.             *)
LEMMA DotComponentsTyped ==
  ASSUME NEW s \in Seq(Token), NEW c \in DotComponent(s)
  PROVE  /\ c.rest \in Seq(Token)
         /\ c.v.n \in ParsedPart
         /\ c.v.wild => c.v.n = Missing
         /\ c.v.n = Missing /\ ~c.v.wild => c.rest = s /\ ~Is(s, {"."})
         /\ ~Is(s, {"."}) => c.v.n = Missing /\ ~c.v.wild
<1>1. CASE Is(s, {"."})
  <2>1. Tail(s) \in Seq(Token)
    BY <1>1, Peeked
  <2>2. c \in Component(Tail(s))
    BY <1>1 DEF DotComponent
  <2> QED
    BY <1>1, <2>1, <2>2, ComponentsTyped
<1>2. CASE ~Is(s, {"."})
  <2>1. c = [v |-> [n |-> Missing, wild |-> FALSE], rest |-> s]
    BY <1>2 DEF DotComponent, Result
  <2> QED
    BY <1>2, <2>1 DEF ParsedPart
<1> QED
  BY <1>1, <1>2

(* What Parser::predicate goes through once it has an operator.               *)
OpOf(op, minor, patch) == IF patch.wild THEN "x.y.*" ELSE IF minor.wild THEN "x.*" ELSE op
Found(op, c, m, q, p) ==
    [op |-> OpOf(op, m.v, q.v), major |-> c.v.n, minor |-> m.v.n, patch |-> q.v.n, pre |-> p.v]
OpHere(s) == IF Is(s, Ops) THEN s[1].t ELSE "^"
PastOp(s) == IF Is(s, Ops) THEN SkipWhitespace(Tail(s)) ELSE s
FoundAfter(op, c) ==
    UNION {UNION {UNION {
        {[v |-> Found(op, c, m, q, p), rest |-> b.rest] : b \in Marked(p.rest, "+")} :
            p \in Marked(q.rest, "-")} :
            q \in DotComponent(m.rest)} :
            m \in DotComponent(c.rest)}

(* Parser::predicate, as the calls that follow its operator.                 *)
LEMMA PredicatesAre ==
  ASSUME NEW s, s # <<>>
  PROVE  ReadPredicate(s) =
           UNION {IF c.v.wild THEN Result(Anything, c.rest) ELSE FoundAfter(OpHere(s), c) :
                    c \in Component(PastOp(s))}
BY DEF ReadPredicate, FoundAfter, Found, OpOf, OpHere, PastOp

(* A predicate that is read misses its last parts only, and those that a     *)
(* wildcard stands for.                                                      *)
LEMMA PredicatesTyped ==
  ASSUME NEW s \in Seq(Token), NEW r \in ReadPredicate(s), r.v.op # "any"
  PROVE  r.v \in Parsed
<1>1. s # <<>>
  <2> SUFFICES ASSUME s = <<>>
               PROVE  FALSE
    OBVIOUS
  <2>1. r = [v |-> Anything, rest |-> s]
    BY DEF ReadPredicate, Result
  <2> QED
    BY <2>1 DEF Anything
<1>2. OpHere(s) \in Ops /\ PastOp(s) \in Seq(Token)
  <2>1. CASE Is(s, Ops)
    <3>1. "end" \notin Ops
      BY DEF Ops
    <3>2. s[1].t \in Ops /\ Tail(s) \in Seq(Token)
      BY <2>1, <3>1, Peeked
    <3> QED
      BY <2>1, <3>2, Skipped DEF OpHere, PastOp
  <2>2. CASE ~Is(s, Ops)
    BY <2>2 DEF OpHere, PastOp, Ops
  <2> QED
    BY <2>1, <2>2
<1>3. PICK c \in Component(PastOp(s)) :
        r \in IF c.v.wild THEN Result(Anything, c.rest) ELSE FoundAfter(OpHere(s), c)
  BY <1>1, PredicatesAre
<1>4. ~c.v.wild
  <2> SUFFICES ASSUME c.v.wild
               PROVE  FALSE
    OBVIOUS
  <2>1. r = [v |-> Anything, rest |-> c.rest]
    BY <1>3 DEF Result
  <2> QED
    BY <2>1 DEF Anything
<1>5. c.rest \in Seq(Token) /\ c.v.n \in Nat
  BY <1>2, <1>4, ComponentsTyped DEF ParsedPart
<1>6. PICK m \in DotComponent(c.rest) :
        r \in UNION {UNION {
          {[v |-> Found(OpHere(s), c, m, q, p), rest |-> b.rest] : b \in Marked(p.rest, "+")} :
            p \in Marked(q.rest, "-")} :
            q \in DotComponent(m.rest)}
  BY <1>3, <1>4 DEF FoundAfter
<1>7. PICK q \in DotComponent(m.rest) :
        r \in UNION {
          {[v |-> Found(OpHere(s), c, m, q, p), rest |-> b.rest] : b \in Marked(p.rest, "+")} :
            p \in Marked(q.rest, "-")}
  BY <1>6
<1>8. PICK p \in Marked(q.rest, "-") :
        r \in {[v |-> Found(OpHere(s), c, m, q, p), rest |-> b.rest] : b \in Marked(p.rest, "+")}
  BY <1>7
<1>9. r.v = Found(OpHere(s), c, m, q, p)
  BY <1>8
<1>10. /\ m.rest \in Seq(Token) /\ m.v.n \in ParsedPart
       /\ m.v.wild => m.v.n = Missing
       /\ m.v.n = Missing /\ ~m.v.wild => m.rest = c.rest /\ ~Is(c.rest, {"."})
  BY <1>5, DotComponentsTyped
<1>11. /\ q.rest \in Seq(Token) /\ q.v.n \in ParsedPart
       /\ q.v.wild => q.v.n = Missing
       /\ ~Is(m.rest, {"."}) => q.v.n = Missing /\ ~q.v.wild
  BY <1>10, DotComponentsTyped
<1>12. p.v \in Seq(Identifier)
  BY <1>11, MarkedTyped
<1> DEFINE op == OpOf(OpHere(s), m.v, q.v)
<1>13. /\ r.v = [op |-> op, major |-> c.v.n, minor |-> m.v.n, patch |-> q.v.n, pre |-> p.v]
       /\ op \in Ops \cup {"x.*", "x.y.*"}
  BY <1>2, <1>9 DEF Found, OpOf
<1>14. /\ op \in Ops => ~m.v.wild
       /\ op = "x.*" => m.v.wild
       /\ op = "x.y.*" => q.v.wild
  BY <1>2 DEF OpOf, Ops
<1>15. /\ op \in Ops /\ m.v.n = Missing => q.v.n = Missing
       /\ op = "x.*" => m.v.n = Missing
       /\ op = "x.y.*" => q.v.n = Missing
  BY <1>10, <1>11, <1>14
<1> HIDE DEF op
<1>16. r.v \in PredicateFields
  BY <1>5, <1>10, <1>11, <1>12, <1>13 DEF PredicateFields
<1>17. r.v.op = op /\ r.v.minor = m.v.n /\ r.v.patch = q.v.n
  BY <1>13
<1> QED
  BY <1>15, <1>16, <1>17 DEF Parsed

(* What reading gives for the parts of a predicate that was printed.         *)
LEMMA NumbersRead ==
  ASSUME NEW n \in Nat, NEW rest \in Seq(Token)
  PROVE  LET s == <<IdentToken(Numeric(n))>> \o rest
         IN  /\ s \in Seq(Token) /\ s # <<>> /\ s[1].t = "id"
             /\ Component(s) = Result([n |-> n, wild |-> FALSE], rest)
<1> DEFINE a == IdentToken(Numeric(n))
           s == <<a>> \o rest
<1>1. a \in Token /\ a.t = "id" /\ a.num /\ a.n = n
  <2>1. Numeric(n) \in Identifier /\ Numeric(n).num /\ Numeric(n).n = n
    BY DEF Numeric, Identifier
  <2> QED
    BY <2>1, TokensOfIdents DEF IdentToken
<1> HIDE DEF a
<1>2. s \in Seq(Token) /\ s # <<>> /\ s[1] = a /\ Tail(s) = rest
  BY <1>1, Prefixed
<1> HIDE DEF s
<1>3. Numbered(s)
  BY <1>1, <1>2 DEF Numbered, Is, Peek
<1>4. Component(s) = Result([n |-> n, wild |-> FALSE], rest)
  BY <1>1, <1>2, <1>3 DEF Component
<1> QED
  BY <1>1, <1>2, <1>4 DEF s, a

(* A component is read behind a dot as it would be without one.              *)
LEMMA Dotted ==
  ASSUME NEW a \in Token, NEW rest \in Seq(Token)
  PROVE  LET s == <<Symbol("."), a>> \o rest
         IN  /\ s \in Seq(Token) /\ Is(s, {"."})
             /\ DotComponent(s) = Component(<<a>> \o rest)
<1> DEFINE d == Symbol(".")
           t == <<a>> \o rest
           s == <<d, a>> \o rest
<1>1. d \in Token /\ d.t = "."
  <2>1. "." \in TokenKinds
    BY DEF TokenKinds
  <2> QED
    BY <2>1, SymbolsAreTokens
<1> HIDE DEF d
<1>2. <<d>> \in Seq(Token) /\ <<a>> \in Seq(Token) /\ <<d>> \o <<a>> = <<d, a>>
  <2>1. <<d>> \in Seq(Token) /\ <<a>> \in Seq(Token) /\ <<d, a>> \in Seq(Token) /\ Len(<<d, a>>) = 2
        /\ Len(<<a>>) = 1
    BY <1>1
  <2>2. /\ <<d>> \o <<a>> \in Seq(Token) /\ Len(<<d>> \o <<a>>) = Len(<<a>>) + 1
        /\ (<<d>> \o <<a>>)[1] = d /\ Tail(<<d>> \o <<a>>) = <<a>>
    <3> DEFINE one == <<a>>
    <3>1. one \in Seq(Token)
      BY <2>1
    <3> HIDE DEF one
    <3>2. /\ <<d>> \o one \in Seq(Token) /\ Len(<<d>> \o one) = Len(one) + 1
          /\ (<<d>> \o one)[1] = d /\ Tail(<<d>> \o one) = one
      BY <1>1, <3>1, Prefixed
    <3> QED
      BY <3>2 DEF one
  <2>3. (<<d>> \o <<a>>)[2] = a
    <3>1. /\ Len(Tail(<<d>> \o <<a>>)) = 1
          /\ \A i \in 1..Len(Tail(<<d>> \o <<a>>)) :
                Tail(<<d>> \o <<a>>)[i] = (<<d>> \o <<a>>)[i + 1]
      <4>1. <<d>> \o <<a>> # <<>>
        BY <2>1, <2>2, EmptySeq
      <4> QED
        BY <2>1, <2>2, <4>1, HeadTailProperties
    <3>2. Tail(<<d>> \o <<a>>)[1] = (<<d>> \o <<a>>)[1 + 1]
      BY <3>1
    <3> QED
      BY <2>2, <3>2
  <2>4. \A i \in 1..2 : (<<d>> \o <<a>>)[i] = <<d, a>>[i]
    <3>1. \A i \in 1..2 : i = 1 \/ i = 2
      OBVIOUS
    <3> QED
      BY <2>2, <2>3, <3>1
  <2>5. Len(<<d>> \o <<a>>) = 2
    BY <2>1, <2>2
  <2> QED
    BY <2>1, <2>2, <2>4, <2>5, SeqEqual
<1>3. t \in Seq(Token)
  BY Prefixed
<1>4. s = <<d>> \o t
  BY <1>2, ConcatAssociative
<1>5. s \in Seq(Token) /\ s # <<>> /\ s[1] = d /\ Tail(s) = t
  BY <1>1, <1>3, <1>4, Prefixed
<1> HIDE DEF s, t
<1>6. Is(s, {"."})
  BY <1>1, <1>5 DEF Is, Peek
<1>7. DotComponent(s) = Component(t)
  BY <1>5, <1>6 DEF DotComponent
<1> QED
  BY <1>5, <1>6, <1>7 DEF s, t, d

(* A part of a predicate that is printed is read again.                      *)
LEMMA PartRead ==
  ASSUME NEW n \in ParsedPart, NEW rest \in Seq(Token), n = Missing => ~Is(rest, {"."})
  PROVE  /\ Part(n) \in Seq(Token) /\ Part(n) \o rest \in Seq(Token)
         /\ n = Missing => Part(n) \o rest = rest
         /\ DotComponent(Part(n) \o rest) = Result([n |-> n, wild |-> FALSE], rest)
<1>1. CASE n = Missing
  <2>1. Part(n) = <<>> /\ <<>> \in Seq(Token) /\ Part(n) \o rest = rest
    BY <1>1, ConcatEmptySeq DEF Part
  <2> QED
    BY <1>1, <2>1 DEF DotComponent
<1>2. CASE n \in Nat /\ n # Missing
  <2> DEFINE a == IdentToken(Numeric(n))
  <2>1. a \in Token
    <3>1. Numeric(n) \in Identifier
      BY <1>2 DEF Numeric, Identifier
    <3> QED
      BY <3>1, TokensOfIdents
  <2>2. Component(<<a>> \o rest) = Result([n |-> n, wild |-> FALSE], rest)
    BY <1>2, NumbersRead
  <2>3. Symbol(".") \in Token
    <3>1. "." \in TokenKinds
      BY DEF TokenKinds
    <3> QED
      BY <3>1, SymbolsAreTokens
  <2> HIDE DEF a
  <2>4. /\ <<Symbol("."), a>> \o rest \in Seq(Token) /\ <<Symbol("."), a>> \in Seq(Token)
        /\ DotComponent(<<Symbol("."), a>> \o rest) = Component(<<a>> \o rest)
    BY <2>1, <2>3, Dotted
  <2>5. Part(n) = <<Symbol("."), a>>
    BY <1>2 DEF Part, a
  <2> QED
    BY <1>2, <2>2, <2>4, <2>5
<1> QED
  BY <1>1, <1>2 DEF ParsedPart, Missing

(* So is a wildcard.                                                         *)
LEMMA StarRead ==
  ASSUME NEW rest \in Seq(Token)
  PROVE  /\ Star \in Seq(Token) /\ Star \o rest \in Seq(Token)
         /\ DotComponent(Star \o rest) = Result([n |-> Missing, wild |-> TRUE], rest)
<1> DEFINE a == Symbol("*")
           t == <<a>> \o rest
<1>1. a \in Token /\ a.t = "*" /\ Symbol(".") \in Token
  <2>1. "." \in TokenKinds /\ "*" \in TokenKinds
    BY DEF TokenKinds
  <2> QED
    BY <2>1, SymbolsAreTokens
<1>2. t \in Seq(Token) /\ t # <<>> /\ t[1] = a /\ Tail(t) = rest
  BY <1>1, Prefixed
<1> HIDE DEF t, a
<1>3. Is(t, {"*"}) /\ ~Numbered(t)
  BY <1>1, <1>2 DEF Is, Peek, Numbered
<1>4. Component(t) = Result([n |-> Missing, wild |-> TRUE], rest)
  BY <1>2, <1>3 DEF Component
<1>5. /\ <<Symbol("."), a>> \o rest \in Seq(Token) /\ <<Symbol("."), a>> \in Seq(Token)
      /\ DotComponent(<<Symbol("."), a>> \o rest) = Component(t)
  BY <1>1, Dotted DEF t
<1>6. Star = <<Symbol("."), a>>
  BY DEF Star, a
<1> QED
  BY <1>4, <1>5, <1>6

(* Printing leaves out of a predicate with a wildcard what does not count.   *)
Printed(p) == IF p.op \in Ops THEN p ELSE [p EXCEPT !.patch = Missing, !.pre = <<>>]

(* A predicate is read in one way when each of its parts is.                 *)
LEMMA FoundOne ==
  ASSUME NEW s, s # <<>>, NEW c, NEW m, NEW q, NEW p, NEW b,
         Component(PastOp(s)) = {c}, ~c.v.wild,
         DotComponent(c.rest) = {m}, DotComponent(m.rest) = {q},
         Marked(q.rest, "-") = {p}, Marked(p.rest, "+") = {b}
  PROVE  ReadPredicate(s) = Result(Found(OpHere(s), c, m, q, p), b.rest)
<1> DEFINE One == {[v |-> Found(OpHere(s), c, m, q, p), rest |-> b.rest]}
<1>1. {[v |-> Found(OpHere(s), c, m, q, p), rest |-> d.rest] : d \in Marked(p.rest, "+")} = One
  OBVIOUS
<1>2. UNION {{[v |-> Found(OpHere(s), c, m, q, y), rest |-> d.rest] : d \in Marked(y.rest, "+")} :
               y \in Marked(q.rest, "-")} = One
  BY <1>1
<1>3. UNION {UNION {
        {[v |-> Found(OpHere(s), c, m, x, y), rest |-> d.rest] : d \in Marked(y.rest, "+")} :
               y \in Marked(x.rest, "-")} : x \in DotComponent(m.rest)} = One
  BY <1>2
<1>4. FoundAfter(OpHere(s), c) = One
  BY <1>3 DEF FoundAfter
<1>5. ReadPredicate(s) = UNION {One}
  BY <1>4, PredicatesAre
<1> QED
  BY <1>5 DEF Result

(* A predicate with an operator that is printed is read again.               *)
LEMMA OperatorsRead ==
  ASSUME NEW p \in Parsed, p.op \in Ops
  PROVE  /\ WritePredicate(p) \in Seq(Token)
         /\ ~Is(WritePredicate(p), {" "})
         /\ ReadPredicate(WritePredicate(p)) = Result(p, <<>>)
<1> DEFINE e == Suffix("-", p.pre)
           d == Part(p.patch) \o e
           c == Part(p.minor) \o d
           number == <<IdentToken(Numeric(p.major))>>
           b == number \o c
           space == IF p.op \in {"~", "^"} THEN <<>> ELSE <<Symbol(" ")>>
           a == space \o b
           op == Symbol(p.op)
           s == <<op>> \o a
<1>1. /\ p.major \in Nat /\ p.minor \in ParsedPart /\ p.patch \in ParsedPart
      /\ p.pre \in Seq(Identifier)
      /\ p = [op |-> p.op, major |-> p.major, minor |-> p.minor, patch |-> p.patch, pre |-> p.pre]
      /\ p.minor = Missing => p.patch = Missing
  BY DEF Parsed, PredicateFields
<1>2. e \in Seq(Token) /\ Marked(e, "-") = Result(p.pre, <<>>) /\ ~Is(e, {"."})
  <2>1. ~Is(<<>>, {".", "-", "-"}) /\ <<>> \in Seq(Token) /\ ~Is(<<>>, {"."})
    BY EmptyText
  <2>2. /\ Suffix("-", p.pre) \in Seq(Token)
        /\ Is(Suffix("-", p.pre) \o <<>>, {"-"}) \/ Suffix("-", p.pre) \o <<>> = <<>>
        /\ Marked(Suffix("-", p.pre) \o <<>>, "-") = Result(p.pre, <<>>)
    BY <1>1, <2>1, MarkedRead
  <2>3. Suffix("-", p.pre) \o <<>> = Suffix("-", p.pre)
    BY <2>2, ConcatEmptySeq
  <2>4. ~Is(e, {"."})
    BY <2>1, <2>2, <2>3 DEF Is
  <2> QED
    BY <2>2, <2>3, <2>4
<1> HIDE DEF e
<1>3. /\ d \in Seq(Token) /\ Part(p.patch) \in Seq(Token)
      /\ DotComponent(d) = Result([n |-> p.patch, wild |-> FALSE], e)
      /\ p.patch = Missing => d = e
  BY <1>1, <1>2, PartRead
<1> HIDE DEF d
<1>4. p.minor = Missing => ~Is(d, {"."})
  BY <1>1, <1>2, <1>3
<1>5. /\ c \in Seq(Token) /\ Part(p.minor) \in Seq(Token)
      /\ DotComponent(c) = Result([n |-> p.minor, wild |-> FALSE], d)
  BY <1>1, <1>3, <1>4, PartRead
<1> HIDE DEF c
<1>6. /\ b \in Seq(Token) /\ b # <<>> /\ b[1].t = "id"
      /\ Component(b) = Result([n |-> p.major, wild |-> FALSE], c)
  BY <1>1, <1>5, NumbersRead
<1>7. number \in Seq(Token)
  <2>1. Numeric(p.major) \in Identifier
    BY <1>1 DEF Numeric, Identifier
  <2>2. IdentToken(Numeric(p.major)) \in Token
    BY <2>1, TokensOfIdents
  <2> QED
    BY <2>2
<1> HIDE DEF b, number
<1>8. op \in Token /\ op.t = p.op /\ Symbol(" ") \in Token /\ Symbol(" ").t = " "
  <2>1. p.op \in TokenKinds /\ " " \in TokenKinds
    BY DEF TokenKinds
  <2> QED
    BY <2>1, SymbolsAreTokens
<1>9. a \in Seq(Token) /\ space \in Seq(Token) /\ SkipWhitespace(a) = b
  <2>1. CASE p.op \in {"~", "^"}
    <3>1. space = <<>> /\ a = b
      BY <1>6, <2>1, ConcatEmptySeq
    <3>2. ~Is(b, {" "})
      BY <1>6 DEF Is, Peek
    <3>3. SkipWhitespace(b) = b
      BY <3>2 DEF SkipWhitespace
    <3>4. space \in Seq(Token)
      BY <3>1, EmptyText
    <3> HIDE DEF space, a
    <3> QED
      BY <1>6, <3>1, <3>3, <3>4
  <2>2. CASE p.op \notin {"~", "^"}
    <3> DEFINE blank == Symbol(" ")
    <3>1. space = <<blank>> /\ a = <<blank>> \o b
      BY <2>2
    <3>2. blank \in Token /\ blank.t = " "
      BY <1>8
    <3> HIDE DEF blank, space, a
    <3>3. a \in Seq(Token) /\ a # <<>> /\ a[1] = blank /\ Tail(a) = b
      <4>1. LET t == <<blank>> \o b
            IN  t \in Seq(Token) /\ t # <<>> /\ t[1] = blank /\ Tail(t) = b
        <5>1. b \in Seq(Token) /\ blank \in Token
          BY <1>6, <3>2
        <5> QED
          BY <5>1, Prefixed
      <4> QED
        BY <3>1, <4>1
    <3>4. Is(a, {" "})
      BY <3>2, <3>3 DEF Is, Peek
    <3>5. SkipWhitespace(a) = b
      BY <3>3, <3>4 DEF SkipWhitespace
    <3>6. space \in Seq(Token)
      <4>1. <<blank>> \in Seq(Token)
        <5>1. blank \in Token
          BY <3>2
        <5> QED
          BY <5>1
      <4>2. space = <<blank>>
        BY <3>1
      <4> QED
        BY <4>1, <4>2
    <3> QED
      BY <3>3, <3>5, <3>6
  <2> QED
    BY <2>1, <2>2
<1> HIDE DEF space, op
<1>10. WritePredicate(p) = s
  <2> DEFINE begin == <<op>>
  <2>1. begin \in Seq(Token)
    <3>1. op \in Token
      BY <1>8
    <3> QED
      BY <3>1
  <2>2. p.op # "x.*" /\ p.op # "x.y.*"
    BY DEF Ops
  <2>3. WritePredicate(p) = ((((begin \o space) \o number) \o Part(p.minor)) \o Part(p.patch)) \o e
    BY <2>2 DEF WritePredicate, op, space, number, e
  <2> DEFINE minor == Part(p.minor)
             patch == Part(p.patch)
  <2>4. minor \in Seq(Token) /\ patch \in Seq(Token)
    BY <1>3, <1>5
  <2>5. a = space \o (number \o (minor \o (patch \o e)))
    BY DEF b, c, d
  <2> HIDE DEF begin, minor, patch, a
  <2>6. AllOnLeft(begin, space, number, minor, patch, e)
          = AllOnRight(begin, space, number, minor, patch, e)
    <3>1. e \in Seq(Token) /\ number \in Seq(Token) /\ space \in Seq(Token)
      BY <1>2, <1>7, <1>9
    <3> QED
      BY <2>1, <2>4, <3>1, Nested
  <2>7. WritePredicate(p) = begin \o a
    BY <2>3, <2>5, <2>6 DEF minor, patch, AllOnLeft, AllOnRight
  <2> QED
    BY <2>7 DEF begin
<1> HIDE DEF a
<1>11. s \in Seq(Token) /\ s # <<>> /\ s[1] = op /\ Tail(s) = a
  BY <1>8, <1>9, Prefixed
<1> HIDE DEF s
<1>12. Is(s, Ops) /\ OpHere(s) = p.op /\ PastOp(s) = b /\ ~Is(s, {" "})
  <2>1. Is(s, Ops) /\ s[1].t = p.op
    BY <1>8, <1>11 DEF Is, Peek
  <2>2. p.op # " "
    BY DEF Ops
  <2> QED
    BY <1>9, <1>11, <2>1, <2>2 DEF OpHere, PastOp, Is, Peek
<1> DEFINE cc == [v |-> [n |-> p.major, wild |-> FALSE], rest |-> c]
           mm == [v |-> [n |-> p.minor, wild |-> FALSE], rest |-> d]
           qq == [v |-> [n |-> p.patch, wild |-> FALSE], rest |-> e]
           pp == [v |-> p.pre, rest |-> <<>>]
           bb == [v |-> <<>>, rest |-> <<>>]
<1>13. /\ Component(PastOp(s)) = {cc} /\ ~cc.v.wild
       /\ DotComponent(cc.rest) = {mm} /\ DotComponent(mm.rest) = {qq}
       /\ Marked(qq.rest, "-") = {pp} /\ Marked(pp.rest, "+") = {bb}
  <2>1. Marked(<<>>, "+") = Result(<<>>, <<>>)
    BY EmptyText
  <2> QED
    BY <1>2, <1>3, <1>5, <1>6, <1>12, <2>1 DEF Result
<1>14. Found(OpHere(s), cc, mm, qq, pp) = p
  BY <1>1, <1>12 DEF Found, OpOf
<1>15. bb.rest = <<>>
  OBVIOUS
<1> HIDE DEF cc, mm, qq, pp, bb
<1>16. ReadPredicate(s) = Result(p, <<>>)
  BY <1>11, <1>13, <1>14, <1>15, FoundOne
<1> QED
  BY <1>10, <1>11, <1>12, <1>16

(* One with a wildcard is read again up to what the wildcard leaves out.     *)
LEMMA WildcardsRead ==
  ASSUME NEW p \in Parsed, p.op \notin Ops
  PROVE  /\ WritePredicate(p) \in Seq(Token)
         /\ ~Is(WritePredicate(p), {" "})
         /\ ReadPredicate(WritePredicate(p)) = Result(Printed(p), <<>>)
<1> DEFINE star == Star
           second == IF p.minor = Missing THEN Star ELSE Part(p.minor)
           number == <<IdentToken(Numeric(p.major))>>
           after == IF p.op = "x.*" THEN star ELSE second \o star
           s == number \o after
<1>1. /\ p.major \in Nat /\ p.minor \in ParsedPart /\ p.patch \in ParsedPart
      /\ p.op = "x.*" \/ p.op = "x.y.*"
      /\ p.op = "x.*" => p.minor = Missing
      /\ p = [op |-> p.op, major |-> p.major, minor |-> p.minor, patch |-> p.patch, pre |-> p.pre]
  BY DEF Parsed, PredicateFields
<1>2. Printed(p) = [op |-> p.op, major |-> p.major, minor |-> p.minor, patch |-> Missing, pre |-> <<>>]
  BY <1>1 DEF Printed
<1>3. <<>> \in Seq(Token) /\ ~Is(<<>>, {"."})
      /\ Marked(<<>>, "-") = Result(<<>>, <<>>) /\ Marked(<<>>, "+") = Result(<<>>, <<>>)
  BY EmptyText
<1>4. star \in Seq(Token) /\ DotComponent(star) = Result([n |-> Missing, wild |-> TRUE], <<>>)
  <2>1. Star \in Seq(Token) /\ DotComponent(Star \o <<>>) = Result([n |-> Missing, wild |-> TRUE], <<>>)
    BY <1>3, StarRead
  <2>2. Star \o <<>> = Star
    BY <2>1, ConcatEmptySeq
  <2> QED
    BY <2>1, <2>2
<1>5. DotComponent(<<>>) = Result([n |-> Missing, wild |-> FALSE], <<>>)
  BY <1>3 DEF DotComponent
<1>6. /\ second \in Seq(Token) /\ second \o star \in Seq(Token)
      /\ DotComponent(second \o star)
           = Result([n |-> p.minor, wild |-> p.minor = Missing], star)
  <2>1. CASE p.minor = Missing
    BY <1>4, <2>1, StarRead
  <2>2. CASE p.minor # Missing
    BY <1>1, <1>4, <2>2, PartRead
  <2> QED
    BY <2>1, <2>2
<1> HIDE DEF star, second
<1>7. after \in Seq(Token)
  BY <1>4, <1>6
<1> HIDE DEF after
<1>8. /\ s \in Seq(Token) /\ s # <<>> /\ s[1].t = "id"
      /\ Component(s) = Result([n |-> p.major, wild |-> FALSE], after)
  BY <1>1, <1>7, NumbersRead
<1>9. number \in Seq(Token)
  <2>1. Numeric(p.major) \in Identifier
    BY <1>1 DEF Numeric, Identifier
  <2>2. IdentToken(Numeric(p.major)) \in Token
    BY <2>1, TokensOfIdents
  <2> QED
    BY <2>2
<1>10. WritePredicate(p) = s
  <2>1. CASE p.op = "x.*"
    <3>1. WritePredicate(p) = number \o star
      BY <2>1 DEF WritePredicate, star
    <3> QED
      BY <2>1, <3>1 DEF after
  <2>2. CASE p.op = "x.y.*"
    <3>1. WritePredicate(p) = (number \o second) \o star
      BY <2>2 DEF WritePredicate, star, second
    <3> HIDE DEF number
    <3>2. (number \o second) \o star = number \o (second \o star)
      BY <1>4, <1>6, <1>9, ConcatAssociative
    <3> QED
      BY <2>2, <3>1, <3>2 DEF after
  <2> QED
    BY <1>1, <2>1, <2>2
<1> HIDE DEF s, number
<1>11. ~Is(s, Ops) /\ ~Is(s, {" "})
  BY <1>8 DEF Is, Peek, Ops
<1>12. OpHere(s) = "^" /\ PastOp(s) = s
  BY <1>11 DEF OpHere, PastOp
<1> DEFINE cc == [v |-> [n |-> p.major, wild |-> FALSE], rest |-> after]
           pp == [v |-> <<>>, rest |-> <<>>]
<1>13. CASE p.op = "x.*"
  <2> DEFINE mm == [v |-> [n |-> Missing, wild |-> TRUE], rest |-> <<>>]
             qq == [v |-> [n |-> Missing, wild |-> FALSE], rest |-> <<>>]
  <2>1. after = star
    BY <1>13 DEF after
  <2>2. /\ Component(PastOp(s)) = {cc} /\ ~cc.v.wild
        /\ DotComponent(cc.rest) = {mm} /\ DotComponent(mm.rest) = {qq}
        /\ Marked(qq.rest, "-") = {pp} /\ Marked(pp.rest, "+") = {pp}
    BY <1>3, <1>4, <1>5, <1>8, <1>12, <2>1 DEF Result
  <2>3. Found(OpHere(s), cc, mm, qq, pp) = Printed(p)
    BY <1>1, <1>2, <1>13 DEF Found, OpOf
  <2>4. pp.rest = <<>>
    OBVIOUS
  <2> HIDE DEF cc, mm, qq, pp
  <2>5. ReadPredicate(s) = Result(Printed(p), <<>>)
    BY <1>8, <2>2, <2>3, <2>4, FoundOne
  <2> QED
    BY <1>8, <1>10, <1>11, <2>5
<1>14. CASE p.op = "x.y.*"
  <2> DEFINE mm == [v |-> [n |-> p.minor, wild |-> p.minor = Missing], rest |-> star]
             qq == [v |-> [n |-> Missing, wild |-> TRUE], rest |-> <<>>]
  <2>1. after = second \o star
    BY <1>14 DEF after
  <2>2. /\ Component(PastOp(s)) = {cc} /\ ~cc.v.wild
        /\ DotComponent(cc.rest) = {mm} /\ DotComponent(mm.rest) = {qq}
        /\ Marked(qq.rest, "-") = {pp} /\ Marked(pp.rest, "+") = {pp}
    BY <1>3, <1>4, <1>6, <1>8, <1>12, <2>1 DEF Result
  <2>3. Found(OpHere(s), cc, mm, qq, pp) = Printed(p)
    BY <1>1, <1>2, <1>14 DEF Found, OpOf
  <2>4. pp.rest = <<>>
    OBVIOUS
  <2> HIDE DEF cc, mm, qq, pp
  <2>5. ReadPredicate(s) = Result(Printed(p), <<>>)
    BY <1>8, <2>2, <2>3, <2>4, FoundOne
  <2> QED
    BY <1>8, <1>10, <1>11, <2>5
<1> QED
  BY <1>1, <1>13, <1>14
(* Sets of numbers have a least one: where two pre-releases part, say.       *)
LEMMA LeastNumber ==
  ASSUME NEW T \in SUBSET Nat, T # {}
  PROVE  \E m \in T : \A n \in T : m <= n
<1>1. PICK m \in T : \A n \in T : ~(<<n, m>> \in OpToRel(<, Nat))
  BY NatLessThanWellFounded, WFMin
<1>2. \A n \in T : ~(n < m)
  BY <1>1 DEF OpToRel
<1> QED
  BY <1>2

(* Identifiers are ordered, and so, by the first in which they differ, are   *)
(* pre-releases.                                                             *)
LEMMA IdentifiersOrdered ==
  ASSUME NEW a \in Identifier, NEW b \in Identifier
  PROVE  /\ ~(IdentLess(a, b) /\ IdentLess(b, a))
         /\ a = b => ~IdentLess(a, b)
         /\ a # b => IdentLess(a, b) \/ IdentLess(b, a)
BY DEF Identifier, IdentLess

LEMMA PresDiffer ==
  ASSUME NEW p \in Seq(Identifier), NEW q \in Seq(Identifier)
  PROVE  ~(PreLess(p, q) /\ PreLess(q, p))
<1> DEFINE Tells(a, b, k) ==
             /\ k <= Len(b) /\ \A i \in 1..k : a[i] = b[i]
             /\ \/ k = Len(a) /\ k < Len(b)
                \/ k < Len(a) /\ k < Len(b) /\ IdentLess(a[k + 1], b[k + 1])
<1> SUFFICES ASSUME PreLess(p, q), PreLess(q, p)
             PROVE  FALSE
  OBVIOUS
<1>1. Len(p) \in Nat /\ Len(q) \in Nat
  BY LenProperties
<1>2. PICK k \in 0..Len(p) : Tells(p, q, k)
  BY DEF PreLess
<1>3. PICK j \in 0..Len(q) : Tells(q, p, j)
  BY DEF PreLess
<1>4. k = j
  <2>1. ~(j < k)
    <3> SUFFICES ASSUME j < k
                 PROVE  FALSE
      OBVIOUS
    <3>1. j + 1 \in 1..k /\ j + 1 \in 1..Len(p) /\ j + 1 \in 1..Len(q)
      BY <1>1, <1>2, <1>3
    <3>2. p[j + 1] = q[j + 1]
      BY <1>2, <3>1
    <3>3. IdentLess(q[j + 1], p[j + 1])
      BY <1>1, <1>2, <1>3
    <3>4. q[j + 1] \in Identifier
      BY <3>1, ElementOfSeq
    <3> QED
      BY <3>2, <3>3, <3>4, IdentifiersOrdered
  <2>2. ~(k < j)
    <3> SUFFICES ASSUME k < j
                 PROVE  FALSE
      OBVIOUS
    <3>1. k + 1 \in 1..j /\ k + 1 \in 1..Len(p) /\ k + 1 \in 1..Len(q)
      BY <1>1, <1>2, <1>3
    <3>2. p[k + 1] = q[k + 1]
      BY <1>3, <3>1
    <3>3. IdentLess(p[k + 1], q[k + 1])
      BY <1>1, <1>2, <1>3
    <3>4. q[k + 1] \in Identifier
      BY <3>1, ElementOfSeq
    <3> QED
      BY <3>2, <3>3, <3>4, IdentifiersOrdered
  <2> QED
    BY <1>1, <2>1, <2>2
<1>5. k < Len(p) /\ k < Len(q) /\ IdentLess(p[k + 1], q[k + 1]) /\ IdentLess(q[k + 1], p[k + 1])
  BY <1>1, <1>2, <1>3, <1>4
<1>6. k + 1 \in 1..Len(p) /\ k + 1 \in 1..Len(q)
  BY <1>1, <1>5
<1>7. p[k + 1] \in Identifier /\ q[k + 1] \in Identifier
  BY <1>6, ElementOfSeq
<1> QED
  BY <1>5, <1>7, IdentifiersOrdered

LEMMA PresCompare ==
  ASSUME NEW p \in Seq(Identifier), NEW q \in Seq(Identifier), p # q
  PROVE  PreLess(p, q) \/ PreLess(q, p)
<1>1. Len(p) \in Nat /\ Len(q) \in Nat
  BY LenProperties
<1> DEFINE T == {i \in Nat : i \in 1..Len(p) /\ i \in 1..Len(q) /\ p[i] # q[i]}
<1>2. CASE T = {}
  <2>1. \A i \in 1..Len(p) : i \in 1..Len(q) => p[i] = q[i]
    BY <1>1, <1>2
  <2>2. Len(p) # Len(q)
    BY <2>1, SeqEqual
  <2>3. CASE Len(p) < Len(q)
    BY <1>1, <2>1, <2>3 DEF PreLess
  <2>4. CASE Len(q) < Len(p)
    <3>1. Len(q) \in 0..Len(q) /\ Len(q) <= Len(p) /\ \A i \in 1..Len(q) : q[i] = p[i]
      BY <1>1, <2>1, <2>4
    <3>2. PreLess(q, p)
      BY <3>1, <2>4 DEF PreLess
    <3> QED
      BY <3>2
  <2> QED
    BY <1>1, <2>2, <2>3, <2>4
<1>3. CASE T # {}
  <2>1. PICK m \in T : \A n \in T : m <= n
    BY <1>3, LeastNumber
  <2> DEFINE k == m - 1
  <2>2. k \in 0..Len(p) /\ k \in 0..Len(q) /\ k < Len(p) /\ k < Len(q) /\ k + 1 = m
    BY <1>1
  <2>3. \A i \in 1..k : p[i] = q[i]
    BY <1>1, <2>1
  <2>4. p[m] \in Identifier /\ q[m] \in Identifier /\ p[m] # q[m]
    BY <1>1, ElementOfSeq
  <2>5. IdentLess(p[m], q[m]) \/ IdentLess(q[m], p[m])
    BY <2>4, IdentifiersOrdered
  <2> HIDE DEF k, T
  <2>6. CASE IdentLess(p[m], q[m])
    BY <1>1, <2>2, <2>3, <2>6 DEF PreLess
  <2>7. CASE IdentLess(q[m], p[m])
    BY <1>1, <2>2, <2>3, <2>7 DEF PreLess
  <2> QED
    BY <2>5, <2>6, <2>7
<1> QED
  BY <1>2, <1>3

(* The intervals that the code has for predicates: those of the documentation *)
(* without the pre-releases of their bounds.                                 *)
Before(v, p) == IF p.pre = <<>> THEN CoreLess(v, Lowest(p)) ELSE Below(v, p)
Rounded(p, v) ==
    CASE p.op = "^"     -> ~Before(v, p) /\ CoreLess(v, PastCaret(p))
      [] p.op = "~"     -> ~Before(v, p) /\ CoreLess(v, PastTilde(p))
      [] p.op = "x.*"   -> v.major = p.major
      [] p.op = "x.y.*" -> v.major = p.major /\ (p.minor # Missing => v.minor = p.minor)
      [] p.op \in {"=", "<", "<=", ">=", ">"} -> Intended(p, v)

(* The cases of Predicate::matches select the interval of the predicate.     *)
LEMMA CasesMatch ==
  ASSUME NEW p \in Parsed, NEW v \in SemVersion
  PROVE  PredicateMatches(p, v) <=> Rounded(p, v)
<1>1. /\ p.major \in Nat /\ p.minor \in Nat \cup {Missing} /\ p.patch \in Nat \cup {Missing}
      /\ p.pre \in Seq(Identifier)
      /\ v.major \in Nat /\ v.minor \in Nat /\ v.patch \in Nat /\ v.pre \in Seq(Identifier)
      /\ p.op \in Ops \cup {"x.*", "x.y.*"}
      /\ p.op \in Ops /\ p.minor = Missing => p.patch = Missing
      /\ p.op = "x.*" => p.minor = Missing
  BY DEF Parsed, PredicateFields, ParsedPart, SemVersion
<1> DEFINE Lt == PreLess(v.pre, p.pre)
           Gt == PreLess(p.pre, v.pre)
           Eq == v.pre = p.pre
           Bare == v.pre = <<>>
           Without == p.pre = <<>>
<1>2. /\ Eq => ~Lt /\ ~Gt
      /\ ~(Lt /\ Gt)
      /\ ~Eq => Lt \/ Gt
  BY <1>1, PresDiffer, PresCompare
<1>3. Missing \notin Nat /\ Missing # 0
  BY DEF Missing
<1>4. Lowest(p).major = p.major /\ Lowest(p).minor = OrZero(p.minor) /\ Lowest(p).patch = OrZero(p.patch)
      /\ Lowest(p).pre = IF p.patch = Missing THEN <<>> ELSE p.pre
  BY DEF Lowest, V
<1>5. p.op \in Ops => (Like(v, p) <=> IsExact(p, v))
  BY <1>1, <1>3, <1>4 DEF Like, IsExact, Equal, SameCore, OrZero
<1>6. p.op \in Ops =>
        (Below(v, p) <=>
           \/ v.major < p.major
           \/ v.major = p.major /\ p.minor # Missing /\ v.minor < p.minor
           \/ /\ v.major = p.major /\ p.minor # Missing /\ v.minor = p.minor
              /\ p.patch # Missing /\ v.patch < p.patch
           \/ /\ v.major = p.major /\ p.minor # Missing /\ v.minor = p.minor
              /\ p.patch # Missing /\ v.patch = p.patch /\ ~Bare /\ (~Without => Lt))
  <2> HIDE DEF Missing
  <2>1. CASE p.minor = Missing
    <3>1. p.op \in Ops => p.patch = Missing
      BY <1>1, <2>1
    <3>2. Lowest(p).minor = 0
      BY <1>4, <2>1 DEF OrZero
    <3>3. p.op \in Ops => Lowest(p).patch = 0
      BY <1>4, <3>1 DEF OrZero
    <3>4. p.op \in Ops => (Below(v, p) <=> v.major < p.major)
      BY <1>1, <1>4, <3>1, <3>2, <3>3 DEF Below, CoreLess
    <3> QED
      BY <3>4, <2>1
  <2>2. CASE p.minor # Missing /\ p.patch = Missing
    <3>1. Lowest(p).minor = p.minor /\ Lowest(p).patch = 0
      BY <1>4, <2>2 DEF OrZero
    <3> QED
      BY <1>1, <1>4, <2>2, <3>1 DEF Below, CoreLess
  <2>3. CASE p.minor # Missing /\ p.patch # Missing
    <3>1. Lowest(p).minor = p.minor /\ Lowest(p).patch = p.patch /\ Lowest(p).pre = p.pre
      BY <1>4, <2>3 DEF OrZero
    <3> QED
      BY <1>1, <1>4, <2>3, <3>1 DEF Below, Less, CoreLess, SameCore, IsPrerelease
  <2> QED
    BY <2>1, <2>2, <2>3
<1>7. IsGreater(p, v) <=>
        \/ v.major > p.major
        \/ v.major = p.major /\ p.minor # Missing /\ v.minor > p.minor
        \/ /\ v.major = p.major /\ p.minor # Missing /\ v.minor = p.minor
           /\ p.patch # Missing /\ v.patch > p.patch
        \/ /\ v.major = p.major /\ p.minor # Missing /\ v.minor = p.minor
           /\ p.patch # Missing /\ v.patch = p.patch /\ ~Without /\ (Bare \/ Gt)
  BY DEF IsGreater, IsPrerelease
<1>8. IsExact(p, v) <=>
        /\ p.major = v.major
        /\ p.minor # Missing => p.minor = v.minor
        /\ p.minor # Missing /\ p.patch # Missing => p.patch = v.patch /\ Eq
  BY DEF IsExact
<1>9. /\ Eq /\ Bare => Without
      /\ Bare /\ Without => Eq
      /\ ~Bare /\ Without => ~Eq
  OBVIOUS
<1>15. Without => ~Lt
  <2> SUFFICES ASSUME Without, Lt
               PROVE  FALSE
    OBVIOUS
  <2>1. Len(p.pre) = 0 /\ Len(v.pre) \in Nat
    BY <1>1, LenProperties, EmptySeq
  <2> QED
    BY <2>1 DEF PreLess
<1> HIDE DEF Lt, Gt, Eq, Bare, Without
<1>10. p.op \in Ops =>
         /\ ~(Below(v, p) /\ IsExact(p, v))
         /\ ~(Below(v, p) /\ IsGreater(p, v))
         /\ Below(v, p) \/ IsExact(p, v) \/ IsGreater(p, v)
  <2>1. CASE p.minor = Missing
    BY <1>1, <1>6, <1>7, <1>8, <2>1
  <2>2. CASE p.minor \in Nat /\ p.patch = Missing
    BY <1>1, <1>3, <1>6, <1>7, <1>8, <2>2
  <2>3. CASE p.minor \in Nat /\ p.patch \in Nat
    BY <1>1, <1>2, <1>3, <1>6, <1>7, <1>8, <1>9, <2>3
  <2> QED
    BY <1>1, <2>1, <2>2, <2>3
<1>11. p.op \in Ops => ~(IsExact(p, v) /\ IsGreater(p, v))
  <2>1. CASE p.minor = Missing
    BY <1>1, <1>7, <1>8, <2>1
  <2>2. CASE p.minor \in Nat /\ p.patch = Missing
    BY <1>1, <1>3, <1>7, <1>8, <2>2
  <2>3. CASE p.minor \in Nat /\ p.patch \in Nat
    BY <1>1, <1>2, <1>3, <1>7, <1>8, <1>9, <2>3
  <2> QED
    BY <1>1, <2>1, <2>2, <2>3
<1>12. ASSUME p.op \in {"=", ">", ">=", "<", "<="}
       PROVE  PredicateMatches(p, v) <=> Rounded(p, v)
  <2>0. p.op \in Ops
    BY <1>12 DEF Ops
  <2>1. CASE p.op = "="
    BY <2>0, <2>1, <1>5 DEF PredicateMatches, Rounded, Intended, Intervals
  <2>2. CASE p.op = ">"
    BY <2>0, <2>2, <1>5, <1>10, <1>11 DEF PredicateMatches, Rounded, Intended, Intervals
  <2>3. CASE p.op = ">="
    BY <2>0, <2>3, <1>5, <1>10, <1>11 DEF PredicateMatches, Rounded, Intended, Intervals
  <2>4. CASE p.op = "<"
    BY <2>0, <2>4, <1>5, <1>10, <1>11 DEF PredicateMatches, Rounded, Intended, Intervals
  <2>5. CASE p.op = "<="
    BY <2>0, <2>5, <1>5, <1>10, <1>11 DEF PredicateMatches, Rounded, Intended, Intervals
  <2> QED
    BY <1>12, <2>1, <2>2, <2>3, <2>4, <2>5
<1>13. ASSUME p.op \in {"~", "^"}
       PROVE  PredicateMatches(p, v) <=> Rounded(p, v)
  <2>0. p.op \in Ops
    BY <1>13 DEF Ops
  <2>1. PreIsCompatible(p, v) <=> Bare \/ Eq \/ Gt
    BY DEF PreIsCompatible, IsPrerelease, Eq, Gt, Bare
  <2>2. PatchUp(p, v) <=> v.patch > p.patch \/ (v.patch = p.patch /\ (Bare \/ Eq \/ Gt))
    BY <2>1 DEF PatchUp
  <2>3. /\ NextMajor(p).major = p.major + 1 /\ NextMajor(p).minor = 0 /\ NextMajor(p).patch = 0
        /\ NextMinor(p).major = p.major /\ NextMinor(p).minor = p.minor + 1 /\ NextMinor(p).patch = 0
        /\ NextPatch(p).major = p.major /\ NextPatch(p).minor = p.minor
        /\ NextPatch(p).patch = p.patch + 1
    BY DEF NextMajor, NextMinor, NextPatch, V
  <2>4. CoreLess(v, NextMajor(p)) <=> v.major <= p.major
    BY <1>1, <2>3 DEF CoreLess
  <2>5. p.minor \in Nat =>
          (CoreLess(v, NextMinor(p)) <=>
             v.major < p.major \/ (v.major = p.major /\ v.minor <= p.minor))
    BY <1>1, <2>3 DEF CoreLess
  <2>6. p.minor \in Nat /\ p.patch \in Nat =>
          (CoreLess(v, NextPatch(p)) <=>
             \/ v.major < p.major
             \/ v.major = p.major /\ v.minor < p.minor
             \/ v.major = p.major /\ v.minor = p.minor /\ v.patch <= p.patch)
    BY <1>1, <2>3 DEF CoreLess
  <2>9. Before(v, p) <=>
          \/ v.major < p.major
          \/ v.major = p.major /\ p.minor # Missing /\ v.minor < p.minor
          \/ /\ v.major = p.major /\ p.minor # Missing /\ v.minor = p.minor
             /\ p.patch # Missing /\ v.patch < p.patch
          \/ /\ v.major = p.major /\ p.minor # Missing /\ v.minor = p.minor
             /\ p.patch # Missing /\ v.patch = p.patch /\ ~Bare /\ ~Without /\ Lt
    <3>1. CASE ~Without
      BY <1>6, <2>0, <3>1 DEF Before, Without
    <3>2. CASE Without /\ p.minor = Missing
      <4>1. p.patch = Missing
        BY <1>1, <2>0, <3>2
      <4>2. Lowest(p).minor = 0 /\ Lowest(p).patch = 0
        BY <1>4, <3>2, <4>1 DEF OrZero
      <4>3. Before(v, p) <=> v.major < p.major
        BY <1>1, <1>4, <3>2, <4>2 DEF Before, Without, CoreLess
      <4> QED
        BY <3>2, <4>3
    <3>3. CASE Without /\ p.minor \in Nat /\ p.patch = Missing
      <4>1. Lowest(p).minor = p.minor /\ Lowest(p).patch = 0
        BY <1>3, <1>4, <3>3 DEF OrZero
      <4>2. Before(v, p) <=> CoreLess(v, Lowest(p))
        BY <3>3 DEF Before, Without
      <4> QED
        BY <1>1, <1>3, <1>4, <3>3, <4>1, <4>2 DEF CoreLess
    <3>4. CASE Without /\ p.minor \in Nat /\ p.patch \in Nat
      <4>1. Lowest(p).minor = p.minor /\ Lowest(p).patch = p.patch
        BY <1>3, <1>4, <3>4 DEF OrZero
      <4>2. Before(v, p) <=> CoreLess(v, Lowest(p))
        BY <3>4 DEF Before, Without
      <4> QED
        BY <1>1, <1>3, <1>4, <3>4, <4>1, <4>2 DEF CoreLess
    <3> QED
      BY <1>1, <3>1, <3>2, <3>3, <3>4
  <2>7. CASE p.op = "~"
    <3>1. MatchesTilde(p, v) <=> ~Before(v, p) /\ CoreLess(v, PastTilde(p))
      <4>1. CASE p.minor = Missing
        BY <1>1, <2>9, <2>0, <2>4, <4>1 DEF MatchesTilde, PastTilde
      <4>2. CASE p.minor \in Nat /\ p.patch = Missing
        BY <1>1, <1>3, <2>9, <2>0, <2>5, <4>2 DEF MatchesTilde, PastTilde
      <4>3. CASE p.minor \in Nat /\ p.patch \in Nat
        <5>1. CoreLess(v, PastTilde(p)) <=>
                v.major < p.major \/ (v.major = p.major /\ v.minor <= p.minor)
          BY <1>3, <2>5, <4>3 DEF PastTilde
        <5>2. MatchesTilde(p, v) <=>
                /\ v.major = p.major /\ v.minor = p.minor
                /\ v.patch > p.patch \/ (v.patch = p.patch /\ (Bare \/ Eq \/ Gt))
          BY <1>3, <2>2, <4>3 DEF MatchesTilde
        <5> QED
          <6>1. CASE ~SameCore(v, p)
            BY <1>1, <1>3, <2>9, <2>0, <5>2, <5>1, <4>3, <6>1 DEF SameCore
          <6>2. CASE SameCore(v, p)
            <7>1. Before(v, p) <=> ~Bare /\ ~Without /\ Lt
              BY <1>1, <1>3, <2>9, <2>0, <5>2, <5>1, <4>3, <6>2 DEF SameCore
            <7>2. (MatchesTilde(p, v) <=> Bare \/ Eq \/ Gt) /\ CoreLess(v, PastTilde(p))
              BY <1>1, <1>3, <2>9, <2>0, <5>2, <5>1, <4>3, <6>2 DEF SameCore
            <7> QED
              BY <7>1, <7>2, <1>2, <1>9, <1>15, Zenon
          <6> QED
            BY <6>1, <6>2
      <4> QED
        BY <1>1, <4>1, <4>2, <4>3
    <3> QED
      BY <3>1, <2>7 DEF PredicateMatches, Rounded
  <2>8. CASE p.op = "^"
    <3>1. IsCompatible(p, v) <=> ~Before(v, p) /\ CoreLess(v, PastCaret(p))
      <4>1. CASE p.minor = Missing
        BY <1>1, <2>9, <2>0, <2>4, <4>1 DEF IsCompatible, PastCaret
      <4>2. CASE p.minor \in Nat /\ p.patch = Missing
        BY <1>1, <1>3, <2>9, <2>0, <2>4, <2>5, <4>2 DEF IsCompatible, PastCaret
      <4>3. CASE p.minor \in Nat /\ p.patch \in Nat
        <5>1. IsCompatible(p, v) <=>
                /\ v.major = p.major
                /\ \/ p.major > 0 /\ v.minor > p.minor
                   \/ /\ v.minor = p.minor
                      /\ IF p.major = 0 /\ p.minor = 0
                         THEN v.patch = p.patch /\ (Bare \/ Eq \/ Gt)
                         ELSE v.patch > p.patch \/ (v.patch = p.patch /\ (Bare \/ Eq \/ Gt))
          BY <1>3, <2>1, <2>2, <4>3 DEF IsCompatible
        <5>2. CASE p.major > 0
          <6>1. CoreLess(v, PastCaret(p)) <=> v.major <= p.major
            BY <1>1, <2>4, <5>2 DEF PastCaret
          <6> QED
            <7>1. CASE ~SameCore(v, p)
              BY <1>1, <1>3, <2>9, <2>0, <4>3, <5>1, <5>2, <6>1, <7>1 DEF SameCore
            <7>2. CASE SameCore(v, p)
              <8>1. Before(v, p) <=> ~Bare /\ ~Without /\ Lt
                BY <1>1, <1>3, <2>9, <2>0, <4>3, <5>1, <5>2, <6>1, <7>2 DEF SameCore
              <8>2. (IsCompatible(p, v) <=> Bare \/ Eq \/ Gt) /\ CoreLess(v, PastCaret(p))
                BY <1>1, <1>3, <2>9, <2>0, <4>3, <5>1, <5>2, <6>1, <7>2 DEF SameCore
              <8> QED
                BY <8>1, <8>2, <1>2, <1>9, <1>15, Zenon
            <7> QED
              BY <7>1, <7>2
        <5>3. CASE p.major = 0 /\ p.minor > 0
          <6>1. CoreLess(v, PastCaret(p)) <=>
                  v.major < p.major \/ (v.major = p.major /\ v.minor <= p.minor)
            BY <1>1, <1>3, <2>5, <4>3, <5>3 DEF PastCaret
          <6> QED
            <7>1. CASE ~SameCore(v, p)
              BY <1>1, <1>3, <2>9, <2>0, <4>3, <5>1, <5>3, <6>1, <7>1 DEF SameCore
            <7>2. CASE SameCore(v, p)
              <8>1. Before(v, p) <=> ~Bare /\ ~Without /\ Lt
                BY <1>1, <1>3, <2>9, <2>0, <4>3, <5>1, <5>3, <6>1, <7>2 DEF SameCore
              <8>2. (IsCompatible(p, v) <=> Bare \/ Eq \/ Gt) /\ CoreLess(v, PastCaret(p))
                BY <1>1, <1>3, <2>9, <2>0, <4>3, <5>1, <5>3, <6>1, <7>2 DEF SameCore
              <8> QED
                BY <8>1, <8>2, <1>2, <1>9, <1>15, Zenon
            <7> QED
              BY <7>1, <7>2
        <5>4. CASE p.major = 0 /\ p.minor = 0
          <6>1. CoreLess(v, PastCaret(p)) <=> CoreLess(v, NextPatch(p))
            BY <1>1, <1>3, <4>3, <5>4 DEF PastCaret
          <6> QED
            <7>1. CASE ~SameCore(v, p)
              BY <1>1, <1>3, <2>9, <2>0, <4>3, <5>1, <5>4, <2>6, <6>1, <7>1 DEF SameCore
            <7>2. CASE SameCore(v, p)
              <8>1. Before(v, p) <=> ~Bare /\ ~Without /\ Lt
                BY <1>1, <1>3, <2>9, <2>0, <4>3, <5>1, <5>4, <2>6, <6>1, <7>2 DEF SameCore
              <8>2. (IsCompatible(p, v) <=> Bare \/ Eq \/ Gt) /\ CoreLess(v, PastCaret(p))
                BY <1>1, <1>3, <2>9, <2>0, <4>3, <5>1, <5>4, <2>6, <6>1, <7>2 DEF SameCore
              <8> QED
                BY <8>1, <8>2, <1>2, <1>9, <1>15, Zenon
            <7> QED
              BY <7>1, <7>2
        <5> QED
          BY <1>1, <4>3, <5>2, <5>3, <5>4
      <4> QED
        BY <1>1, <4>1, <4>2, <4>3
    <3> QED
      BY <3>1, <2>8 DEF PredicateMatches, Rounded
  <2> QED
    BY <1>13, <2>7, <2>8
<1>14. ASSUME p.op \in {"x.*", "x.y.*"}
       PROVE  PredicateMatches(p, v) <=> Rounded(p, v)
  <2>1. CASE p.op = "x.*"
    BY <2>1 DEF PredicateMatches, Rounded, MatchesWildcard
  <2>2. CASE p.op = "x.y.*"
    BY <2>2 DEF PredicateMatches, Rounded, MatchesWildcard
  <2> QED
    BY <1>14, <2>1, <2>2
<1> QED
  BY <1>1, <1>12, <1>13, <1>14 DEF Ops

(* A pre-release of a bound counts as the release, ...                       *)
LEMMA BoundsRounded ==
  ASSUME NEW v \in SemVersion, NEW low \in SemVersion, NEW high \in SemVersion, high.pre = <<>>,
         NEW r \in SemVersion, r = v \/ (SameCore(r, v) /\ r.pre = <<>>),
         v.pre # <<>> /\ (SameCore(v, high) \/ (SameCore(v, low) /\ low.pre = <<>>))
            <=> r # v
  PROVE  ~Less(r, low) /\ Less(r, high) <=>
            /\ IF low.pre = <<>> THEN ~CoreLess(v, low) ELSE ~Less(v, low)
            /\ CoreLess(v, high)
<1>1. /\ v.major \in Nat /\ v.minor \in Nat /\ v.patch \in Nat
      /\ r.major \in Nat /\ r.minor \in Nat /\ r.patch \in Nat
      /\ low.major \in Nat /\ low.minor \in Nat /\ low.patch \in Nat
      /\ high.major \in Nat /\ high.minor \in Nat /\ high.patch \in Nat
  BY DEF SemVersion
<1>2. /\ CoreLess(r, low) <=> CoreLess(v, low)
      /\ CoreLess(r, high) <=> CoreLess(v, high)
      /\ SameCore(r, low) <=> SameCore(v, low)
      /\ SameCore(r, high) <=> SameCore(v, high)
  BY <1>1 DEF CoreLess, SameCore
<1>3. ~(SameCore(v, high) /\ CoreLess(v, high))
  BY <1>1 DEF CoreLess, SameCore
<1>4. Less(r, high) <=> CoreLess(v, high) \/ (SameCore(v, high) /\ r.pre # <<>>)
  BY <1>2 DEF Less, IsPrerelease
<1>5. Less(r, low) <=>
        CoreLess(v, low) \/ (SameCore(v, low) /\ r.pre # <<>> /\ (low.pre # <<>> => PreLess(r.pre, low.pre)))
  BY <1>2 DEF Less, IsPrerelease
<1>6. Less(v, low) <=>
        CoreLess(v, low) \/ (SameCore(v, low) /\ v.pre # <<>> /\ (low.pre # <<>> => PreLess(v.pre, low.pre)))
  BY DEF Less, IsPrerelease
<1>7. CASE r = v
  BY <1>3, <1>4, <1>5, <1>6, <1>7
<1>8. CASE r # v
  BY <1>3, <1>4, <1>5, <1>6, <1>8
<1> QED
  BY <1>7, <1>8

(* ... which is all that the code's intervals differ in.                     *)
LEMMA IntendedMatches ==
  ASSUME NEW p \in Parsed, NEW v \in SemVersion
  PROVE  PredicateMatches(p, v) <=>
            Intended(p, IF OnBound(p, v) THEN AsRelease(v) ELSE v)
<1> DEFINE r == IF OnBound(p, v) THEN AsRelease(v) ELSE v
<1>1. /\ p.major \in Nat /\ p.minor \in Nat \cup {Missing} /\ p.patch \in Nat \cup {Missing}
      /\ p.pre \in Seq(Identifier)
      /\ v.major \in Nat /\ v.minor \in Nat /\ v.patch \in Nat /\ v.pre \in Seq(Identifier)
      /\ p.op \in Ops \cup {"x.*", "x.y.*"}
      /\ p.op \in Ops /\ p.minor = Missing => p.patch = Missing
      /\ p.op = "x.*" => p.minor = Missing
      /\ p.op = "x.y.*" => p.patch = Missing
  BY DEF Parsed, PredicateFields, ParsedPart, SemVersion
<1>2. PredicateMatches(p, v) <=> Rounded(p, v)
  BY CasesMatch
<1>3. <<>> \in Seq(Identifier) /\ Missing \notin Nat
  BY EmptySeq DEF Missing
<1>4. CASE p.op \notin Intervals
  <2>1. ~OnBound(p, v)
    BY <1>4 DEF OnBound
  <2>2. Rounded(p, v) <=> Intended(p, v)
    BY <1>1, <1>4 DEF Rounded, Intervals, Ops
  <2> QED
    BY <1>2, <2>1, <2>2
<1>5. CASE p.op \in Intervals
  <2>1. First(p) \in SemVersion
    BY <1>1, <1>3 DEF First, Lowest, V, OrZero, SemVersion
  <2>2. Past(p) \in SemVersion /\ Past(p).pre = <<>>
    BY <1>1, <1>3 DEF Past, PastCaret, PastTilde, NextMajor, NextMinor, NextPatch, V, SemVersion
  <2>3. AsRelease(v) \in SemVersion /\ SameCore(AsRelease(v), v) /\ AsRelease(v).pre = <<>>
    BY <1>3 DEF AsRelease, SemVersion, SameCore
  <2>4. OnBound(p, v) <=>
           v.pre # <<>> /\ (SameCore(v, Past(p)) \/ (SameCore(v, First(p)) /\ First(p).pre = <<>>))
    BY <1>5, <2>2 DEF OnBound, IsPrerelease
  <2>5. r \in SemVersion /\ (r = v \/ (SameCore(r, v) /\ r.pre = <<>>)) /\ (OnBound(p, v) <=> r # v)
    BY <2>3, <2>4
  <2>6. ~Less(r, First(p)) /\ Less(r, Past(p)) <=>
            /\ IF First(p).pre = <<>> THEN ~CoreLess(v, First(p)) ELSE ~Less(v, First(p))
            /\ CoreLess(v, Past(p))
    <3> HIDE DEF r
    <3> QED
      BY <2>1, <2>2, <2>4, <2>5, BoundsRounded
  <2>7. Intended(p, r) <=> ~Less(r, First(p)) /\ Less(r, Past(p))
    <3> DEFINE inside == ~Less(r, First(p)) /\ Less(r, Past(p))
    <3>1. Intended(p, r) = inside
      <4> HIDE DEF r
      <4>1. p.op \notin {"=", "<", "<=", ">=", ">"}
        BY <1>5 DEF Intervals
      <4> QED
        BY <1>5, <4>1 DEF Intended
    <3> QED
      BY <3>1
  <2>8. CASE p.op \in {"^", "~"}
    <3>1. First(p) = Lowest(p)
      BY <1>1, <2>8 DEF First, Lowest, V, OrZero, Ops
    <3>2. Before(v, p) <=>
             IF First(p).pre = <<>> THEN CoreLess(v, First(p)) ELSE Less(v, First(p))
      <4>1. Lowest(p).pre = IF p.patch = Missing THEN <<>> ELSE p.pre
        BY DEF Lowest, V
      <4> QED
        BY <3>1, <4>1 DEF Before, Below
    <3>3. Rounded(p, v) <=> ~Before(v, p) /\ CoreLess(v, Past(p))
      BY <2>8 DEF Rounded, Past
    <3> QED
      BY <1>2, <2>6, <2>7, <3>2, <3>3
  <2>9. CASE p.op \in {"x.*", "x.y.*"}
    <3>1. First(p).pre = <<>> /\ First(p).major = p.major /\ First(p).patch = 0
          /\ First(p).minor = IF p.minor = Missing THEN 0 ELSE p.minor
      BY <1>1, <2>9 DEF First, Lowest, V, OrZero
    <3>2. Past(p).major = (IF p.minor = Missing THEN p.major + 1 ELSE p.major)
          /\ Past(p).minor = (IF p.minor = Missing THEN 0 ELSE p.minor + 1) /\ Past(p).patch = 0
      BY <1>1, <2>9 DEF Past, PastTilde, NextMajor, NextMinor, V
    <3>3. ~CoreLess(v, First(p)) /\ CoreLess(v, Past(p)) <=>
              v.major = p.major /\ (p.minor # Missing => v.minor = p.minor)
      BY <1>1, <1>3, <3>1, <3>2 DEF CoreLess
    <3>4. Rounded(p, v) <=> v.major = p.major /\ (p.minor # Missing => v.minor = p.minor)
      BY <1>1, <2>9 DEF Rounded
    <3> QED
      BY <1>2, <2>6, <2>7, <3>1, <3>3, <3>4
  <2> QED
    BY <1>5, <2>8, <2>9 DEF Intervals
<1> QED
  BY <1>4, <1>5

(* Being printed and read changes neither what a predicate matches nor the   *)
(* pre-releases it names.                                                    *)
LEMMA PrintedMatches ==
  ASSUME NEW p \in Parsed, NEW v \in SemVersion
  PROVE  /\ Printed(p) \in Parsed
         /\ PredicateMatches(Printed(p), v) <=> PredicateMatches(p, v)
         /\ PreTagIsCompatible(Printed(p), v) <=> PreTagIsCompatible(p, v)
<1>1. CASE p.op \in Ops
  BY <1>1 DEF Printed
<1>2. CASE p.op \notin Ops
  <2> DEFINE q == Printed(p)
  <2>1. /\ p.op = "x.*" \/ p.op = "x.y.*"
        /\ p \in PredicateFields
        /\ p.op = "x.*" => p.minor = Missing
        /\ p.op = "x.y.*" => p.patch = Missing
    BY <1>2 DEF Parsed, PredicateFields
  <2>2. q = [op |-> p.op, major |-> p.major, minor |-> p.minor, patch |-> Missing, pre |-> <<>>]
    BY <1>2, <2>1 DEF Printed, PredicateFields
  <2>3. /\ q.op = p.op /\ q.major = p.major /\ q.minor = p.minor /\ q.patch = Missing
        /\ q \in PredicateFields
    BY <2>1, <2>2 DEF PredicateFields, ParsedPart
  <2>4. v.minor # Missing /\ v.patch # Missing
    BY DEF SemVersion, Missing
  <2> HIDE DEF q
  <2>5. q \in Parsed
    BY <1>2, <2>1, <2>3 DEF Parsed
  <2>6. PredicateMatches(q, v) <=> PredicateMatches(p, v)
    <3>1. MatchesWildcard(q, v) <=> MatchesWildcard(p, v)
      BY <2>3 DEF MatchesWildcard
    <3>2. PredicateMatches(q, v) <=> MatchesWildcard(q, v)
      BY <2>1, <2>3 DEF PredicateMatches
    <3>3. PredicateMatches(p, v) <=> MatchesWildcard(p, v)
      BY <2>1 DEF PredicateMatches
    <3> QED
      BY <3>1, <3>2, <3>3
  <2>7. ~SameCore(q, v) /\ ~SameCore(p, v)
    BY <2>1, <2>3, <2>4 DEF SameCore
  <2>8. PreTagIsCompatible(q, v) <=> PreTagIsCompatible(p, v)
    BY <2>7 DEF PreTagIsCompatible
  <2> QED
    BY <2>5, <2>6, <2>8 DEF q
<1> QED
  BY <1>1, <1>2

(* Requirements, as sequences of predicates.                                 *)
PrintedRange(r) == [i \in DOMAIN r |-> Printed(r[i])]

Pieces(texts) == [i \in 1..Len(texts) |-> IF i = 1 THEN texts[i] ELSE SkipWhitespace(texts[i])]
Accepted(texts, i) ==
    {r \in ReadPredicate(Pieces(texts)[i]) :
        IF r.v.op = "any" THEN r.rest = <<>> /\ Len(texts) = 1
                       ELSE SkipWhitespace(r.rest) = <<>>}
Chosen(texts, i) == (CHOOSE r \in Accepted(texts, i) : TRUE).v

(* Parser::range, as what is read of each of its texts.                      *)
LEMMA RangesAre ==
  ASSUME NEW texts
  PROVE  ReadRange(texts) =
           IF \E i \in 1..Len(texts) : Accepted(texts, i) = {} THEN {}
           ELSE {IF [i \in 1..Len(texts) |-> Chosen(texts, i)][1].op = "any" THEN <<>>
                 ELSE [i \in 1..Len(texts) |-> Chosen(texts, i)]}
<1> DEFINE last == Len(texts)
           read == [i \in 1..last |-> Accepted(texts, i)]
           v == [i \in 1..last |-> (CHOOSE r \in read[i] : TRUE).v]
<1>1. ReadRange(texts) =
        IF \E i \in 1..last : read[i] = {} THEN {} ELSE {IF v[1].op = "any" THEN <<>> ELSE v}
  BY DEF ReadRange, Accepted, Pieces
<1>2. \A i \in 1..last : read[i] = Accepted(texts, i)
  OBVIOUS
<1>3. v = [i \in 1..last |-> Chosen(texts, i)]
  BY <1>2 DEF Chosen
<1>4. (\E i \in 1..last : read[i] = {}) <=> \E i \in 1..last : Accepted(texts, i) = {}
  BY <1>2
<1> HIDE DEF v, read
<1> QED
  BY <1>1, <1>3, <1>4

(* A range that is read has a predicate for each, or matches anything.       *)
LEMMA RangesTyped ==
  ASSUME NEW texts \in Seq(Seq(Token)), texts # <<>>, NEW r \in ReadRange(texts)
  PROVE  r \in Seq(Parsed)
<1> DEFINE last == Len(texts)
           v == [i \in 1..last |-> Chosen(texts, i)]
<1>1. last \in Nat /\ last >= 1
  BY EmptySeq, LenProperties
<1>2. /\ \A i \in 1..last : Accepted(texts, i) # {}
      /\ r = IF v[1].op = "any" THEN <<>> ELSE v
  BY RangesAre
<1>3. ASSUME NEW i \in 1..last
      PROVE  \/ Chosen(texts, i) \in Parsed
             \/ Chosen(texts, i).op = "any" /\ last = 1
  <2>1. PICK x \in Accepted(texts, i) : Chosen(texts, i) = x.v
    <3> DEFINE x == CHOOSE x \in Accepted(texts, i) : TRUE
    <3>1. x \in Accepted(texts, i)
      BY <1>2
    <3> QED
      BY <3>1 DEF Chosen
  <2>2. Pieces(texts)[i] \in Seq(Token)
    <3>1. texts[i] \in Seq(Token)
      BY ElementOfSeq
    <3>2. SkipWhitespace(texts[i]) \in Seq(Token)
      BY <3>1, Skipped
    <3> QED
      BY <3>1, <3>2 DEF Pieces
  <2>3. x \in ReadPredicate(Pieces(texts)[i]) /\ (x.v.op = "any" => Len(texts) = 1)
    BY <2>1 DEF Accepted
  <2> QED
    BY <2>1, <2>2, <2>3, PredicatesTyped
<1>4. CASE v[1].op = "any"
  BY <1>2, <1>4
<1>5. CASE v[1].op # "any"
  <2>1. v[1] = Chosen(texts, 1)
    BY <1>1
  <2>2. \A i \in 1..last : Chosen(texts, i) \in Parsed
    <3> SUFFICES ASSUME NEW i \in 1..last, Chosen(texts, i).op = "any", last = 1
                 PROVE  FALSE
      BY <1>3
    <3>1. i = 1
      BY <1>1
    <3> QED
      BY <1>5, <2>1, <3>1
  <2>3. v \in Seq(Parsed)
    BY <1>1, <2>2
  <2> QED
    BY <1>2, <1>5, <2>3
<1> QED
  BY <1>4, <1>5

(* Any predicate that is printed is read again.                              *)
LEMMA PredicatesRead ==
  ASSUME NEW p \in Parsed
  PROVE  /\ WritePredicate(p) \in Seq(Token)
         /\ ~Is(WritePredicate(p), {" "})
         /\ ReadPredicate(WritePredicate(p)) = Result(Printed(p), <<>>)
         /\ Printed(p).op # "any"
<1>1. CASE p.op \in Ops
  BY <1>1, OperatorsRead DEF Printed, Ops
<1>2. CASE p.op \notin Ops
  <2>1. Printed(p).op # "any"
    <3>1. p.op = "x.*" \/ p.op = "x.y.*"
      BY <1>2 DEF Parsed, PredicateFields
    <3>2. Printed(p).op = p.op
      BY <1>2 DEF Printed, Parsed, PredicateFields
    <3> QED
      BY <3>1, <3>2
  <2> QED
    BY <1>2, <2>1, WildcardsRead
<1> QED
  BY <1>1, <1>2

(* A requirement that is printed is read again, as one that matches the same.  *)
LEMMA RangesRead ==
  ASSUME NEW r \in Seq(Parsed)
  PROVE  ReadRange(WriteRange(r)) = {PrintedRange(r)}
<1>0. Len(r) \in Nat /\ DOMAIN r = 1..Len(r)
  BY LenProperties
<1>1. CASE r = <<>>
  <2> DEFINE star == Symbol("*")
             texts == <<<<star>>>>
             one == [v |-> Anything, rest |-> <<>>]
  <2>1. WriteRange(r) = texts
    BY <1>1 DEF WriteRange
  <2>2. star \in Token /\ star.t = "*"
    <3>1. "*" \in TokenKinds
      BY DEF TokenKinds
    <3> QED
      BY <3>1, SymbolsAreTokens
  <2> HIDE DEF star
  <2> DEFINE s == <<star>>
  <2>3. s # <<>> /\ s[1] = star /\ Tail(s) = <<>>
    <3>1. <<star>> \o <<>> = <<star>> /\ <<>> \in Seq(Token)
      <4>1. <<star>> \in Seq(Token)
        BY <2>2
      <4> QED
        BY <4>1, ConcatEmptySeq
    <3> QED
      BY <2>2, <3>1, Prefixed
  <2>4. Len(texts) = 1 /\ texts[1] = s
    OBVIOUS
  <2> HIDE DEF s, texts
  <2>5. ~Is(s, Ops) /\ ~Is(s, {"id"}) /\ Is(s, {"*"})
    BY <2>2, <2>3 DEF Is, Peek, Ops
  <2>6. Component(PastOp(s)) = Result([n |-> Missing, wild |-> TRUE], <<>>)
    BY <2>3, <2>5 DEF Component, PastOp, Numbered
  <2>7. ReadPredicate(s) = {one}
    <3> DEFINE c == [v |-> [n |-> Missing, wild |-> TRUE], rest |-> <<>>]
    <3>1. Component(PastOp(s)) = {c} /\ c.v.wild /\ c.rest = <<>>
      BY <2>6 DEF Result
    <3> HIDE DEF c
    <3>2. ReadPredicate(s) = Result(Anything, <<>>)
      BY <2>3, <3>1, PredicatesAre DEF Result
    <3> QED
      BY <3>2 DEF Result
  <2>8. Pieces(texts)[1] = s
    BY <2>4 DEF Pieces
  <2>9. Accepted(texts, 1) = {one} /\ one.v.op = "any"
    <3>1. one.v.op = "any" /\ one.rest = <<>>
      BY DEF Anything
    <3> HIDE DEF one
    <3> QED
      BY <2>4, <2>7, <2>8, <3>1 DEF Accepted
  <2>10. Chosen(texts, 1).op = "any"
    <3> HIDE DEF one
    <3>1. (CHOOSE x \in {one} : TRUE) = one
      OBVIOUS
    <3> QED
      BY <2>9, <3>1 DEF Chosen
  <2>11. 1..Len(texts) = {1}
    BY <2>4
  <2>12. ReadRange(texts) = {<<>>}
    <3>1. ~\E i \in 1..Len(texts) : Accepted(texts, i) = {}
      BY <2>9, <2>11
    <3>2. [i \in 1..Len(texts) |-> Chosen(texts, i)][1].op = "any"
      BY <2>10, <2>11
    <3> QED
      BY <3>1, <3>2, RangesAre
  <2>13. PrintedRange(r) = <<>>
    BY <1>1 DEF PrintedRange
  <2> QED
    BY <2>1, <2>12, <2>13
<1>2. CASE r # <<>>
  <2> DEFINE last == Len(r)
             Begin(i) == IF i = 1 THEN <<>> ELSE <<Symbol(" ")>>
             texts == [i \in 1..last |-> Begin(i) \o WritePredicate(r[i])]
             Back(i) == [v |-> Printed(r[i]), rest |-> <<>>]
  <2>1. WriteRange(r) = texts
    BY <1>0, <1>2 DEF WriteRange
  <2>2. last \in Nat /\ last >= 1
    BY <1>2, EmptySeq, LenProperties
  <2>3. ASSUME NEW i \in 1..last
        PROVE  Accepted(texts, i) = {Back(i)} /\ Chosen(texts, i) = Printed(r[i])
    <3> DEFINE w == WritePredicate(r[i])
    <3>1. /\ w \in Seq(Token) /\ ~Is(w, {" "})
          /\ ReadPredicate(w) = Result(Printed(r[i]), <<>>)
          /\ Printed(r[i]).op # "any"
      <4>1. r[i] \in Parsed
        BY ElementOfSeq
      <4> QED
        BY <4>1, PredicatesRead
    <3>2. texts[i] = Begin(i) \o w /\ Len(texts) = last
      <4>1. texts[i] = Begin(i) \o w
        OBVIOUS
      <4> DEFINE Whole(j) == Begin(j) \o WritePredicate(r[j])
      <4> HIDE DEF Whole
      <4>2. Len([j \in 1..last |-> Whole(j)]) = last
        BY <2>2
      <4> QED
        BY <4>1, <4>2 DEF Whole
    <3> HIDE DEF w, texts
    <3>3. Pieces(texts)[i] = w
      <4>1. CASE i = 1
        <5>1. texts[i] = w
          BY <3>1, <3>2, <4>1, ConcatEmptySeq
        <5> QED
          BY <3>2, <4>1, <5>1 DEF Pieces
      <4>2. CASE i # 1
        <5> DEFINE blank == Symbol(" ")
                   t == <<blank>> \o w
        <5>1. blank \in Token /\ blank.t = " "
          <6>1. " " \in TokenKinds
            BY DEF TokenKinds
          <6> QED
            BY <6>1, SymbolsAreTokens
        <5>2. texts[i] = t
          BY <3>2, <4>2
        <5> HIDE DEF blank
        <5>3. t # <<>> /\ t[1] = blank /\ Tail(t) = w
          <6>1. w \in Seq(Token) /\ blank \in Token
            BY <3>1, <5>1
          <6> QED
            BY <6>1, Prefixed
        <5> HIDE DEF t
        <5>4. SkipWhitespace(t) = w
          BY <5>1, <5>3 DEF SkipWhitespace, Is, Peek
        <5> QED
          BY <3>2, <4>2, <5>2, <5>4 DEF Pieces
      <4> QED
        BY <4>1, <4>2
    <3>4. ReadPredicate(w) = {Back(i)} /\ Back(i).v.op # "any" /\ SkipWhitespace(Back(i).rest) = <<>>
          /\ Back(i).v = Printed(r[i])
      BY <3>1, EmptyText DEF Result
    <3> HIDE DEF Back
    <3>5. Accepted(texts, i) = {Back(i)}
      BY <3>3, <3>4 DEF Accepted
    <3>6. Chosen(texts, i) = Printed(r[i])
      BY <3>4, <3>5 DEF Chosen
    <3> QED
      BY <3>5, <3>6
  <2>4. Len(texts) = last
    BY <2>2
  <2> HIDE DEF texts, Back, Begin
  <2>5. ~\E i \in 1..Len(texts) : Accepted(texts, i) = {}
    BY <2>3, <2>4
  <2>6. [i \in 1..Len(texts) |-> Chosen(texts, i)] = PrintedRange(r)
    BY <1>0, <2>3, <2>4 DEF PrintedRange
  <2>7. PrintedRange(r)[1].op # "any"
    <3>1. 1 \in 1..last /\ r[1] \in Parsed
      BY <2>2, ElementOfSeq
    <3>2. PrintedRange(r)[1] = Printed(r[1])
      BY <1>0, <3>1 DEF PrintedRange
    <3> QED
      BY <3>1, <3>2, PredicatesRead
  <2>8. ReadRange(texts) = {PrintedRange(r)}
    BY <2>5, <2>6, <2>7, RangesAre
  <2> QED
    BY <2>1, <2>8
<1> QED
  BY <1>1, <1>2

(* What holds of predicates holds of ranges.                                 *)
LEMMA PrintedRangesMatch ==
  ASSUME NEW r \in Seq(Parsed), NEW v \in SemVersion
  PROVE  Matches(PrintedRange(r), v) <=> Matches(r, v)
<1> DEFINE q == PrintedRange(r)
<1>1. Len(r) \in Nat /\ DOMAIN r = 1..Len(r) /\ DOMAIN q = DOMAIN r
  BY LenProperties DEF PrintedRange
<1>2. r = <<>> <=> q = <<>>
  <2>1. r = <<>> => q = <<>>
    BY DEF PrintedRange
  <2>2. q = <<>> => r = <<>>
    <3> SUFFICES ASSUME q = <<>>
                 PROVE  r = <<>>
      OBVIOUS
    <3>1. DOMAIN r = {}
      BY <1>1
    <3> QED
      BY <1>1, <3>1, EmptySeq
  <2> QED
    BY <2>1, <2>2
<1>3. \A i \in DOMAIN r : q[i] = Printed(r[i]) /\ r[i] \in Parsed
  BY <1>1, ElementOfSeq DEF PrintedRange
<1> HIDE DEF q
<1>4. \A i \in DOMAIN r : /\ PredicateMatches(q[i], v) <=> PredicateMatches(r[i], v)
                          /\ PreTagIsCompatible(q[i], v) <=> PreTagIsCompatible(r[i], v)
  BY <1>3, PrintedMatches
<1>5. Matches(q, v) <=> Matches(r, v)
  BY <1>1, <1>2, <1>4 DEF Matches
<1> QED
  BY <1>5 DEF q

(* Range::matches selects what its predicates stand for together.            *)
LEMMA RangesSelect ==
  ASSUME NEW r \in Seq(Parsed), NEW v \in SemVersion
  PROVE  Matches(r, v) <=>
           /\ \A i \in DOMAIN r :
                 Intended(r[i], IF OnBound(r[i], v) THEN AsRelease(v) ELSE v)
           /\ \/ r = <<>> \/ ~IsPrerelease(v)
              \/ \E i \in DOMAIN r : r[i].pre # <<>> /\ SameCore(r[i], v)
<1>1. Len(r) \in Nat /\ DOMAIN r = 1..Len(r)
  BY LenProperties
<1>2. \A i \in DOMAIN r :
        PredicateMatches(r[i], v) <=>
           Intended(r[i], IF OnBound(r[i], v) THEN AsRelease(v) ELSE v)
  <2>1. \A i \in DOMAIN r : r[i] \in Parsed
    BY <1>1, ElementOfSeq
  <2> QED
    BY <2>1, IntendedMatches
<1>3. CASE r = <<>>
  <2>1. DOMAIN r = {}
    BY <1>3
  <2> QED
    BY <1>3, <2>1 DEF Matches
<1>4. CASE r # <<>>
  <2>1. 1 \in DOMAIN r
    BY <1>1, <1>4, EmptySeq
  <2>2. (\E i \in DOMAIN r : PreTagIsCompatible(r[i], v)) <=>
          \/ ~IsPrerelease(v)
          \/ \E i \in DOMAIN r : r[i].pre # <<>> /\ SameCore(r[i], v)
    BY <2>1 DEF PreTagIsCompatible
  <2> QED
    BY <1>2, <1>4, <2>2 DEF Matches
<1> QED
  BY <1>3, <1>4

-----------------------------------------------------------------------------
(* What is known of a requirement between its readings.                      *)
ReadingInv ==
    /\ reading \in {"first", "read", "again", "reread", "refused"}
    /\ meant \in Seq(Parsed)
    /\ reading = "first" => text \in RangeTexts /\ meant = <<>>
    /\ reading = "refused" => meant = <<>>
    /\ reading \in {"read", "again"} => range = meant
    /\ reading = "again" => text = WriteRange(meant)
    /\ reading = "reread" => range = PrintedRange(meant)

(* What is in memory is what was read first, or what is read of its text.    *)
LEMMA ReadingHolds == RequirementSpec => []ReadingInv
<1>1. RequirementInit => ReadingInv
  BY DEF RequirementInit, ReadingInv
<1>2. ReadingInv /\ [RequirementNext]_requirementVars => ReadingInv'
  <2> SUFFICES ASSUME ReadingInv, [RequirementNext]_requirementVars
               PROVE  ReadingInv'
    OBVIOUS
  <2>1. CASE Read /\ reading = "first"
    <3>1. text \in Seq(Seq(Token)) /\ text # <<>> /\ meant = <<>>
      BY <2>1, TextAssumption DEF ReadingInv
    <3>2. CASE ReadRange(text) = {}
      BY <2>1, <3>1, <3>2 DEF Read, ReadingInv
    <3>3. CASE ReadRange(text) # {}
      <4>1. range' \in ReadRange(text) /\ meant' = range' /\ reading' = "read" /\ text' = text
        BY <2>1, <3>3 DEF Read
      <4>2. meant' \in Seq(Parsed)
        BY <3>1, <4>1, RangesTyped
      <4> QED
        BY <4>1, <4>2 DEF ReadingInv
    <3> QED
      BY <3>2, <3>3
  <2>2. CASE Read /\ reading # "first"
    <3>1. reading = "again" /\ meant \in Seq(Parsed) /\ text = WriteRange(meant)
      BY <2>2 DEF Read, ReadingInv
    <3>2. ReadRange(text) = {PrintedRange(meant)}
      BY <3>1, RangesRead
    <3>3. range' = PrintedRange(meant) /\ meant' = meant /\ reading' = "reread" /\ text' = text
      BY <2>2, <3>1, <3>2 DEF Read
    <3> QED
      BY <3>1, <3>3 DEF ReadingInv
  <2>3. CASE Write
    BY <2>3 DEF Write, ReadingInv
  <2>4. CASE UNCHANGED requirementVars
    BY <2>4 DEF requirementVars, ReadingInv
  <2> QED
    BY <2>1, <2>2, <2>3, <2>4 DEF RequirementNext
<1> QED
  BY <1>1, <1>2, PTL DEF RequirementSpec

(* Selects, of every behaviour, for any texts of requirements and versions:  *)
(* a range matches the versions in the documented intervals of its           *)
(* predicates, but that a pre-release of a bound of a caret, tilde or        *)
(* wildcard counts as the release, and pre-releases only of versions it      *)
(* names one of; neither a range nor a version changes by being printed and  *)
(* read again.                                                               *)
THEOREM RequirementsSelect == RequirementSpec => []Selects
<1>1. ReadingInv => Selects
  <2> SUFFICES ASSUME ReadingInv
               PROVE  Selects
    OBVIOUS
  <2>1. reading = "refused" => meant = <<>>
    BY DEF ReadingInv
  <2>2. ASSUME reading \in {"read", "reread"},
               NEW t \in VersionTexts, NEW v \in ReadVersion(t), NEW w \in ReadVersion(WriteVersion(v))
        PROVE  /\ Equal(v, w)
               /\ Matches(range, w) <=>
                     /\ \A i \in DOMAIN meant :
                           Intended(meant[i], IF OnBound(meant[i], v) THEN AsRelease(v) ELSE v)
                     /\ \/ meant = <<>> \/ ~IsPrerelease(v)
                        \/ \E i \in DOMAIN meant : meant[i].pre # <<>> /\ SameCore(meant[i], v)
    <3>1. v \in SemVersion
      BY TextAssumption, VersionsTyped
    <3>2. w = v
      BY <3>1, VersionsRead
    <3>3. meant \in Seq(Parsed) /\ (range = meant \/ range = PrintedRange(meant))
      BY <2>2 DEF ReadingInv
    <3>4. Matches(range, w) <=> Matches(meant, v)
      BY <3>1, <3>2, <3>3, PrintedRangesMatch
    <3>5. Matches(meant, v) <=>
            /\ \A i \in DOMAIN meant :
                           Intended(meant[i], IF OnBound(meant[i], v) THEN AsRelease(v) ELSE v)
            /\ \/ meant = <<>> \/ ~IsPrerelease(v)
               \/ \E i \in DOMAIN meant : meant[i].pre # <<>> /\ SameCore(meant[i], v)
      BY <3>1, <3>3, RangesSelect
    <3>6. Equal(v, w)
      BY <3>2 DEF Equal, SameCore
    <3> QED
      BY <3>4, <3>5, <3>6
  <2>3. ASSUME NEW t \in VersionTexts, NEW v \in ReadVersion(t)
        PROVE  ReadVersion(WriteVersion(v)) # {}
    <3>1. v \in SemVersion
      BY TextAssumption, VersionsTyped
    <3> QED
      BY <3>1, VersionsRead
  <2> QED
    BY <2>1, <2>2, <2>3 DEF Selects
<1> QED
  BY <1>1, ReadingHolds, PTL

-----------------------------------------------------------------------------
(* Names of packages.                                                        *)
LEMMA ConcatTells ==
  ASSUME NEW S, NEW a \in Seq(S), NEW b \in Seq(S), NEW c \in Seq(S), NEW d \in Seq(S),
         Len(a) = Len(b), a \o c = b \o d
  PROVE  a = b /\ c = d
<1>1. Len(a) \in Nat /\ Len(c) \in Nat
  BY LenProperties
<1>2. \A i \in 1..Len(a) + Len(c) : (a \o c)[i] = IF i <= Len(a) THEN a[i] ELSE c[i - Len(a)]
  BY ConcatProperties
<1>3. \A i \in 1..Len(b) + Len(d) : (b \o d)[i] = IF i <= Len(b) THEN b[i] ELSE d[i - Len(b)]
  BY ConcatProperties
<1>4. Len(a \o c) = Len(a) + Len(c) /\ Len(b \o d) = Len(b) + Len(d)
  BY ConcatProperties
<1>5. Len(d) \in Nat /\ Len(c) = Len(d)
  BY <1>1, <1>4, LenProperties
<1>6. \A i \in 1..Len(a) : a[i] = b[i]
  BY <1>1, <1>2, <1>3, <1>5
<1>7. a = b
  BY <1>6, SeqEqual
<1>8. ASSUME NEW i \in 1..Len(c)
      PROVE  c[i] = d[i]
  <2> DEFINE j == i + Len(a)
  <2>1. j \in 1..Len(a) + Len(c) /\ ~(j <= Len(a)) /\ j - Len(a) = i
    BY <1>1
  <2> HIDE DEF j
  <2>2. (a \o c)[j] = c[i]
    BY <1>2, <2>1
  <2>3. (b \o d)[j] = d[i]
    BY <1>3, <1>5, <2>1
  <2> QED
    BY <2>2, <2>3
<1>9. c = d
  BY <1>5, <1>8, SeqEqual
<1> QED
  BY <1>7, <1>9

(* A path with a last part is told from another by either.                   *)
LEMMA AppendTells ==
  ASSUME NEW S, NEW s \in Seq(S), NEW t \in Seq(S), NEW a \in S, NEW b \in S,
         Append(s, a) = Append(t, b)
  PROVE  s = t /\ a = b
<1>1. Len(s) \in Nat /\ Len(t) \in Nat
  BY LenProperties
<1>2. Len(Append(s, a)) = Len(s) + 1 /\ Append(s, a)[Len(s) + 1] = a
      /\ \A i \in 1..Len(s) : Append(s, a)[i] = s[i]
  BY AppendProperties
<1>3. Len(Append(t, b)) = Len(t) + 1 /\ Append(t, b)[Len(t) + 1] = b
      /\ \A i \in 1..Len(t) : Append(t, b)[i] = t[i]
  BY AppendProperties
<1>4. Len(s) = Len(t)
  BY <1>1, <1>2, <1>3
<1>5. a = b /\ \A i \in 1..Len(s) : s[i] = t[i]
  BY <1>2, <1>3, <1>4
<1> QED
  BY <1>4, <1>5, SeqEqual

LEMMA Longer ==
  ASSUME NEW S, NEW a \in S, NEW b \in S, NEW c \in S, NEW d \in S
  PROVE  <<a, b>> \o <<c>> = <<a, b, c>> /\ <<a, b, c>> \o <<d>> = <<a, b, c, d>>
<1>1. <<a, b>> \o <<c>> = <<a, b, c>>
  <2>1. <<a, b>> \in Seq(S) /\ <<c>> \in Seq(S) /\ <<a, b, c>> \in Seq(S)
    OBVIOUS
  <2>2. Len(<<a, b>>) = 2 /\ Len(<<c>>) = 1 /\ Len(<<a, b, c>>) = 3
    OBVIOUS
  <2>3. <<a, b>> \o <<c>> \in Seq(S) /\ Len(<<a, b>> \o <<c>>) = 3
        /\ \A i \in 1..3 : (<<a, b>> \o <<c>>)[i] = IF i <= 2 THEN <<a, b>>[i] ELSE <<c>>[i - 2]
    BY <2>1, <2>2, ConcatProperties
  <2>4. \A i \in 1..3 : i = 1 \/ i = 2 \/ i = 3
    OBVIOUS
  <2>5. \A i \in 1..3 : (<<a, b>> \o <<c>>)[i] = <<a, b, c>>[i]
    BY <2>3, <2>4
  <2> QED
    BY <2>1, <2>2, <2>3, <2>5, SeqEqual
<1>2. <<a, b, c>> \in Seq(S) /\ <<d>> \in Seq(S) /\ <<a, b, c, d>> \in Seq(S)
  OBVIOUS
<1>3. <<a, b, c>> \o <<d>> \in Seq(S) /\ Len(<<a, b, c>> \o <<d>>) = 4
      /\ \A i \in 1..4 : (<<a, b, c>> \o <<d>>)[i] = IF i <= 3 THEN <<a, b, c>>[i] ELSE <<d>>[i - 3]
  <2>1. Len(<<a, b, c>>) = 3 /\ Len(<<d>>) = 1
    OBVIOUS
  <2> QED
    BY <1>2, <2>1, ConcatProperties
<1>4. \A i \in 1..4 : i = 1 \/ i = 2 \/ i = 3 \/ i = 4
  OBVIOUS
<1>5. \A i \in 1..4 : (<<a, b, c>> \o <<d>>)[i] = <<a, b, c, d>>[i]
  BY <1>3, <1>4
<1>6. Len(<<a, b, c, d>>) = 4
  OBVIOUS
<1> QED
  BY <1>1, <1>2, <1>3, <1>5, <1>6, SeqEqual

(* What VersionPackage makes of a version at the levels that are reached.    *)
Core(v) == <<VWord, Numeric(v.major), Numeric(v.minor), Numeric(v.patch)>>

(* The parts that Session::version_package makes at each level.              *)
LEMMA VersionPackages ==
  ASSUME NEW v \in SemVersion
  PROVE  /\ VersionPackage(v, 0) = <<VWord, Numeric(v.major)>>
         /\ VersionPackage(v, 1) = <<VWord, Numeric(v.major), Numeric(v.minor)>>
         /\ VersionPackage(v, 2) = Core(v)
         /\ VersionPackage(v, 3) = Core(v) \o v.pre
<1> DEFINE N(n) == Numeric(n)
<1> HIDE DEF N
<1>1. v.pre \in Seq(Identifier) /\ VWord \in Identifier
      /\ N(v.major) \in Identifier /\ N(v.minor) \in Identifier /\ N(v.patch) \in Identifier
  BY VWordAssumption DEF SemVersion, Identifier, Numeric, N
<1>2. <<VWord, N(v.major)>> \in Seq(Identifier) /\ <<N(v.minor)>> \in Seq(Identifier)
      /\ <<N(v.patch)>> \in Seq(Identifier)
      /\ <<VWord, N(v.major), N(v.minor)>> \in Seq(Identifier)
      /\ <<VWord, N(v.major), N(v.minor), N(v.patch)>> \in Seq(Identifier)
  BY <1>1
<1>3. \A s \in Seq(Identifier) : s \o <<>> = s
  BY ConcatEmptySeq
<1>4. <<VWord, N(v.major)>> \o <<N(v.minor)>> = <<VWord, N(v.major), N(v.minor)>>
      /\ <<VWord, N(v.major), N(v.minor)>> \o <<N(v.patch)>>
           = <<VWord, N(v.major), N(v.minor), N(v.patch)>>
  BY <1>1, Longer
<1>5. Core(v) \o v.pre \in Seq(Identifier)
  BY <1>1, <1>2, ConcatProperties DEF Core, N
<1> DEFINE Parts1(l) == IF l > 0 THEN <<N(v.minor)>> ELSE <<>>
           Parts2(l) == IF l > 1 THEN <<N(v.patch)>> ELSE <<>>
           Parts3(l) == IF l > 2 THEN v.pre ELSE <<>>
           Parts4(l) == IF l > 3 THEN v.build ELSE <<>>
           Whole(l) == (((<<VWord, N(v.major)>> \o Parts1(l)) \o Parts2(l)) \o Parts3(l)) \o Parts4(l)
<1>6. Whole(0) = <<VWord, N(v.major)>>
  BY <1>2, <1>3
<1>7. Whole(1) = <<VWord, N(v.major), N(v.minor)>>
  BY <1>2, <1>3, <1>4
<1>8. Whole(2) = Core(v)
  <2>1. Whole(2) = (<<VWord, N(v.major), N(v.minor), N(v.patch)>> \o <<>>) \o <<>>
    <3>1. Parts1(2) = <<N(v.minor)>> /\ Parts2(2) = <<N(v.patch)>>
          /\ Parts3(2) = <<>> /\ Parts4(2) = <<>>
      OBVIOUS
    <3> HIDE DEF Parts1, Parts2, Parts3, Parts4
    <3> QED
      BY <1>4, <3>1, Zenon
  <2>2. Whole(2) = <<VWord, N(v.major), N(v.minor), N(v.patch)>>
    BY <1>2, <1>3, <2>1
  <2> QED
    BY <2>2 DEF Core, N
<1>9. Whole(3) = Core(v) \o v.pre
  BY <1>2, <1>3, <1>4, <1>5 DEF Core, N
<1>10. ASSUME NEW l
       PROVE  VersionPackage(v, l) = Whole(l)
  BY DEF VersionPackage, N
<1> HIDE DEF Whole
<1>11. VersionPackage(v, 0) = <<VWord, Numeric(v.major)>>
  BY <1>6, <1>10 DEF N
<1>12. VersionPackage(v, 1) = <<VWord, Numeric(v.major), Numeric(v.minor)>>
  BY <1>7, <1>10 DEF N
<1>13. VersionPackage(v, 2) = Core(v) /\ VersionPackage(v, 3) = Core(v) \o v.pre
  BY <1>8, <1>9, <1>10
<1> QED
  BY <1>11, <1>12, <1>13

(* Versions of one core and one pre-release are one as far as a session can  *)
(* tell, and the name at level 3 holds both.                                 *)
LEMMA CoreTells ==
  ASSUME NEW v \in SemVersion, NEW w \in SemVersion,
         Core(v) = Core(w)
  PROVE  SameCore(v, w)
<1>1. Numeric(v.major) = Numeric(w.major) /\ Numeric(v.minor) = Numeric(w.minor)
      /\ Numeric(v.patch) = Numeric(w.patch)
  BY DEF Core
<1> QED
  BY <1>1 DEF Numeric, SameCore

LEMMA CoreIsSeq ==
  ASSUME NEW v \in SemVersion
  PROVE  Core(v) \in Seq(Identifier) /\ Len(Core(v)) = 4
<1>1. VWord \in Identifier
  BY VWordAssumption
<1>2. Numeric(v.major) \in Identifier /\ Numeric(v.minor) \in Identifier
      /\ Numeric(v.patch) \in Identifier
  BY DEF SemVersion, Identifier, Numeric
<1> QED
  BY <1>1, <1>2 DEF Core

(* At the last level versions that a session holds apart have names apart.   *)
LEMMA LastLevelTells ==
  ASSUME NEW v \in SemVersion, NEW w \in SemVersion,
         VersionPackage(v, 3) = VersionPackage(w, 3)
  PROVE  Equal(v, w)
<1>1. v.pre \in Seq(Identifier) /\ w.pre \in Seq(Identifier)
  BY DEF SemVersion
<1>2. Core(v) \o v.pre = Core(w) \o w.pre
  BY VersionPackages
<1>3. Core(v) \in Seq(Identifier) /\ Core(w) \in Seq(Identifier)
      /\ Len(Core(v)) = 4 /\ Len(Core(w)) = 4
  BY CoreIsSeq
<1>4. Core(v) = Core(w) /\ v.pre = w.pre
  BY <1>1, <1>2, <1>3, ConcatTells
<1> QED
  BY <1>4, CoreTells DEF Equal

(* How many parts these are, which tells levels apart.                       *)
LEMMA VersionPackageLengths ==
  ASSUME NEW v \in SemVersion
  PROVE  /\ Len(VersionPackage(v, 0)) = 2 /\ Len(VersionPackage(v, 1)) = 3
         /\ Len(VersionPackage(v, 2)) = 4 /\ Len(VersionPackage(v, 3)) = 4 + Len(v.pre)
         /\ Len(v.pre) \in Nat /\ v.pre \in Seq(Identifier)
         /\ \A l \in 0..3 : VersionPackage(v, l) \in Seq(Identifier)
<1>1. v.pre \in Seq(Identifier) /\ VWord \in Identifier
      /\ Numeric(v.major) \in Identifier /\ Numeric(v.minor) \in Identifier
      /\ Numeric(v.patch) \in Identifier
  BY VWordAssumption DEF SemVersion, Identifier, Numeric
<1>2. Len(Core(v)) = 4 /\ Core(v) \in Seq(Identifier)
  BY CoreIsSeq
<1>3. Len(Core(v) \o v.pre) = 4 + Len(v.pre) /\ Core(v) \o v.pre \in Seq(Identifier)
  <2> DEFINE s == v.pre  c == Core(v)
  <2>1. s \in Seq(Identifier) /\ c \in Seq(Identifier) /\ Len(c) = 4
    BY <1>1, <1>2
  <2> HIDE DEF s, c
  <2>2. Len(c \o s) = 4 + Len(s) /\ c \o s \in Seq(Identifier)
    <3>1. c \o s \in Seq(Identifier) /\ Len(c \o s) = Len(c) + Len(s)
      BY <2>1, ConcatProperties
    <3> QED
      BY <2>1, <3>1
  <2> QED
    BY <2>2 DEF s, c
<1>4. <<VWord, Numeric(v.major)>> \in Seq(Identifier) /\ Len(<<VWord, Numeric(v.major)>>) = 2
  BY <1>1
<1>5. /\ <<VWord, Numeric(v.major), Numeric(v.minor)>> \in Seq(Identifier)
      /\ Len(<<VWord, Numeric(v.major), Numeric(v.minor)>>) = 3
  BY <1>1
<1>6. \A l \in 0..3 : l = 0 \/ l = 1 \/ l = 2 \/ l = 3
  OBVIOUS
<1>7. Len(v.pre) \in Nat
  BY <1>1, LenProperties
<1>8. \A l \in 0..3 : VersionPackage(v, l) \in Seq(Identifier)
  BY <1>2, <1>3, <1>4, <1>5, <1>6, VersionPackages
<1> QED
  BY <1>1, <1>2, <1>3, <1>4, <1>5, <1>7, <1>8, VersionPackages

(* Names of two versions are equal only when path and version part are.      *)
LEMMA PathsTell ==
  ASSUME NEW p \in LoadedPackage, NEW q \in LoadedPackage,
         p.version # <<>>, q.version # <<>>,
         NEW k \in 0..3, NEW l \in 0..3,
         PackageWithLevel(p, k) = PackageWithLevel(q, l)
  PROVE  /\ p.version[1] \in SemVersion /\ q.version[1] \in SemVersion
         /\ p.path = q.path
         /\ VersionPackage(p.version[1], k) = VersionPackage(q.version[1], l)
<1> DEFINE v == p.version[1]  w == q.version[1]
           a == VersionPackage(v, k)  b == VersionPackage(w, l)
<1>1. v \in SemVersion /\ w \in SemVersion
      /\ p.path \in Seq(Seq(Identifier)) /\ q.path \in Seq(Seq(Identifier))
  BY DEF LoadedPackage
<1> HIDE DEF v, w
<1>2. a \in Seq(Identifier) /\ b \in Seq(Identifier)
  BY <1>1, VersionPackageLengths
<1>3. Append(p.path, a) = Append(q.path, b)
  BY DEF PackageWithLevel, v, w
<1> HIDE DEF a, b
<1> DEFINE S == Seq(Identifier)
<1>4. p.path \in Seq(S) /\ q.path \in Seq(S) /\ a \in S /\ b \in S
  BY <1>1, <1>2
<1> HIDE DEF S
<1>5. p.path = q.path /\ a = b
  BY <1>3, <1>4, AppendTells
<1> QED
  BY <1>1, <1>5 DEF a, b, v, w

(* A package without a version that is named like a version of another one   *)
(* ends in as many parts as the name of that version does.                   *)
LEMMA EndTells ==
  ASSUME NEW p \in LoadedPackage, NEW q \in LoadedPackage,
         p.version = <<>>, q.version # <<>>,
         NEW l \in 0..3,
         PackageWithLevel(p, l) = PackageWithLevel(q, l)
  PROVE  /\ q.version[1] \in SemVersion
         /\ Len(p.path[Len(p.path)]) = Len(VersionPackage(q.version[1], l))
<1> DEFINE w == q.version[1]  b == VersionPackage(w, l)
<1>1. w \in SemVersion /\ q.path \in Seq(Seq(Identifier))
  BY DEF LoadedPackage
<1> HIDE DEF w
<1>2. b \in Seq(Identifier)
  BY <1>1, VersionPackageLengths
<1>3. p.path = Append(q.path, b)
  BY DEF PackageWithLevel, w
<1> HIDE DEF b
<1>4. Len(p.path) = Len(q.path) + 1 /\ p.path[Len(q.path) + 1] = b
  BY <1>1, <1>2, <1>3, AppendProperties
<1> QED
  BY <1>1, <1>4 DEF b, w

(* Packages without a version are named by their path.                       *)
LEMMA UnversionedTells ==
  ASSUME NEW p, NEW q, NEW k, NEW l, p.version = <<>>, q.version = <<>>,
         PackageWithLevel(p, k) = PackageWithLevel(q, l)
  PROVE  SamePackage(p, q)
BY DEF PackageWithLevel, SamePackage

-----------------------------------------------------------------------------
(* What is named and what waits are the packages of a session, all of them   *)
(* different to it.                                                          *)
Known == DOMAIN waiting \cup DOMAIN named
KnownInv ==
    /\ Known \subseteq LoadedPackage
    /\ \A p, q \in Known : SamePackage(p, q) => p = q
    /\ DOMAIN waiting \cap DOMAIN named = {}

(* All that wait have come as far, and each because another one did with its *)
(* name.  A name without a version is as long as what follows it in the name *)
(* of a version once at most; so versions alone are left at level 2, and at  *)
(* level 3 each has a name of its own.                                       *)
WaitingInv ==
    /\ round \in Nat
    /\ \A p \in DOMAIN waiting :
          /\ waiting[p] = round /\ round <= 3
          /\ p.version = <<>> => round <= 1
          /\ round > 0 => \E q \in DOMAIN waiting :
                q # p /\ PackageWithLevel(q, round - 1) = PackageWithLevel(p, round - 1)

(* A name is that of its round, and nothing that was waiting then had it.    *)
Later(p) == DOMAIN waiting \cup {q \in DOMAIN named : rounds[q] >= rounds[p]}
NamedInv ==
    /\ DOMAIN rounds = DOMAIN named
    /\ \A p \in DOMAIN named :
          /\ rounds[p] \in 0..3 /\ rounds[p] < round
          /\ named[p] = PackageWithLevel(p, rounds[p])
          /\ \A q \in Later(p) : q # p => PackageWithLevel(q, rounds[p]) # named[p]

(* Every name has a file of the translated session, and the file that has it *)
(* is that of a package with this name.                                      *)
TranslatedInv ==
    translated # <<>> =>
        /\ waiting = <<>>
        /\ \A p \in DOMAIN named :
              LET n == Translated(p)
              IN  /\ n \in DOMAIN translated /\ translated[n] \in DOMAIN named
                  /\ Translated(translated[n]) = n

NamesInv == KnownInv /\ WaitingInv /\ NamedInv /\ TranslatedInv

-----------------------------------------------------------------------------
(* NamesInv holds before the first round, after every round, and when the    *)
(* packages are translated.                                                  *)
LEMMA NamesInitial == NamesInit => NamesInv
<1> SUFFICES ASSUME NamesInit
             PROVE  NamesInv
  OBVIOUS
<1> USE DEF NamesInit
<1>1. PICK P \in Loaded : waiting = [p \in P |-> 0]
  OBVIOUS
<1>2. DOMAIN waiting = P /\ DOMAIN named = {} /\ DOMAIN rounds = {}
  BY <1>1
<1>3. KnownInv
  BY <1>2, LoadedAssumption DEF KnownInv, Known
<1>4. WaitingInv
  BY <1>1, <1>2 DEF WaitingInv
<1>5. NamedInv
  BY <1>2 DEF NamedInv
<1>6. TranslatedInv
  BY DEF TranslatedInv
<1> QED
  BY <1>3, <1>4, <1>5, <1>6 DEF NamesInv

LEMMA RoundStep == NamesInv /\ Round => NamesInv'
<1> SUFFICES ASSUME NamesInv, Round
             PROVE  NamesInv'
  OBVIOUS
<1> DEFINE name == [p \in DOMAIN waiting |-> PackageWithLevel(p, waiting[p])]
           alone == {p \in DOMAIN waiting : \A q \in DOMAIN waiting : name[q] = name[p] => q = p}
<1>1. /\ waiting # <<>>
      /\ named' = [p \in alone \cup DOMAIN named |-> IF p \in alone THEN name[p] ELSE named[p]]
      /\ rounds' = [p \in alone \cup DOMAIN rounds |-> IF p \in alone THEN round ELSE rounds[p]]
      /\ waiting' = [p \in DOMAIN waiting \ alone |-> waiting[p] + 1]
      /\ round' = round + 1
      /\ UNCHANGED <<backend, translated>>
  BY DEF Round
<1>2. KnownInv /\ WaitingInv /\ NamedInv /\ TranslatedInv
  BY DEF NamesInv
<1>3. \A p \in DOMAIN waiting : name[p] = PackageWithLevel(p, round)
  BY <1>2 DEF WaitingInv
<1>4. alone \subseteq DOMAIN waiting
  OBVIOUS
<1>5. \A p \in alone, q \in DOMAIN waiting : q # p => PackageWithLevel(q, round) # PackageWithLevel(p, round)
  BY <1>3
<1>6. \A p \in DOMAIN waiting \ alone : \E q \in DOMAIN waiting \ alone :
         q # p /\ PackageWithLevel(q, round) = PackageWithLevel(p, round)
  BY <1>3
<1> HIDE DEF alone
<1>7. /\ DOMAIN named' = alone \cup DOMAIN named
      /\ DOMAIN rounds' = alone \cup DOMAIN rounds
      /\ DOMAIN waiting' = DOMAIN waiting \ alone
  BY <1>1
<1>8. KnownInv'
  BY <1>2, <1>4, <1>7 DEF KnownInv, Known
<1>9. /\ \A p \in alone : named'[p] = PackageWithLevel(p, round) /\ rounds'[p] = round
      /\ \A p \in DOMAIN named \ alone : named'[p] = named[p]
      /\ \A p \in DOMAIN rounds \ alone : rounds'[p] = rounds[p]
  BY <1>1, <1>3, <1>4
<1> HIDE DEF name
<1>10. TranslatedInv'
  BY <1>1, <1>2 DEF TranslatedInv, backend
<1>11. WaitingInv'
  <2>1. round' \in Nat
    BY <1>1, <1>2 DEF WaitingInv
  <2>2. ASSUME NEW p \in DOMAIN waiting'
        PROVE  /\ waiting'[p] = round' /\ round' <= 3
               /\ p.version = <<>> => round' <= 1
               /\ round' > 0 => \E q \in DOMAIN waiting' :
                     q # p /\ PackageWithLevel(q, round' - 1) = PackageWithLevel(p, round' - 1)
    <3>1. p \in DOMAIN waiting \ alone
      BY <1>7, <2>2
    <3>2. PICK q \in DOMAIN waiting \ alone :
             q # p /\ PackageWithLevel(q, round) = PackageWithLevel(p, round)
      BY <1>6, <3>1
    <3>3. round \in 0..3 /\ waiting[p] = round /\ waiting[q] = round
      BY <1>2, <3>1, <3>2 DEF WaitingInv
    <3>4. waiting'[p] = round'
      BY <1>1, <3>1, <3>3
    <3>5. /\ p \in LoadedPackage /\ q \in LoadedPackage
          /\ ~SamePackage(p, q) /\ ~SamePackage(q, p)
      BY <1>2, <3>1, <3>2 DEF KnownInv, Known
    <3>6. p.version # <<>> \/ q.version # <<>>
      BY <3>2, <3>5, UnversionedTells
    <3>7. ASSUME NEW x \in DOMAIN waiting, NEW y \in DOMAIN waiting,
                 x.version = <<>>, y.version # <<>>,
                 PackageWithLevel(x, round) = PackageWithLevel(y, round)
          PROVE  round = 0
      <4>1. x \in LoadedPackage /\ y \in LoadedPackage /\ round <= 1
        BY <1>2, <3>7 DEF KnownInv, Known, WaitingInv
      <4>2. SUFFICES ASSUME round = 1
                     PROVE  FALSE
        BY <3>3, <4>1
      <4>3. PICK z \in DOMAIN waiting : z # x /\ PackageWithLevel(z, 0) = PackageWithLevel(x, 0)
        BY <1>2, <4>2 DEF WaitingInv
      <4>4. z \in LoadedPackage /\ ~SamePackage(z, x)
        BY <1>2, <4>3 DEF KnownInv, Known
      <4>5. z.version # <<>>
        BY <3>7, <4>3, <4>4, UnversionedTells
      <4>6. Len(x.path[Len(x.path)]) = 2
        BY <3>7, <4>1, <4>3, <4>4, <4>5, EndTells, VersionPackageLengths
      <4>7. Len(x.path[Len(x.path)]) = 3
        BY <3>7, <4>1, <4>2, EndTells, VersionPackageLengths
      <4>8. 2 = 3
        BY ONLY <4>6, <4>7
      <4> QED
        BY <4>8
    <3>8. p.version = <<>> \/ q.version = <<>> => round = 0
      BY <3>1, <3>2, <3>6, <3>7
    <3>9. p.version # <<>> /\ q.version # <<>> => round # 3
      <4> SUFFICES ASSUME p.version # <<>>, q.version # <<>>, round = 3
                   PROVE  FALSE
        OBVIOUS
      <4>1. /\ p.version[1] \in SemVersion /\ q.version[1] \in SemVersion
            /\ p.path = q.path
            /\ VersionPackage(p.version[1], 3) = VersionPackage(q.version[1], 3)
        BY <3>2, <3>5, PathsTell
      <4> QED
        BY <3>5, <4>1, LastLevelTells DEF SamePackage
    <3> QED
      BY <1>1, <1>7, <3>2, <3>3, <3>4, <3>8, <3>9
  <2> QED
    BY <2>1, <2>2 DEF WaitingInv
<1>12. NamedInv'
  <2>1. DOMAIN rounds' = DOMAIN named'
    BY <1>2, <1>7 DEF NamedInv
  <2>2. ASSUME NEW p \in DOMAIN named'
        PROVE  /\ rounds'[p] \in 0..3 /\ rounds'[p] < round'
               /\ named'[p] = PackageWithLevel(p, rounds'[p])
               /\ \A q \in Later(p)' : q # p => PackageWithLevel(q, rounds'[p]) # named'[p]
    <3>1. \A q \in Later(p)' :
             q \in DOMAIN waiting \/ (q \in DOMAIN named \ alone /\ rounds[q] >= rounds'[p])
      BY <1>2, <1>4, <1>7, <1>9 DEF Later, NamedInv
    <3>2. CASE p \in alone
      <4>1. round \in 0..3 /\ rounds'[p] = round /\ named'[p] = PackageWithLevel(p, round)
        BY <1>2, <1>4, <1>9, <3>2 DEF WaitingInv
      <4>2. \A q \in Later(p)' : q \in DOMAIN waiting
        BY <1>2, <3>1, <4>1 DEF NamedInv
      <4> QED
        BY <1>1, <1>5, <3>2, <4>1, <4>2
    <3>3. CASE p \notin alone
      <4>1. p \in DOMAIN named /\ named'[p] = named[p] /\ rounds'[p] = rounds[p]
        BY <1>2, <1>7, <1>9, <2>2, <3>3 DEF NamedInv
      <4>2. \A q \in Later(p)' : q \in Later(p)
        BY <3>1, <4>1 DEF Later
      <4> QED
        BY <1>1, <1>2, <4>1, <4>2 DEF NamedInv, WaitingInv
    <3> QED
      BY <3>2, <3>3
  <2> QED
    BY <2>1, <2>2 DEF NamedInv
<1> QED
  BY <1>8, <1>10, <1>11, <1>12 DEF NamesInv

LEMMA TranslateStep == NamesInv /\ Translate => NamesInv'
<1> SUFFICES ASSUME NamesInv, Translate
             PROVE  NamesInv'
  OBVIOUS
<1>1. /\ waiting = <<>>
      /\ UNCHANGED <<waiting, named, rounds, round, backend>>
  BY DEF Translate
<1>2. PICK last \in [{Translated(p) : p \in DOMAIN named} -> DOMAIN named] :
        /\ \A n \in DOMAIN last : Translated(last[n]) = n
        /\ translated' = last
  BY DEF Translate
<1>3. KnownInv' /\ WaitingInv' /\ NamedInv'
  BY <1>1 DEF NamesInv, KnownInv, Known, WaitingInv, NamedInv, Later
<1>4. \A p \in DOMAIN named : Translated(p)' = Translated(p)
  BY <1>1 DEF Translated, Replaced, Converted, backend
<1>5. TranslatedInv'
  <2> SUFFICES ASSUME NEW p \in DOMAIN named
               PROVE  /\ Translated(p)' \in DOMAIN translated'
                      /\ translated'[Translated(p)'] \in DOMAIN named
                      /\ \A q \in DOMAIN named : translated'[Translated(p)'] = q => Translated(q)' = Translated(p)'
    BY <1>1 DEF TranslatedInv
  <2>1. Translated(p) \in DOMAIN last /\ last[Translated(p)] \in DOMAIN named
    BY <1>2
  <2> QED
    BY <1>2, <1>4, <2>1
<1> QED
  BY <1>3, <1>5 DEF NamesInv

LEMMA NamesStep == NamesInv /\ [NamesNext]_nameVars => NamesInv'
<1> SUFFICES ASSUME NamesInv, [NamesNext]_nameVars
             PROVE  NamesInv'
  OBVIOUS
<1>1. CASE UNCHANGED nameVars
  <2>1. UNCHANGED <<waiting, named, rounds, round, joins, keyword, translated>>
    BY <1>1 DEF nameVars, backend
  <2>2. KnownInv' /\ WaitingInv' /\ NamedInv'
    BY <2>1 DEF NamesInv, KnownInv, Known, WaitingInv, NamedInv, Later
  <2>3. \A p \in DOMAIN named : Translated(p)' = Translated(p)
    BY <2>1 DEF Translated, Replaced, Converted
  <2>4. TranslatedInv'
    BY <2>1, <2>3 DEF NamesInv, TranslatedInv
  <2> QED
    BY <2>2, <2>4 DEF NamesInv
<1> QED
  BY <1>1, RoundStep, TranslateStep DEF NamesNext

-----------------------------------------------------------------------------
(* Versions never share a name: one that is longer would have to begin at a  *)
(* level at which the other was alone with it.                               *)
LEMMA SharedByUnversioned ==
  ASSUME NamesInv, NEW p \in DOMAIN named, NEW q \in DOMAIN named, Shared(p, q)
  PROVE  rounds[p] # rounds[q] /\ (p.version = <<>> \/ q.version = <<>>)
<1>1. KnownInv /\ NamedInv
  BY DEF NamesInv
<1>2. p # q /\ named[p] = named[q]
  BY DEF Shared
<1>3. rounds[p] \in 0..3 /\ rounds[q] \in 0..3
      /\ named[p] = PackageWithLevel(p, rounds[p]) /\ named[q] = PackageWithLevel(q, rounds[q])
  BY <1>1 DEF NamedInv
<1>4. \A x, y \in DOMAIN named :
         x # y /\ rounds[y] >= rounds[x] => PackageWithLevel(y, rounds[x]) # named[x]
  BY <1>1 DEF NamedInv, Later
<1>5. rounds[p] # rounds[q]
  <2> SUFFICES ASSUME rounds[p] = rounds[q]
               PROVE  FALSE
    OBVIOUS
  <2>1. rounds[q] >= rounds[p]
    BY <1>3
  <2>2. PackageWithLevel(q, rounds[p]) # named[p]
    BY <1>2, <1>4, <2>1
  <2> QED
    BY <1>2, <1>3, <2>2, Zenon
<1>6. ASSUME NEW x \in DOMAIN named, NEW y \in DOMAIN named, x # y,
             x.version # <<>>, y.version # <<>>, named[x] = named[y],
             rounds[x] < rounds[y]
      PROVE  FALSE
  <2> DEFINE v == x.version[1]  w == y.version[1]
  <2>1. PICK k, l : k = rounds[x] /\ l = rounds[y]
    OBVIOUS
  <2>2. /\ x \in LoadedPackage /\ y \in LoadedPackage
        /\ k \in 0..3 /\ l \in 0..3 /\ k < l
        /\ named[x] = PackageWithLevel(x, k) /\ named[y] = PackageWithLevel(y, l)
    BY <1>1, <1>6, <2>1 DEF KnownInv, Known, NamedInv
  <2>3. v \in SemVersion /\ w \in SemVersion /\ x.path = y.path
        /\ VersionPackage(v, k) = VersionPackage(w, l)
    <3>1. PackageWithLevel(x, k) = PackageWithLevel(y, l)
      BY <1>6, <2>2, Zenon
    <3> QED
      BY <1>6, <2>2, <3>1, PathsTell
  <2> HIDE DEF v, w
  <2>4. Len(VersionPackage(v, k)) = Len(VersionPackage(w, l))
    BY <2>3
  <2>5. k = 2 /\ l = 3 /\ Len(w.pre) = 0
    <3>1. \/ k = 0 /\ l \in 1..3
          \/ k = 1 /\ l \in 2..3
          \/ k = 2 /\ l = 3
      BY <2>2
    <3> DEFINE length(u, i) == Len(VersionPackage(u, i))  n == Len(w.pre)
    <3>2. length(v, 0) = 2 /\ length(v, 1) = 3 /\ length(v, 2) = 4
      BY <2>3, VersionPackageLengths
    <3>3. length(w, 1) = 3 /\ length(w, 2) = 4 /\ length(w, 3) = 4 + n /\ n \in Nat
      BY <2>3, VersionPackageLengths
    <3>4. length(v, k) = length(w, l)
      BY <2>4
    <3> HIDE DEF length, n
    <3>5. l \in 1..3 => l = 1 \/ l = 2 \/ l = 3
      BY <2>2
    <3>6. k # 0
      BY <3>1, <3>2, <3>3, <3>4, <3>5
    <3>7. k # 1
      BY <3>1, <3>2, <3>3, <3>4, <3>5
    <3>8. k = 2 /\ l = 3
      BY <3>1, <3>6, <3>7
    <3>9. n = 0
      BY <3>2, <3>3, <3>4, <3>8
    <3> QED
      BY <3>8, <3>9 DEF n
  <2>6. w.pre = <<>>
    BY <2>3, <2>5, VersionPackageLengths, EmptySeq
  <2>7. VersionPackage(w, 3) = VersionPackage(w, 2)
    BY <2>3, <2>6, VersionPackages, CoreIsSeq, ConcatEmptySeq
  <2>8. PackageWithLevel(y, 2) = PackageWithLevel(y, 3)
    BY <2>7 DEF PackageWithLevel, w
  <2>9. PackageWithLevel(y, 2) # named[x]
    <3>1. rounds[x] = 2 /\ rounds[y] >= rounds[x]
      BY <2>1, <2>5
    <3> QED
      BY <1>4, <1>6, <3>1
  <2> QED
    BY <1>6, <2>2, <2>5, <2>8, <2>9
<1>7. rounds[p] < rounds[q] \/ rounds[q] < rounds[p]
  BY <1>3, <1>5
<1> QED
  BY <1>2, <1>5, <1>6, <1>7, Zenon

(* Without conventions and keywords a backend leaves names as they are.      *)
LEMMA PlainTranslation ==
  ASSUME NamesInv, NEW p \in DOMAIN named, ~joins, keyword = <<>>
  PROVE  Translated(p) = named[p]
<1>1. p \in LoadedPackage /\ named[p] = PackageWithLevel(p, rounds[p]) /\ rounds[p] \in 0..3
  BY DEF NamesInv, KnownInv, Known, NamedInv
<1>2. named[p] \in Seq(Seq(Identifier))
  <2>1. CASE p.version = <<>>
    BY <1>1, <2>1 DEF PackageWithLevel, LoadedPackage
  <2>2. CASE p.version # <<>>
    <3>1. p.version[1] \in SemVersion /\ p.path \in Seq(Seq(Identifier))
      BY <1>1, <2>2 DEF LoadedPackage
    <3>2. VersionPackage(p.version[1], rounds[p]) \in Seq(Identifier)
      BY <1>1, <3>1, VersionPackageLengths
    <3> QED
      BY <1>1, <2>2, <3>1, <3>2, AppendProperties DEF PackageWithLevel
  <2> QED
    BY <2>1, <2>2
<1>3. \A x : Replaced(Converted(x)) = x
  BY DEF Replaced, Converted
<1>4. Translated(p) = [i \in DOMAIN named[p] |-> named[p][i]]
  BY <1>3 DEF Translated
<1> QED
  BY <1>2, <1>4

(* Distinct, of every behaviour, for any packages, any backend and versions  *)
(* of any shape: packages share a name only when one has no version and is   *)
(* named like a version of the other, no file of a session takes the place   *)
(* of another unless naming or keywords make it, and no more of a version is *)
(* ever needed than its pre-release.                                         *)
THEOREM NamesDistinct == NamesSpec => []Distinct
<1>1. NamesInv => Distinct
  <2> SUFFICES ASSUME NamesInv
               PROVE  Distinct
    OBVIOUS
  <2>1. \A p \in DOMAIN waiting : waiting[p] <= 4
    BY DEF NamesInv, WaitingInv
  <2>2. \A p, q \in DOMAIN named :
           Shared(p, q) => rounds[p] # rounds[q] /\ (p.version = <<>> \/ q.version = <<>>)
    BY SharedByUnversioned
  <2>3. ASSUME translated # <<>>, NEW p \in Lost
        PROVE  \E q \in DOMAIN named \ Lost :
                  \/ Shared(p, q)
                  \/ Translated(p) = Translated(q) /\ (joins \/ keyword # <<>>)
    <3>1. p \in DOMAIN named /\ \A n \in DOMAIN translated : translated[n] # p
      BY DEF Lost
    <3>2. PICK n : n = Translated(p)
      OBVIOUS
    <3>3. PICK q : q = translated[n]
      OBVIOUS
    <3>4. n \in DOMAIN translated /\ q \in DOMAIN named /\ Translated(q) = n
      BY <2>3, <3>1, <3>2, <3>3 DEF NamesInv, TranslatedInv
    <3>5. q \in DOMAIN named \ Lost /\ q # p
      BY <3>1, <3>3, <3>4 DEF Lost
    <3>6. CASE joins \/ keyword # <<>>
      BY <3>2, <3>4, <3>5, <3>6
    <3>7. CASE ~joins /\ keyword = <<>>
      <4>1. named[p] = named[q]
        BY <3>1, <3>2, <3>4, <3>7, PlainTranslation
      <4> QED
        BY <3>5, <4>1 DEF Shared
    <3> QED
      BY <3>6, <3>7
  <2> QED
    BY <2>1, <2>2, <2>3 DEF Distinct
<1> QED
  BY NamesInitial, NamesStep, <1>1, PTL DEF NamesSpec
=============================================================================
