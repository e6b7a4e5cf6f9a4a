---------------------------- MODULE UpkeepProofs ----------------------------
(***************************************************************************)
(* Proofs about what is kept from one command to the next: git checkouts   *)
(* and the self-update, for any number of commands and releases, with      *)
(* calls of git failing and commands killed anywhere; the watcher, for any *)
(* project, however it is edited; the releases of a package, for any       *)
(* number of them, with any declarations; the OpenAPI document of any      *)
(* service; and the calls of any service, over any alphabet.               *)
(***************************************************************************)
EXTENDS GitCheckout, SelfUpdate, Watch, Semck, OpenApi, Services,
        WellFoundedInduction, TLAPS

-----------------------------------------------------------------------------
(* Git checkouts.                                                          *)

(* What is checked out, staged and committed are sets of releases, but for a *)
(* checkout that has no files yet; what is upstream goes by its number.      *)
Trees == SUBSET Release
Commits == 1..Len(origin)

GitTypeOK ==
    /\ origin \in Seq(Trees) /\ Len(origin) > 0 /\ local \in Seq(Trees)
    /\ tree \in Trees \cup {NoTree} /\ staged \in Trees
    /\ trunk \in 0..Len(origin) /\ fetchHead \in Commits
    /\ exists \in BOOLEAN /\ cut \in BOOLEAN
    /\ pc \in [User -> {"idle", "open", "init", "index", "fetch", "fetched", "reset", "checkout",
                         "put", "rename", "add", "commit"}]
    /\ command \in [User -> {"none", "resolve", "update", "publish"}]
    /\ setting \in [User -> BOOLEAN]
    /\ commit \in [User -> Commits] /\ since \in [User -> Commits]
    /\ list \in [User -> Trees \cup {NoTree}]
    /\ updated \in SUBSET User /\ stale \in SUBSET User

(* Where a command is tells what it is doing there. *)
Located(u) ==
    /\ setting[u] => pc[u] \in {"init", "fetch", "fetched", "reset", "checkout"}
    /\ pc[u] = "init" => setting[u]
    /\ pc[u] = "add" => tree # NoTree
    /\ u \in updated => pc[u] = "idle"

(* What an update fetches, and resets to, is not older than what was         *)
(* upstream when it started, nor than what others fetched, unless they       *)
(* overtook it.                                                              *)
Fresh(u) ==
    /\ pc[u] = "fetched" => since[u] <= commit[u]
    /\ u \notin stale => /\ pc[u] = "fetched" => fetchHead <= commit[u]
                         /\ pc[u] \in {"reset", "checkout"} => since[u] <= fetchHead
                         /\ pc[u] = "checkout" => since[u] <= commit[u]
                         /\ pc[u] = "rename" => list[u] # NoTree

(* What an update brought is there, and in all that others go on from.       *)
Brought(w) ==
    /\ tree # NoTree /\ Began(w) \subseteq tree
    /\ since[w] <= fetchHead
    /\ \A v \in User \ stale : /\ pc[v] = "rename" => Began(w) \subseteq list[v]
                               /\ pc[v] = "checkout" => since[w] <= commit[v]

Openable == exists /\ tree = NoTree => cut \/ \E u \in User : setting[u]

GitInv ==
    /\ GitTypeOK
    /\ \A u \in User : Located(u) /\ Fresh(u)
    /\ \A w \in updated : Brought(w)
    /\ Openable

-----------------------------------------------------------------------------
LEMMA GitInitial == GitInit => GitInv
<1> SUFFICES ASSUME GitInit
             PROVE  GitInv
  OBVIOUS
<1> USE DEF GitInit
<1>1. /\ <<{}>> \in Seq(Trees) /\ Len(<<{}>>) = 1 /\ <<>> \in Seq(Trees)
  BY DEF Trees
<1>2. {} \in Trees /\ 1 \in 1..1
  BY DEF Trees
<1>3. /\ origin \in Seq(Trees) /\ Len(origin) = 1 /\ local \in Seq(Trees)
      /\ tree \in Trees \cup {NoTree} /\ staged \in Trees
  BY <1>1, <1>2
<1>5. /\ commit \in [User -> 1..1] /\ since \in [User -> 1..1]
      /\ list \in [User -> Trees \cup {NoTree}] /\ fetchHead \in 1..1 /\ trunk \in 0..1
  BY <1>2
<1>6. GitTypeOK
  <2>1. /\ pc = [u \in User |-> "idle"] /\ command = [u \in User |-> "none"]
        /\ setting = [u \in User |-> FALSE] /\ updated = {} /\ stale = {}
        /\ exists = FALSE /\ cut = FALSE
    OBVIOUS
  <2> HIDE DEF GitInit
  <2>2. /\ trunk \in 0..Len(origin) /\ fetchHead \in 1..Len(origin) /\ Len(origin) > 0
        /\ commit \in [User -> 1..Len(origin)] /\ since \in [User -> 1..Len(origin)]
    BY <1>3, <1>5
  <2>3. /\ pc \in [User -> {"idle", "open", "init", "index", "fetch", "fetched", "reset", "checkout",
                            "put", "rename", "add", "commit"}]
        /\ command \in [User -> {"none", "resolve", "update", "publish"}]
        /\ setting \in [User -> BOOLEAN] /\ updated \in SUBSET User /\ stale \in SUBSET User
        /\ exists \in BOOLEAN /\ cut \in BOOLEAN
    BY <2>1
  <2> QED
    BY <1>3, <1>5, <2>2, <2>3 DEF GitTypeOK, Commits
<1>4. \A u \in User : Located(u) /\ Fresh(u)
  BY DEF Located, Fresh
<1> QED
  BY <1>4, <1>6 DEF GitInv, Openable

(* What has been upstream since an update started is in every later commit.  *)
LEMMA InEveryCommit ==
    ASSUME GitTypeOK, NEW w \in User, NEW c \in Commits, since[w] <= c
    PROVE  Began(w) \subseteq origin[c]
<1>1. c \in since[w]..Len(origin)
  BY DEF GitTypeOK, Commits
<1> QED
  BY <1>1 DEF Began

LEMMA AppendIsConcat ==
    ASSUME NEW S, NEW s \in Seq(S), NEW e \in S
    PROVE  Append(s, e) = s \o <<e>>
  OBVIOUS

LEMMA GrowingSeq ==
    ASSUME NEW S, NEW s \in Seq(S), NEW t \in Seq(S)
    PROVE  /\ s \o t \in Seq(S) /\ Len(s \o t) = Len(s) + Len(t)
           /\ \A i \in 1..Len(s) : (s \o t)[i] = s[i]
  OBVIOUS

(* When the index upstream grows nothing else that is known changes. *)
LEMMA GitGrows ==
    ASSUME GitInv, NEW t \in Seq(Trees), origin' = origin \o t, trunk' \in {trunk, Len(origin')},
           local' \in Seq(Trees),
           UNCHANGED <<exists, tree, staged, fetchHead, pc, ongoing, history>>
    PROVE  GitInv'
<1> USE DEF GitInv, ongoing, history
<1>1. /\ origin' \in Seq(Trees) /\ Len(origin') \in Nat /\ Len(origin) \in Nat
      /\ Len(origin) <= Len(origin') /\ \A i \in 1..Len(origin) : origin'[i] = origin[i]
  BY GrowingSeq DEF GitTypeOK
<1>2. GitTypeOK'
  BY <1>1 DEF GitTypeOK, Commits
<1>3. \A u \in User : Located(u)' /\ Fresh(u)'
  BY DEF Located, Fresh
<1>4. ASSUME NEW w \in User PROVE Began(w)' \subseteq Began(w)
  <2>1. since[w] \in 1..Len(origin)
    BY DEF GitTypeOK, Commits
  <2> QED
    BY <1>1, <2>1 DEF Began
<1>5. ASSUME NEW w \in updated PROVE Brought(w)'
  BY <1>4 DEF Brought, GitTypeOK
<1>6. Openable'
  BY DEF Openable
<1> QED
  BY <1>2, <1>3, <1>5, <1>6

(* What an update brought stays when the files hold it and nobody new goes   *)
(* on from anything.                                                         *)
LEMMA StaysBrought ==
    ASSUME NEW w, Brought(w), Began(w)' = Began(w), since'[w] = since[w], UNCHANGED fetchHead,
           tree' # NoTree, Began(w) \subseteq tree',
           \A v \in User : v \notin stale' =>
              /\ pc'[v] = "rename" => v \notin stale /\ pc[v] = "rename" /\ list'[v] = list[v]
              /\ pc'[v] = "checkout" => v \notin stale /\ pc[v] = "checkout" /\ commit'[v] = commit[v]
    PROVE  Brought(w)'
BY DEF Brought

LEMMA BroughtToAll ==
    ASSUME NEW w, Brought(w), NEW v \in User, v \notin stale
    PROVE  /\ pc[v] = "rename" => Began(w) \subseteq list[v]
           /\ pc[v] = "checkout" => since[w] <= commit[v]
<1>1. v \in User \ stale
  OBVIOUS
<1>2. \A x \in User \ stale : /\ pc[x] = "rename" => Began(w) \subseteq list[x]
                              /\ pc[x] = "checkout" => since[w] <= commit[x]
  BY Zenon DEF Brought
<1> QED
  BY <1>1, <1>2, Zenon

LEMMA GitStep == GitInv /\ [GitNext]_gitVars => GitInv'
<1> SUFFICES ASSUME GitInv, [GitNext]_gitVars
             PROVE  GitInv'
  OBVIOUS
<1> USE CheckoutAssumption
    DEF GitInv, Trees, Commits, checkout, ongoing, history, bounds, To, End, Continue, UsersAt
<1>1. ASSUME NEW u \in User, NEW c \in {"resolve", "update", "publish"}, Begin(u, c)
     PROVE  GitInv'
  <2> USE <1>1 DEF Begin
  <2>1. GitTypeOK'
    BY DEF GitTypeOK
  <2>2. \A v \in User : Located(v)'
    BY DEF GitTypeOK, Located
  <2>3. \A v \in User : Fresh(v)'
    BY DEF GitTypeOK, Located, Fresh
  <2>4. \A w \in updated' : Brought(w)'
    BY DEF GitTypeOK, Located, Fresh, Brought, Began
  <2>5. Openable'
    BY DEF GitTypeOK, Located, Openable
  <2> QED
    BY <2>1, <2>2, <2>3, <2>4, <2>5
<1>2. ASSUME NEW u \in User, WithRemote(u)
     PROVE  GitInv'
  <2> USE <1>2 DEF WithRemote
  <2>1. GitTypeOK'
    BY DEF GitTypeOK
  <2>2. \A v \in User : Located(v)'
    BY DEF GitTypeOK, Located
  <2>3. \A v \in User : Fresh(v)'
    BY DEF GitTypeOK, Located, Fresh
  <2>4. \A w \in updated' : Brought(w)'
    BY DEF GitTypeOK, Located, Fresh, Brought, Began
  <2>5. Openable'
    BY DEF GitTypeOK, Located, Openable
  <2> QED
    BY <2>1, <2>2, <2>3, <2>4, <2>5
<1>3. ASSUME NEW u \in User, Initialize(u)
     PROVE  GitInv'
  <2> USE <1>3 DEF Initialize
  <2>1. GitTypeOK'
    BY DEF GitTypeOK
  <2>2. \A v \in User : Located(v)'
    BY DEF GitTypeOK, Located
  <2>3. \A v \in User : Fresh(v)'
    BY DEF GitTypeOK, Located, Fresh
  <2>4. \A w \in updated' : Brought(w)'
    BY DEF GitTypeOK, Located, Fresh, Brought, Began
  <2>5. Openable'
    BY DEF GitTypeOK, Located, Openable
  <2> QED
    BY <2>1, <2>2, <2>3, <2>4, <2>5
<1>4. ASSUME NEW u \in User, OpenIndex(u)
     PROVE  GitInv'
  <2> USE <1>4 DEF OpenIndex
  <2>0. \A w \in updated' : Began(w)' = Began(w)
    BY DEF Began, GitTypeOK
  <2>1. GitTypeOK'
    <3>1. CASE End(u)
      BY <3>1 DEF GitTypeOK
    <3>2. ASSUME NEW l \in {"fetch", "put"}, Continue(u, l) PROVE GitTypeOK'
      BY <3>2 DEF GitTypeOK
    <3> QED
      BY <3>1, <3>2
  <2>2. \A v \in User : Located(v)'
    BY DEF GitTypeOK, Located
  <2>3. \A v \in User : Fresh(v)'
    BY DEF GitTypeOK, Located, Fresh
  <2>4. ASSUME NEW w \in updated' PROVE Brought(w)'
    <3>1. Brought(w) /\ tree # NoTree /\ Began(w) \subseteq tree
      BY DEF Brought
    <3>2. \A v \in User : /\ pc'[v] = "rename" => pc[v] = "rename" /\ list'[v] = list[v]
                          /\ pc'[v] = "checkout" => pc[v] = "checkout" /\ commit'[v] = commit[v]
      BY DEF GitTypeOK
    <3>3. stale' = stale /\ since' = since /\ tree' = tree /\ fetchHead' = fetchHead
      OBVIOUS
    <3>4. \A v \in User : v \notin stale' =>
             /\ pc'[v] = "rename" => v \notin stale /\ pc[v] = "rename" /\ list'[v] = list[v]
             /\ pc'[v] = "checkout" => v \notin stale /\ pc[v] = "checkout" /\ commit'[v] = commit[v]
      <4> HIDE <1>4
      <4> QED
        BY <3>2, <3>3
    <3>5. tree' # NoTree /\ Began(w) \subseteq tree' /\ Began(w)' = Began(w) /\ since'[w] = since[w]
      BY <2>0, <3>1, <3>3
    <3> QED
      BY <3>1, <3>3, <3>4, <3>5, StaysBrought
  <2>5. Openable'
    BY DEF GitTypeOK, Located, Openable
  <2> QED
    BY <2>1, <2>2, <2>3, <2>4, <2>5
<1>5. ASSUME NEW u \in User, Fetch(u)
     PROVE  GitInv'
  <2> USE <1>5 DEF Fetch
  <2>1. GitTypeOK'
    BY DEF GitTypeOK
  <2>2. \A v \in User : Located(v)'
    BY DEF GitTypeOK, Located
  <2>3. \A v \in User : Fresh(v)'
    BY DEF GitTypeOK, Located, Fresh
  <2>4. \A w \in updated' : Brought(w)'
    BY DEF GitTypeOK, Located, Fresh, Brought, Began
  <2>5. Openable'
    BY DEF GitTypeOK, Located, Openable
  <2> QED
    BY <2>1, <2>2, <2>3, <2>4, <2>5
<1>6. ASSUME NEW u \in User, Fetched(u)
     PROVE  GitInv'
  <2> USE <1>6 DEF Fetched
  <2>1. GitTypeOK'
    BY DEF GitTypeOK
  <2>2. \A v \in User : Located(v)'
    BY DEF GitTypeOK, Located
  <2>3. \A v \in User : Fresh(v)'
    BY DEF GitTypeOK, Located, Fresh
  <2>4. \A w \in updated' : Brought(w)'
    BY DEF GitTypeOK, Located, Fresh, Brought, Began
  <2>5. Openable'
    BY DEF GitTypeOK, Located, Openable
  <2> QED
    BY <2>1, <2>2, <2>3, <2>4, <2>5
<1>7. ASSUME NEW u \in User, Reset(u)
     PROVE  GitInv'
  <2> USE <1>7 DEF Reset, ResetTo
  <2>0. \A w \in updated' : Began(w)' = Began(w)
    BY DEF Began, GitTypeOK
  <2>1. GitTypeOK'
    <3>1. CASE End(u)
      BY <3>1 DEF GitTypeOK
    <3>2. CASE To(u, "checkout") /\ UNCHANGED <<command, setting, list, stale, cut>>
      BY <3>2 DEF GitTypeOK
    <3> QED
      BY <3>1, <3>2
  <2>2. \A v \in User : Located(v)'
    BY DEF GitTypeOK, Located
  <2>3. \A v \in User : Fresh(v)'
    BY DEF GitTypeOK, Fresh
  <2>4. ASSUME NEW w \in updated' PROVE Brought(w)'
    <3>1. Brought(w) /\ tree # NoTree /\ Began(w) \subseteq tree /\ since[w] <= fetchHead
      BY DEF Brought
    <3>2. ASSUME NEW v \in User, v \notin stale'
          PROVE  /\ pc'[v] = "rename" => Began(w) \subseteq list'[v]
                 /\ pc'[v] = "checkout" => since[w] <= commit'[v]
      <4>1. CASE v = u
        BY <3>1, <4>1 DEF GitTypeOK
      <4>2. CASE v # u
        <5>1. /\ pc'[v] = pc[v] /\ list'[v] = list[v] /\ commit'[v] = commit[v]
              /\ v \notin stale /\ w \in updated
          BY <3>2, <4>2 DEF GitTypeOK
        <5>2. Brought(w)
          BY <5>1
        <5>3. /\ pc[v] = "rename" => Began(w) \subseteq list[v]
              /\ pc[v] = "checkout" => since[w] <= commit[v]
          BY <5>1, <5>2, BroughtToAll
        <5> QED
          BY <5>1, <5>3
      <4> QED
        BY <4>1, <4>2
    <3> QED
      BY <2>0, <3>1, <3>2 DEF Brought
  <2>5. Openable'
    BY DEF GitTypeOK, Located, Openable
  <2> QED
    BY <2>1, <2>2, <2>3, <2>4, <2>5
<1>8. ASSUME NEW u \in User, Checkout(u)
     PROVE  GitInv'
  <2> USE <1>8 DEF Checkout, Overtaken
  <2>0. origin[commit[u]] \in Trees /\ \A w \in updated' : Began(w)' = Began(w)
    BY DEF GitTypeOK, Began
  <2>1. GitTypeOK'
    <3>1. /\ tree' \in Trees \cup {NoTree} /\ staged' \in Trees /\ local' \in Seq(Trees)
          /\ trunk' \in 0..Len(origin) /\ stale' \in SUBSET User /\ updated' \in SUBSET User
      <4>1. commit[u] \in 1..Len(origin) /\ Len(origin) \in Nat
        BY DEF GitTypeOK
      <4>2. <<>> \in Seq(Trees)
        OBVIOUS
      <4>3. stale \in SUBSET User /\ updated \in SUBSET User
        BY DEF GitTypeOK
      <4> QED
        BY <2>0, <4>1, <4>2, <4>3
    <3>2. CASE setting[u]
      BY <3>1, <3>2 DEF GitTypeOK
    <3>3. CASE ~setting[u]
      <4>1. End(u) /\ UNCHANGED <<origin, exists, fetchHead, since, cut>>
        BY <3>3
      <4> HIDE <1>8
      <4> QED
        BY <3>1, <4>1 DEF GitTypeOK
    <3> QED
      BY <3>2, <3>3 DEF GitTypeOK
  <2>2. \A v \in User : Located(v)'
    BY DEF GitTypeOK, Located
  <2>3. \A v \in User : Fresh(v)'
    BY DEF GitTypeOK, Located, Fresh
  <2>4. ASSUME NEW w \in updated' PROVE Brought(w)'
    <3>1. u \notin stale /\ w \in User /\ since[w] <= fetchHead /\ since[w] <= commit[u]
      BY DEF GitTypeOK, Fresh, Brought
    <3>2. Began(w) \subseteq origin[commit[u]]
      BY <3>1, InEveryCommit DEF GitTypeOK
    <3>3. tree' # NoTree /\ Began(w)' \subseteq tree'
      BY <2>0, <3>2
    <3>4. ASSUME NEW v \in User \ stale'
          PROVE  pc'[v] # "rename" /\ (pc'[v] = "checkout" => since'[w] <= commit'[v])
      BY <3>1, <3>4 DEF GitTypeOK
    <3> QED
      BY <3>1, <3>3, <3>4 DEF Brought
  <2>5. Openable'
    BY <2>0 DEF GitTypeOK, Openable
  <2> QED
    BY <2>1, <2>2, <2>3, <2>4, <2>5
<1>9. ASSUME NEW u \in User, NEW r \in Release, PutVersion(u, r)
     PROVE  GitInv'
  <2> USE <1>9 DEF PutVersion
  <2>0. \A w \in updated' : Began(w)' = Began(w)
    BY DEF Began, GitTypeOK
  <2>1. ASSUME NEW S \in Readings PROVE S \in Trees
    <3>1. CASE S = IF tree = NoTree THEN {} ELSE tree
      BY <3>1 DEF GitTypeOK
    <3>2. ASSUME NEW v \in User, S \in SUBSET origin[commit[v]] PROVE S \in Trees
      <4>1. origin[commit[v]] \in Trees
        BY DEF GitTypeOK
      <4> QED
        BY <3>2, <4>1
    <3> QED
      BY <3>1, <3>2 DEF Readings
  <2>2. CASE End(u) /\ UNCHANGED stale
    <3>1. GitTypeOK'
      BY <2>2 DEF GitTypeOK
    <3>2. \A v \in User : Located(v)' /\ Fresh(v)'
      BY <2>2 DEF GitTypeOK, Located, Fresh
    <3>3. \A w \in updated' : Brought(w)'
      BY <2>0, <2>2 DEF GitTypeOK, Brought
    <3>4. Openable'
      BY <2>2 DEF GitTypeOK, Located, Openable
    <3> QED
      BY <3>1, <3>2, <3>3, <3>4
  <2>3. ASSUME NEW S \in Readings, To(u, "rename"), UNCHANGED <<command, setting, commit>>,
               list' = [v \in User |->
                            IF v \notin UsersAt("rename") \cup {u} THEN list[v]
                            ELSE IF UsersAt("rename") = {} THEN S \cup {r} ELSE NoTree],
               stale' = IF UsersAt("rename") \cup UsersAt("checkout") = {} THEN stale
                        ELSE stale \cup UsersAt("rename") \cup {u}
        PROVE  GitInv'
    <3> HIDE <1>9
    <3>0. /\ UNCHANGED <<origin, exists, checkout, fetchHead, since, updated, cut, bounds>>
          /\ pc[u] = "put"
      BY <1>9
    <3>1. GitTypeOK'
      <4>1. list' \in [User -> Trees \cup {NoTree}]
        BY <2>1, <2>3 DEF GitTypeOK
      <4> QED
        BY <2>3, <3>0, <4>1 DEF GitTypeOK
    <3>2. \A v \in User : Located(v)'
      BY <2>3, <3>0 DEF GitTypeOK, Located
    <3>3. ASSUME NEW v \in User, v \notin stale', pc'[v] = "rename"
          PROVE  /\ list'[v] # NoTree
                 /\ \A w \in updated : Brought(w) => Began(w) \subseteq list'[v]
      <4>1. CASE v = u
        <5>1. UsersAt("rename") = {} /\ UsersAt("checkout") = {}
          BY <2>3, <3>3, <4>1
        <5>2. list'[v] = S \cup {r} /\ S = IF tree = NoTree THEN {} ELSE tree
          BY <2>3, <4>1, <5>1 DEF Readings
        <5> QED
          BY <2>1, <2>3, <5>2 DEF Brought
      <4>2. CASE v # u
        <5>1. v \in UsersAt("rename")
          BY <2>3, <3>3, <4>2 DEF GitTypeOK
        <5> QED
          BY <2>3, <3>3, <5>1
      <4> QED
        BY <4>1, <4>2
    <3>4. \A v \in User : Fresh(v)'
      BY <2>3, <3>0, <3>3 DEF GitTypeOK, Fresh
    <3>5. ASSUME NEW w \in updated' PROVE Brought(w)'
      <4>1. /\ w \in updated /\ Brought(w) /\ Began(w)' = Began(w) /\ since' = since
            /\ fetchHead' = fetchHead /\ tree' = tree
        BY <2>0, <3>0
      <4>2. ASSUME NEW v \in User, v \notin stale'
            PROVE  /\ pc'[v] = "rename" => Began(w) \subseteq list'[v]
                   /\ pc'[v] = "checkout" => since[w] <= commit'[v]
        <5>1. v \notin stale /\ commit' = commit /\ (pc'[v] = "checkout" => pc[v] = "checkout")
          BY <2>3, <3>0, <4>2 DEF GitTypeOK
        <5>2. pc[v] = "checkout" => since[w] <= commit[v]
          BY <4>1, <5>1, BroughtToAll
        <5>3. pc'[v] = "rename" => Began(w) \subseteq list'[v]
          BY <3>3, <4>1, <4>2
        <5> QED
          BY <5>1, <5>2, <5>3
      <4>3. tree # NoTree /\ Began(w) \subseteq tree /\ since[w] <= fetchHead
        BY <4>1 DEF Brought
      <4> QED
        BY <4>1, <4>2, <4>3 DEF Brought
    <3>6. Openable'
      BY <2>3, <3>0 DEF GitTypeOK, Openable
    <3> QED
      BY <3>1, <3>2, <3>4, <3>5, <3>6
  <2> QED
    BY <2>2, <2>3
<1>10. ASSUME NEW u \in User, Rename(u)
      PROVE  GitInv'
  <2> USE <1>10 DEF Rename
  <2>0. /\ list[u] \in Trees \cup {NoTree} /\ tree' \in Trees
        /\ u \in stale \/ tree' = list[u]
        /\ Continue(u, "add") \/ End(u)
        /\ \A w \in updated' : Began(w)' = Began(w)
    BY DEF GitTypeOK, Fresh, Began
  <2>1. GitTypeOK'
    <3>1. CASE Continue(u, "add")
      BY <2>0, <3>1 DEF GitTypeOK
    <3>2. CASE End(u)
      BY <2>0, <3>2 DEF GitTypeOK
    <3> QED
      BY <2>0, <3>1, <3>2
  <2>2. \A v \in User : Located(v)'
    BY <2>0 DEF GitTypeOK, Located
  <2>3. \A v \in User : Fresh(v)'
    BY <2>0 DEF GitTypeOK, Located, Fresh
  <2>4. ASSUME NEW w \in updated' PROVE Brought(w)'
    <3>1. u \notin stale /\ tree' = list[u] /\ w \in updated /\ Brought(w)
      BY <2>0 DEF GitTypeOK
    <3>2. \A v \in User : v \notin stale' =>
             /\ pc'[v] = "rename" => v \notin stale /\ pc[v] = "rename" /\ list'[v] = list[v]
             /\ pc'[v] = "checkout" => v \notin stale /\ pc[v] = "checkout" /\ commit'[v] = commit[v]
      <4>1. CASE Continue(u, "add")
        BY <4>1 DEF GitTypeOK
      <4>2. CASE End(u)
        BY <4>2 DEF GitTypeOK
      <4> QED
        BY <2>0, <4>1, <4>2
    <3>3. pc[u] = "rename" /\ tree' # NoTree /\ since' = since /\ fetchHead' = fetchHead
      BY <2>0
    <3>4. Began(w) \subseteq tree'
      <4>1. Began(w) \subseteq list[u]
        BY <3>1, <3>3, BroughtToAll
      <4> QED
        BY <3>1, <4>1
    <3> QED
      BY <2>0, <3>1, <3>2, <3>3, <3>4, StaysBrought
  <2>5. Openable'
    BY <2>0 DEF Openable
  <2> QED
    BY <2>1, <2>2, <2>3, <2>4, <2>5
<1>11. ASSUME NEW u \in User, Add(u)
     PROVE  GitInv'
  <2> USE <1>11 DEF Add
  <2>0. tree \in Trees
    BY DEF GitTypeOK, Located
  <2>1. GitTypeOK'
    BY <2>0 DEF GitTypeOK
  <2>2. \A v \in User : Located(v)'
    BY DEF GitTypeOK, Located
  <2>3. \A v \in User : Fresh(v)'
    BY DEF GitTypeOK, Located, Fresh
  <2>4. \A w \in updated' : Brought(w)'
    BY DEF GitTypeOK, Located, Fresh, Brought, Began
  <2>5. Openable'
    BY DEF GitTypeOK, Located, Openable
  <2> QED
    BY <2>1, <2>2, <2>3, <2>4, <2>5
<1>12. ASSUME NEW u \in User, Commit(u)
     PROVE  GitInv'
  <2> USE <1>12 DEF Commit
  <2>1. GitTypeOK'
    BY DEF GitTypeOK
  <2>2. \A v \in User : Located(v)'
    BY DEF GitTypeOK, Located
  <2>3. \A v \in User : Fresh(v)'
    BY DEF GitTypeOK, Located, Fresh
  <2>4. \A w \in updated' : Brought(w)'
    BY DEF GitTypeOK, Located, Fresh, Brought, Began
  <2>5. Openable'
    BY DEF GitTypeOK, Located, Openable
  <2> QED
    BY <2>1, <2>2, <2>3, <2>4, <2>5
<1>13. ASSUME NEW u \in User, Break(u)
     PROVE  GitInv'
  <2> USE <1>13 DEF Break
  <2>0. tree' \in Trees \cup {NoTree} /\ exists' \in BOOLEAN
    <3>1. origin[commit[u]] \in Trees /\ tree \in Trees \cup {NoTree}
      BY DEF GitTypeOK
    <3>2. exists \in BOOLEAN
      BY DEF GitTypeOK
    <3>3. exists' \in BOOLEAN
      BY <3>2
    <3> QED
      BY <3>1, <3>3
  <2>1. GitTypeOK'
    BY <2>0 DEF GitTypeOK
  <2>2. \A v \in User : Located(v)'
    BY DEF GitTypeOK, Located
  <2>3. \A v \in User : Fresh(v)'
    BY DEF GitTypeOK, Located, Fresh
  <2>4. \A w \in updated' : Brought(w)'
    BY DEF GitTypeOK, Located, Fresh, Brought, Began
  <2>5. Openable'
    <3>1. CASE setting[u]
      BY <3>1 DEF Openable
    <3>2. CASE ~setting[u] /\ UNCHANGED tree
      <4>1. exists' = exists /\ \A v \in User : setting[v] => setting'[v]
        BY <3>2 DEF GitTypeOK, Located
      <4> QED
        BY <3>2, <4>1 DEF Openable
    <3>3. CASE tree' \in SUBSET origin[commit[u]]
      BY <3>3 DEF Openable, GitTypeOK
    <3> QED
      BY <3>1, <3>2, <3>3
  <2> QED
    BY <2>1, <2>2, <2>3, <2>4, <2>5
<1>14. ASSUME NEW r \in Release, Upstream(r)
      PROVE  GitInv'
  <2>1. origin[Len(origin)] \cup {r} \in Trees
    BY DEF GitTypeOK
  <2>2. <<origin[Len(origin)] \cup {r}>> \in Seq(Trees)
    BY <2>1
  <2>3. origin' = origin \o <<origin[Len(origin)] \cup {r}>>
    <3>1. origin \in Seq(Trees) /\ origin' = Append(origin, origin[Len(origin)] \cup {r})
      BY <1>14 DEF Upstream, GitTypeOK
    <3> HIDE DEF Trees
    <3> QED
      BY <2>1, <3>1, AppendIsConcat
  <2>4. UNCHANGED <<exists, tree, staged, trunk, local, fetchHead, pc, ongoing, history>>
    BY <1>14 DEF Upstream
  <2> QED
    BY <2>2, <2>3, <2>4, GitGrows DEF GitTypeOK
<1>15. CASE Push
  <2>1. <<>> \in Seq(Trees) /\ local \in Seq(Trees)
    BY DEF GitTypeOK
  <2>2. /\ origin' = origin \o local /\ trunk' = Len(origin') /\ local' = <<>>
        /\ UNCHANGED <<exists, tree, staged, fetchHead, pc, ongoing, history>>
    BY <1>15 DEF Push
  <2> QED
    BY <2>1, <2>2, GitGrows
<1>16. CASE UNCHANGED gitVars
  BY <1>16 DEF gitVars, GitTypeOK, Located, Fresh, Brought, Began, Openable
<1> QED
  BY <1>1, <1>2, <1>3, <1>4, <1>5, <1>6, <1>7, <1>8, <1>9, <1>10, <1>11, <1>12, <1>13, <1>14, <1>15,
     <1>16 DEF GitNext, Step

(* Updated, of every behaviour and any number of commands: only a stale      *)
(* list, an overtaken fetch or reset, or a killed one spoils what an update  *)
(* brought, and only setting a checkout up leaves one without files          *)
(* (git_repo.rs:36 and 121, git_index.rs:47).                                *)
THEOREM NothingLost == GitSpec => []Updated
<1>1. GitInv => Updated
  BY DEF GitInv, Brought, Openable, Updated
<1> QED
  BY GitInitial, GitStep, <1>1, PTL DEF GitSpec

-----------------------------------------------------------------------------
(* The self-update.                                                        *)

UpdateTypeOK ==
    /\ server \subseteq Published
    /\ archived \in [Published -> {"none", "partial", "whole"}]
    /\ link \in Published \cup {NoVersion}
    /\ upc \in [Updater -> {"idle", "list", "check", "download", "copy", "unlink", "symlink"}]
    /\ candidate \in [Updater -> Published \cup {NoVersion}]
    /\ \A u \in Updater : upc[u] \notin {"idle", "list"} => candidate[u] \in Published

(* A version that may be linked: it is whole, or there is a reason that it   *)
(* is not.                                                                   *)
Accounted(v) ==
    \/ archived[v] = "whole" \/ v \in torn \cup hollow
    \/ \E u \in Updater : upc[u] = "copy" /\ candidate[u] = v

(* Whatever was unpacked at all is accounted for, so that a version that is  *)
(* there need not be downloaded again, and so is what is about to be linked. *)
UpdateInv ==
    /\ UpdateTypeOK
    /\ \A v \in Published : archived[v] # "none" => Accounted(v)
    /\ \A u \in Updater : upc[u] \in {"unlink", "symlink"} => Accounted(candidate[u])
    /\ link # NoVersion => Accounted(link)

-----------------------------------------------------------------------------
LEMMA UpdateInitial == UpdateInit => UpdateInv
BY UpdateAssumption DEF UpdateInit, UpdateInv, UpdateTypeOK, Accounted

LEMMA UpdateStep == UpdateInv /\ [UpdateNext]_updateVars => UpdateInv'
<1> SUFFICES ASSUME UpdateInv, [UpdateNext]_updateVars
             PROVE  UpdateInv'
  OBVIOUS
<1> USE UpdateAssumption DEF UpdateInv, disk, options
<1>1. ASSUME NEW u \in Updater, NEW v \in Published \cup {Installed},
             NEW f \in BOOLEAN, NEW p \in BOOLEAN, Invoke(u, v, f, p)
     PROVE  UpdateInv'
  <2> USE <1>1 DEF Invoke, Goto
  <2>1. UpdateTypeOK'
    BY DEF UpdateTypeOK
  <2>2. \A w \in Published : Accounted(w) => Accounted(w)'
    BY DEF UpdateTypeOK, Accounted
  <2>3. \A w \in Published : archived'[w] # "none" => Accounted(w)'
    BY <2>2 DEF UpdateTypeOK, Accounted
  <2>4. \A w \in Updater : upc'[w] \in {"unlink", "symlink"} => Accounted(candidate[w])'
    BY <2>2 DEF UpdateTypeOK, Accounted
  <2>5. link' # NoVersion => Accounted(link)'
    BY <2>2 DEF UpdateTypeOK, Accounted
  <2> QED
    BY <2>1, <2>3, <2>4, <2>5
<1>2. ASSUME NEW u \in Updater, NEW a \in Answer, Choose(u, a)
     PROVE  UpdateInv'
  <2> USE <1>2 DEF Choose, Goto, Newest, Allowed
  <2>1. UpdateTypeOK'
    BY DEF UpdateTypeOK
  <2>2. \A w \in Published : Accounted(w) => Accounted(w)'
    BY DEF UpdateTypeOK, Accounted
  <2>3. \A w \in Published : archived'[w] # "none" => Accounted(w)'
    BY <2>2 DEF UpdateTypeOK, Accounted
  <2>4. \A w \in Updater : upc'[w] \in {"unlink", "symlink"} => Accounted(candidate[w])'
    BY <2>2 DEF UpdateTypeOK, Accounted
  <2>5. link' # NoVersion => Accounted(link)'
    BY <2>2 DEF UpdateTypeOK, Accounted
  <2> QED
    BY <2>1, <2>3, <2>4, <2>5
<1>3. ASSUME NEW u \in Updater, CheckArchived(u)
     PROVE  UpdateInv'
  <2> USE <1>3 DEF CheckArchived, Goto
  <2>1. UpdateTypeOK'
    BY DEF UpdateTypeOK
  <2>2. \A w \in Published : Accounted(w) => Accounted(w)'
    BY DEF UpdateTypeOK, Accounted
  <2>3. \A w \in Published : archived'[w] # "none" => Accounted(w)'
    BY <2>2 DEF UpdateTypeOK, Accounted
  <2>4. \A w \in Updater : upc'[w] \in {"unlink", "symlink"} => Accounted(candidate[w])'
    BY <2>2 DEF UpdateTypeOK, Accounted
  <2>5. link' # NoVersion => Accounted(link)'
    BY <2>2 DEF UpdateTypeOK, Accounted
  <2> QED
    BY <2>1, <2>3, <2>4, <2>5
<1>4. ASSUME NEW u \in Updater, NEW a \in Answer, NEW e \in BOOLEAN,
             Download(u, a, e)
     PROVE  UpdateInv'
  <2> USE <1>4 DEF Download, Goto
  <2>1. UpdateTypeOK'
    BY DEF UpdateTypeOK
  <2>2. \A w \in Published : Accounted(w) => Accounted(w)'
    BY DEF UpdateTypeOK, Accounted
  <2>3. \A w \in Published : archived'[w] # "none" => Accounted(w)'
    BY <2>2 DEF UpdateTypeOK, Accounted
  <2>4. \A w \in Updater : upc'[w] \in {"unlink", "symlink"} => Accounted(candidate[w])'
    BY <2>2 DEF UpdateTypeOK, Accounted
  <2>5. link' # NoVersion => Accounted(link)'
    BY <2>2 DEF UpdateTypeOK, Accounted
  <2> QED
    BY <2>1, <2>3, <2>4, <2>5
<1>5. ASSUME NEW u \in Updater, Copy(u)
     PROVE  UpdateInv'
  <2> USE <1>5 DEF Copy, Goto
  <2>1. UpdateTypeOK'
    BY DEF UpdateTypeOK
  <2>2. \A w \in Published : Accounted(w) => Accounted(w)'
    BY DEF UpdateTypeOK, Accounted
  <2>3. \A w \in Published : archived'[w] # "none" => Accounted(w)'
    BY <2>2 DEF UpdateTypeOK, Accounted
  <2>4. \A w \in Updater : upc'[w] \in {"unlink", "symlink"} => Accounted(candidate[w])'
    BY <2>2 DEF UpdateTypeOK, Accounted
  <2>5. link' # NoVersion => Accounted(link)'
    BY <2>2 DEF UpdateTypeOK, Accounted
  <2> QED
    BY <2>1, <2>3, <2>4, <2>5
<1>6. ASSUME NEW u \in Updater, Unlink(u)
     PROVE  UpdateInv'
  <2> USE <1>6 DEF Unlink, Goto
  <2>1. UpdateTypeOK'
    BY DEF UpdateTypeOK
  <2>2. \A w \in Published : Accounted(w) => Accounted(w)'
    BY DEF UpdateTypeOK, Accounted
  <2>3. \A w \in Published : archived'[w] # "none" => Accounted(w)'
    BY <2>2 DEF UpdateTypeOK, Accounted
  <2>4. \A w \in Updater : upc'[w] \in {"unlink", "symlink"} => Accounted(candidate[w])'
    BY <2>2 DEF UpdateTypeOK, Accounted
  <2>5. link' # NoVersion => Accounted(link)'
    BY <2>2 DEF UpdateTypeOK, Accounted
  <2> QED
    BY <2>1, <2>3, <2>4, <2>5
<1>7. ASSUME NEW u \in Updater, Symlink(u)
     PROVE  UpdateInv'
  <2> USE <1>7 DEF Symlink, Goto
  <2>1. UpdateTypeOK'
    BY DEF UpdateTypeOK
  <2>2. \A w \in Published : Accounted(w) => Accounted(w)'
    BY DEF UpdateTypeOK, Accounted
  <2>3. \A w \in Published : archived'[w] # "none" => Accounted(w)'
    BY <2>2 DEF UpdateTypeOK, Accounted
  <2>4. \A w \in Updater : upc'[w] \in {"unlink", "symlink"} => Accounted(candidate[w])'
    BY <2>2 DEF UpdateTypeOK, Accounted
  <2>5. link' # NoVersion => Accounted(link)'
    BY <2>2 DEF UpdateTypeOK, Accounted
  <2> QED
    BY <2>1, <2>3, <2>4, <2>5
<1>8. ASSUME NEW u \in Updater, Crash(u)
     PROVE  UpdateInv'
  <2> USE <1>8 DEF Crash, Goto
  <2>1. UpdateTypeOK'
    BY DEF UpdateTypeOK
  <2>2. \A w \in Published : Accounted(w) => Accounted(w)'
    BY DEF UpdateTypeOK, Accounted
  <2>3. \A w \in Published : archived'[w] # "none" => Accounted(w)'
    BY <2>2 DEF UpdateTypeOK, Accounted
  <2>4. \A w \in Updater : upc'[w] \in {"unlink", "symlink"} => Accounted(candidate[w])'
    BY <2>2 DEF UpdateTypeOK, Accounted
  <2>5. link' # NoVersion => Accounted(link)'
    BY <2>2 DEF UpdateTypeOK, Accounted
  <2> QED
    BY <2>1, <2>3, <2>4, <2>5
<1>9. ASSUME NEW v \in Published, Publication(v)
     PROVE  UpdateInv'
  <2> USE <1>9 DEF Publication
  <2>1. UpdateTypeOK'
    BY DEF UpdateTypeOK
  <2>2. \A w \in Published : Accounted(w) => Accounted(w)'
    BY DEF UpdateTypeOK, Accounted
  <2>3. \A w \in Published : archived'[w] # "none" => Accounted(w)'
    BY <2>2 DEF UpdateTypeOK, Accounted
  <2>4. \A w \in Updater : upc'[w] \in {"unlink", "symlink"} => Accounted(candidate[w])'
    BY <2>2 DEF UpdateTypeOK, Accounted
  <2>5. link' # NoVersion => Accounted(link)'
    BY <2>2 DEF UpdateTypeOK, Accounted
  <2> QED
    BY <2>1, <2>3, <2>4, <2>5
<1>10. CASE UNCHANGED updateVars
  BY <1>10 DEF updateVars, UpdateTypeOK, Accounted
<1> QED
  BY <1>1, <1>2, <1>3, <1>4, <1>5, <1>6, <1>7, <1>8, <1>9, <1>10 DEF UpdateNext

(* Linked, of every behaviour: whichever commands run at the same time and   *)
(* die, a link to a binary that is not whole is one to a version whose       *)
(* unpacking failed, is under way, or had nothing to unpack.                 *)
THEOREM LinkHolds == UpdateSpec => []Linked
<1>1. UpdateInv => Linked
  BY DEF UpdateInv, Accounted, Linked
<1> QED
  BY UpdateInitial, UpdateStep, <1>1, PTL DEF UpdateSpec

-----------------------------------------------------------------------------
(* The watcher.                                                            *)

(* An edit since the build that is running, or the last one, was heard of,   *)
(* or there was no telling; when the command waits it may also have been     *)
(* dropped, as one that does not count.                                      *)
Heard ==
    /\ project \in Project /\ edited \subseteq DOMAIN ParentOf
    /\ phase = "update" => edited \subseteq silent \cup queue
    /\ phase = "wait" => edited \subseteq silent \cup queue \cup (DOMAIN ParentOf \ watching)

(* The command knows of everything it wrote: what it has forgotten it has    *)
(* deleted.                                                                  *)
Tracked ==
    /\ written = recent
    /\ deleting => output \subseteq files \cup written \cup inherited

WatchInv == Heard /\ Tracked /\ Swept

-----------------------------------------------------------------------------
LEMMA WatchInitial == WatchInit => WatchInv
BY DEF WatchInit, WatchInv, Heard, Tracked, Swept

LEMMA WatchStep == WatchInv /\ [WatchNext]_watchVars => WatchInv'
<1> SUFFICES ASSUME WatchInv, [WatchNext]_watchVars
             PROVE  WatchInv'
  OBVIOUS
<1> USE WatchAssumption DEF WatchInv, outputs, listening, edition
<1>1. CASE Start
  <2> USE <1>1 DEF Start
  <2>1. Heard'
    BY DEF Heard
  <2>2. Tracked'
    BY DEF Tracked
  <2>3. Swept'
    BY DEF Swept
  <2> QED
    BY <2>1, <2>2, <2>3
<1>2. ASSUME NEW next \in Project, NEW path \in DOMAIN ParentOf, Edit(next, path)
     PROVE  WatchInv'
  <2> USE <1>2 DEF Edit
  <2>1. Heard'
    BY DEF Heard
  <2>2. Tracked'
    BY DEF Tracked
  <2>3. Swept'
    BY DEF Swept
  <2> QED
    BY <2>1, <2>2, <2>3
<1>3. CASE Load
  <2> USE <1>3 DEF Load
  <2>1. Heard'
    BY DEF Heard
  <2>2. Tracked'
    BY DEF Tracked
  <2>3. Swept'
    BY DEF Swept
  <2> QED
    BY <2>1, <2>2, <2>3
<1>4. CASE Update
  <2> USE <1>4 DEF Update
  <2>1. Heard'
    BY DEF Heard, Sweep, Rewatch
  <2>2. Tracked'
    BY DEF Tracked, Sweep
  <2>3. Swept'
    BY DEF Swept, Tracked, Sweep
  <2> QED
    BY <2>1, <2>2, <2>3
<1>5. ASSUME NEW p \in DOMAIN ParentOf, Wake(p)
     PROVE  WatchInv'
  <2> USE <1>5 DEF Wake
  <2>1. Heard'
    BY DEF Heard
  <2>2. Tracked'
    BY DEF Tracked
  <2>3. Swept'
    BY DEF Swept
  <2> QED
    BY <2>1, <2>2, <2>3
<1>6. ASSUME NEW p \in DOMAIN ParentOf, Ignore(p)
     PROVE  WatchInv'
  <2> USE <1>6 DEF Ignore
  <2>1. Heard'
    BY DEF Heard
  <2>2. Tracked'
    BY DEF Tracked
  <2>3. Swept'
    BY DEF Swept
  <2> QED
    BY <2>1, <2>2, <2>3
<1>7. CASE Stop
  <2> USE <1>7 DEF Stop
  <2>1. Heard'
    BY DEF Heard
  <2>2. Tracked'
    BY DEF Tracked
  <2>3. Swept'
    BY DEF Swept
  <2> QED
    BY <2>1, <2>2, <2>3
<1>8. CASE UNCHANGED watchVars
  BY <1>8 DEF watchVars, Heard, Tracked, Swept
<1> QED
  BY <1>1, <1>2, <1>3, <1>4, <1>5, <1>6, <1>7, <1>8 DEF WatchNext

(* Swept, of every behaviour: nothing older than the last failed builds is   *)
(* left behind, and nothing that belongs there is deleted.                   *)
THEOREM SweepsAll == WatchSpec => []Swept
<1>1. WatchInv => Swept
  BY DEF WatchInv
<1> QED
  BY WatchInitial, WatchStep, <1>1, PTL DEF WatchSpec

(* Noticed, of every behaviour: no edit that was heard of is slept over.     *)
THEOREM NoticesAll == WatchSpec => []Noticed
<1>1. WatchInv => Noticed
  BY DEF WatchInv, Heard, Noticed
<1> QED
  BY WatchInitial, WatchStep, <1>1, PTL DEF WatchSpec

-----------------------------------------------------------------------------
(* Releases.                                                               *)

(* What the checker finds nothing wrong with, as relations.                  *)
SameOf(s, t, what) == \A x \in Idents(s) : Of(s, x)[what] = Of(t, x)[what]
Extends(a, b) ==
    /\ Idents(a.fields) \subseteq Idents(b.fields)
    /\ SameOf(a.fields, b.fields, "type") /\ SameOf(a.fields, b.fields, "name")
    /\ \A x \in Idents(a.fields) : Of(b.fields, x).required => Of(a.fields, x).required
    /\ \A x \in Idents(b.fields) \ Idents(a.fields) : ~Of(b.fields, x).required
    /\ Idents(a.variants) \subseteq Idents(b.variants)
    /\ SameOf(a.variants, b.variants, "value")
    /\ Idents(a.endpoints) \subseteq Idents(b.endpoints)
    /\ SameOf(a.endpoints, b.endpoints, "response")
Repeats(a, b) ==
    /\ Extends(a, b)
    /\ Idents(a.fields) = Idents(b.fields) /\ SameOf(a.fields, b.fields, "required")
    /\ Idents(a.variants) = Idents(b.variants)
    /\ Idents(a.endpoints) = Idents(b.endpoints)

Grows(from, to) ==
    DOMAIN from \subseteq DOMAIN to /\ \A n \in DOMAIN from : Extends(from[n], to[n])
Stays(from, to) ==
    DOMAIN from = DOMAIN to /\ \A n \in DOMAIN from : Repeats(from[n], to[n])

(* What the check reports nothing about.                                     *)
LEMMA NothingReported ==
  ASSUME NEW violation, NEW component, NEW where, Report(violation, component, where) = {}
  PROVE  where = {}
BY DEF Report

LEMMA NothingChanged ==
  ASSUME NEW s, NEW t, NEW what, Removed(s, t) = {}, Changed(s, t, what) = {}
  PROVE  Idents(s) \subseteq Idents(t) /\ SameOf(s, t, what)
BY DEF Removed, Changed, SameOf

LEMMA CommonMeans ==
  ASSUME NEW a, NEW b, NEW c, CheckCommon(c, a, b) = {}
  PROVE  /\ Idents(a.fields) \subseteq Idents(b.fields)
         /\ SameOf(a.fields, b.fields, "type") /\ SameOf(a.fields, b.fields, "name")
         /\ Idents(a.variants) \subseteq Idents(b.variants)
         /\ SameOf(a.variants, b.variants, "value")
         /\ Idents(a.endpoints) \subseteq Idents(b.endpoints)
         /\ SameOf(a.endpoints, b.endpoints, "response")
<1>1. /\ Report("RemoveField", c, Removed(a.fields, b.fields)) = {}
      /\ Report("FieldTypeChange", c, Changed(a.fields, b.fields, "type")) = {}
      /\ Report("FieldNameChange", c, Changed(a.fields, b.fields, "name")) = {}
      /\ Report("RemoveVariant", c, Removed(a.variants, b.variants)) = {}
      /\ Report("VariantOrdinalChange", c, Changed(a.variants, b.variants, "value")) = {}
      /\ Report("RemoveEndpoint", c, Removed(a.endpoints, b.endpoints)) = {}
      /\ Report("EndpointResponseChange", c, Changed(a.endpoints, b.endpoints, "response")) = {}
  BY DEF CheckCommon
<1>2. /\ Removed(a.fields, b.fields) = {}
      /\ Changed(a.fields, b.fields, "type") = {} /\ Changed(a.fields, b.fields, "name") = {}
      /\ Removed(a.variants, b.variants) = {} /\ Changed(a.variants, b.variants, "value") = {}
      /\ Removed(a.endpoints, b.endpoints) = {} /\ Changed(a.endpoints, b.endpoints, "response") = {}
  BY <1>1, NothingReported
<1> QED
  BY <1>2, NothingChanged

(* A declaration that check_minor passes extends the one before it, and one  *)
(* that check_patch passes repeats it.                                       *)
LEMMA MinorMeans ==
  ASSUME NEW a, NEW b, MinorDecl(a, b) = {}
  PROVE  Extends(a, b)
<1>1. /\ CheckCommon("minor", a, b) = {}
      /\ Report("AddRequiredField", "minor",
                {x \in Added(a.fields, b.fields) : Of(b.fields, x).required}) = {}
      /\ Report("FieldRequiredChange", "minor", BecomesRequired(a.fields, b.fields)) = {}
  BY DEF MinorDecl
<1>2. /\ {x \in Added(a.fields, b.fields) : Of(b.fields, x).required} = {}
      /\ BecomesRequired(a.fields, b.fields) = {}
  BY <1>1, NothingReported
<1>3. Idents(a.fields) \subseteq Idents(b.fields)
  BY <1>1, CommonMeans
<1>4. \A x \in Idents(a.fields) : Of(b.fields, x).required => Of(a.fields, x).required
  BY <1>2, <1>3 DEF BecomesRequired
<1>5. \A x \in Idents(b.fields) \ Idents(a.fields) : ~Of(b.fields, x).required
  BY <1>2 DEF Added
<1> QED
  BY <1>1, <1>4, <1>5, CommonMeans DEF Extends

LEMMA PatchMeans ==
  ASSUME NEW a, NEW b, PatchDecl(a, b) = {}
  PROVE  Repeats(a, b)
<1>1. /\ CheckCommon("patch", a, b) = {}
      /\ Report("AddField", "patch", Added(a.fields, b.fields)) = {}
      /\ Report("AddVariant", "patch", Added(a.variants, b.variants)) = {}
      /\ Report("AddEndpoint", "patch", Added(a.endpoints, b.endpoints)) = {}
      /\ Report("FieldModifierChange", "patch", Changed(a.fields, b.fields, "required")) = {}
  BY DEF PatchDecl
<1>2. /\ Added(a.fields, b.fields) = {} /\ Added(a.variants, b.variants) = {}
      /\ Added(a.endpoints, b.endpoints) = {} /\ Changed(a.fields, b.fields, "required") = {}
  BY <1>1, NothingReported
<1>3. /\ Idents(a.fields) = Idents(b.fields) /\ Idents(a.variants) = Idents(b.variants)
      /\ Idents(a.endpoints) = Idents(b.endpoints)
  BY <1>1, <1>2, CommonMeans DEF Added
<1>4. SameOf(a.fields, b.fields, "required")
  BY <1>2, <1>3 DEF Changed, SameOf
<1>5. Extends(a, b)
  BY <1>1, <1>3, <1>4, CommonMeans DEF Extends, SameOf
<1> QED
  BY <1>3, <1>4, <1>5 DEF Repeats

LEMMA CheckedMinor ==
  ASSUME NEW from, NEW to, CheckMinor(from, to) = {}
  PROVE  Grows(from, to)
<1>1. Report("DeclRemoved", "minor", DOMAIN from \ DOMAIN to) = {}
      /\ UNION {MinorDecl(from[n], to[n]) : n \in Kept(from, to)} = {}
  BY DEF CheckMinor, DeclsRemoved
<1>2. DOMAIN from \ DOMAIN to = {}
  BY <1>1, NothingReported
<1>3. \A n \in Kept(from, to) : MinorDecl(from[n], to[n]) = {}
  BY <1>1
<1> QED
  BY <1>2, <1>3, MinorMeans DEF Kept, Grows

LEMMA CheckedPatch ==
  ASSUME NEW from, NEW to, CheckPatch(from, to) = {}
  PROVE  Stays(from, to)
<1>1. /\ Report("DeclRemoved", "patch", DOMAIN from \ DOMAIN to) = {}
      /\ Report("DeclAdded", "patch", DOMAIN to \ DOMAIN from) = {}
      /\ UNION {PatchDecl(from[n], to[n]) : n \in Kept(from, to)} = {}
  BY DEF CheckPatch, DeclsRemoved
<1>2. DOMAIN from \ DOMAIN to = {} /\ DOMAIN to \ DOMAIN from = {}
  BY <1>1, NothingReported
<1>3. \A n \in Kept(from, to) : PatchDecl(from[n], to[n]) = {}
  BY <1>1
<1> QED
  BY <1>2, <1>3, PatchMeans DEF Kept, Stays

-----------------------------------------------------------------------------
(* They are orders: what is extended again is extended.                      *)
LEMMA SameOfChain ==
  ASSUME NEW s, NEW t, NEW u, NEW what, Idents(s) \subseteq Idents(t),
         SameOf(s, t, what), SameOf(t, u, what)
  PROVE  SameOf(s, u, what)
BY DEF SameOf

(* Both relations are transitive, so that it is enough to compare a release  *)
(* with its predecessor.                                                     *)
LEMMA ExtendsChain ==
  ASSUME NEW a, NEW b, NEW c, Extends(a, b), Extends(b, c)
  PROVE  Extends(a, c)
<1>1. /\ SameOf(a.fields, c.fields, "type") /\ SameOf(a.fields, c.fields, "name")
      /\ SameOf(a.variants, c.variants, "value") /\ SameOf(a.endpoints, c.endpoints, "response")
  BY SameOfChain DEF Extends
<1>2. /\ Idents(a.fields) \subseteq Idents(b.fields) /\ Idents(b.fields) \subseteq Idents(c.fields)
      /\ Idents(a.variants) \subseteq Idents(c.variants)
      /\ Idents(a.endpoints) \subseteq Idents(c.endpoints)
  BY DEF Extends
<1>3. \A x \in Idents(a.fields) : Of(c.fields, x).required => Of(a.fields, x).required
  BY <1>2 DEF Extends
<1>4. \A x \in Idents(c.fields) \ Idents(a.fields) : ~Of(c.fields, x).required
  BY <1>2 DEF Extends
<1> QED
  BY <1>1, <1>2, <1>3, <1>4 DEF Extends

LEMMA RepeatsChain ==
  ASSUME NEW a, NEW b, NEW c, Repeats(a, b), Repeats(b, c)
  PROVE  Repeats(a, c)
BY ExtendsChain, SameOfChain DEF Repeats

LEMMA RepeatsBack ==
  ASSUME NEW a, NEW b, Repeats(a, b)
  PROVE  Extends(b, a)
BY DEF Repeats, Extends, SameOf

LEMMA GrowsChain ==
  ASSUME NEW r, NEW s, NEW t, Grows(r, s), Grows(s, t)
  PROVE  Grows(r, t)
BY ExtendsChain DEF Grows

LEMMA StaysChain ==
  ASSUME NEW r, NEW s, NEW t, Stays(r, s), Stays(s, t)
  PROVE  Stays(r, t)
BY RepeatsChain DEF Stays

LEMMA StaysGrows ==
  ASSUME NEW s, NEW t, Stays(s, t)
  PROVE  Grows(s, t) /\ Grows(t, s)
BY RepeatsBack DEF Stays, Grows, Repeats

LEMMA GrowsSelf ==
  ASSUME NEW s
  PROVE  Grows(s, s) /\ Stays(s, s)
BY DEF Grows, Stays, Repeats, Extends, SameOf

-----------------------------------------------------------------------------
(* What extends a declaration, and keeps what the checker does not look at,  *)
(* understands what is sent by it.                                           *)
LEMMA OfIdent ==
  ASSUME NEW s, Unique(s, "ident"), NEW i \in DOMAIN s
  PROVE  s[i].ident \in Idents(s) /\ Of(s, s[i].ident) = s[i]
<1>1. \A j \in DOMAIN s : s[j].ident = s[i].ident => j = i
  BY DEF Unique
<1>2. (CHOOSE j \in DOMAIN s : s[j].ident = s[i].ident) = i
  BY <1>1
<1> QED
  BY <1>2 DEF Of, Idents

LEMMA KeptField ==
  ASSUME NEW s, NEW t, Unique(s, "ident"), Unique(t, "ident"),
         Idents(s) \subseteq Idents(t), NEW i \in DOMAIN s
  PROVE  \E j \in DOMAIN t :
            /\ t[j].ident = s[i].ident /\ s[i].ident \in Idents(s)
            /\ Of(s, s[i].ident) = s[i] /\ Of(t, s[i].ident) = t[j]
<1>1. s[i].ident \in Idents(s) /\ Of(s, s[i].ident) = s[i]
  BY OfIdent
<1>2. PICK j \in DOMAIN t : t[j].ident = s[i].ident
  BY <1>1 DEF Idents
<1>3. Of(t, s[i].ident) = t[j]
  BY <1>2, OfIdent
<1> QED
  BY <1>1, <1>2, <1>3

LEMMA NamedIs ==
  ASSUME NEW d, Unique(d.fields, "name"), NEW i \in DOMAIN d.fields
  PROVE  d.fields[i].name \in Names(d) /\ Named(d, d.fields[i].name) = d.fields[i]
<1>1. \A j \in DOMAIN d.fields : d.fields[j].name = d.fields[i].name => j = i
  BY DEF Unique
<1>2. (CHOOSE j \in DOMAIN d.fields : d.fields[j].name = d.fields[i].name) = i
  BY <1>1
<1> QED
  BY <1>2 DEF Names, Named

(* An object: a name is that of one field, and so of the one it is extended  *)
(* by; what is required there was required before.                           *)
LEMMA ObjectsUnderstood ==
  ASSUME NEW a, NEW b, WellFormed(a), WellFormed(b), Extends(a, b),
         IsObject(a), a.kind = b.kind, a.key = b.key, NEW x \in Objects(a)
  PROVE  Understands(b, x)
<1>1. PICK N \in {M \in SUBSET Names(a) : RequiredNames(a) \subseteq M} :
        x = [shape |-> "object", key |-> a.key, members |-> [n \in N |-> Named(a, n).type]]
  BY DEF Objects
<1>2. N \subseteq Names(a) /\ RequiredNames(a) \subseteq N
  BY <1>1
<1>3. /\ x.shape = "object" /\ x.key = a.key /\ DOMAIN x.members = N
      /\ \A n \in N : x.members[n] = Named(a, n).type
  BY <1>1
<1>4. /\ Unique(a.fields, "ident") /\ Unique(a.fields, "name")
      /\ Unique(b.fields, "ident") /\ Unique(b.fields, "name")
  BY DEF WellFormed
<1>5. /\ Idents(a.fields) \subseteq Idents(b.fields)
      /\ SameOf(a.fields, b.fields, "type") /\ SameOf(a.fields, b.fields, "name")
  BY DEF Extends
<1>6. ASSUME NEW n \in RequiredNames(b)
      PROVE  n \in N
  <2>1. n \in Names(b) /\ Named(b, n).required
    BY <1>6 DEF RequiredNames
  <2>2. PICK j \in DOMAIN b.fields : b.fields[j].name = n
    BY <2>1 DEF Names
  <2>3. b.fields[j].required
    BY <1>4, <2>1, <2>2, NamedIs
  <2>4. b.fields[j].ident \in Idents(b.fields) /\ Of(b.fields, b.fields[j].ident) = b.fields[j]
    BY <1>4, OfIdent
  <2>5. b.fields[j].ident \in Idents(a.fields)
    BY <2>3, <2>4 DEF Extends
  <2>6. PICK i \in DOMAIN a.fields : a.fields[i].ident = b.fields[j].ident
    BY <2>5 DEF Idents
  <2>7. Of(a.fields, b.fields[j].ident) = a.fields[i]
    BY <1>4, <2>6, OfIdent
  <2>8. a.fields[i].required
    BY <2>3, <2>4, <2>5, <2>7 DEF Extends
  <2>9. a.fields[i].name = n
    BY <1>5, <2>2, <2>4, <2>5, <2>7 DEF SameOf
  <2>10. n \in RequiredNames(a)
    BY <1>4, <2>8, <2>9, NamedIs DEF RequiredNames
  <2> QED
    BY <1>2, <2>10
<1>7. ASSUME NEW n \in Names(b) \cap N
      PROVE  x.members[n] = Named(b, n).type
  <2>1. PICK i \in DOMAIN a.fields : a.fields[i].name = n
    BY <1>2, <1>7 DEF Names
  <2>2. PICK j \in DOMAIN b.fields :
           /\ a.fields[i].ident \in Idents(a.fields)
           /\ Of(a.fields, a.fields[i].ident) = a.fields[i]
           /\ Of(b.fields, a.fields[i].ident) = b.fields[j]
    BY <1>4, <1>5, KeptField
  <2>3. a.fields[i]["type"] = b.fields[j]["type"] /\ a.fields[i]["name"] = b.fields[j]["name"]
    BY <1>5, <2>2 DEF SameOf
  <2>4. Named(a, n) = a.fields[i] /\ Named(b, n) = b.fields[j]
    BY <1>4, <2>1, <2>3, NamedIs
  <2> QED
    BY <1>3, <1>7, <2>3, <2>4
<1> QED
  BY <1>3, <1>6, <1>7 DEF Understands, IsObject

(* What programs built from a schema send is understood by those built from  *)
(* one that extends it.                                                      *)
LEMMA ArraysUnderstood ==
  ASSUME NEW a, NEW b, WellFormed(a), WellFormed(b), Extends(a, b),
         a.kind = "tuple", b.kind = "tuple",
         [i \in DOMAIN a.fields |-> a.fields[i].ident] = [i \in DOMAIN b.fields |-> b.fields[i].ident],
         NEW x \in Arrays(a)
  PROVE  Understands(b, x)
<1>1. PICK nulls \in {z \in [DOMAIN a.fields -> BOOLEAN] :
                         \A i \in DOMAIN z : z[i] => ~a.fields[i].required} :
        x = [shape |-> "array",
             items |-> [i \in DOMAIN a.fields |-> Cell(a.fields[i], nulls[i])]]
  BY DEF Arrays
<1>2. /\ x.shape = "array" /\ DOMAIN x.items = DOMAIN a.fields
      /\ \A i \in DOMAIN a.fields : x.items[i] = Cell(a.fields[i], nulls[i])
  BY <1>1
<1>3. DOMAIN a.fields = DOMAIN b.fields
      /\ \A i \in DOMAIN a.fields : a.fields[i].ident = b.fields[i].ident
  <2> DEFINE f == [i \in DOMAIN a.fields |-> a.fields[i].ident]
             g == [i \in DOMAIN b.fields |-> b.fields[i].ident]
  <2>1. f = g
    OBVIOUS
  <2>2. DOMAIN f = DOMAIN a.fields /\ DOMAIN g = DOMAIN b.fields
    OBVIOUS
  <2>3. \A i \in DOMAIN a.fields : f[i] = a.fields[i].ident
    OBVIOUS
  <2>4. \A i \in DOMAIN b.fields : g[i] = b.fields[i].ident
    OBVIOUS
  <2> HIDE DEF f, g
  <2> QED
    BY <2>1, <2>2, <2>3, <2>4
<1>4. ASSUME NEW i \in DOMAIN b.fields
      PROVE  x.items[i] = b.fields[i].type \/ (x.items[i] = "null" /\ ~b.fields[i].required)
  <2>1. i \in DOMAIN a.fields /\ a.fields[i].ident = b.fields[i].ident
    BY <1>3
  <2>2. /\ a.fields[i].ident \in Idents(a.fields)
        /\ Of(a.fields, a.fields[i].ident) = a.fields[i]
        /\ Of(b.fields, a.fields[i].ident) = b.fields[i]
    BY <2>1, OfIdent DEF WellFormed
  <2>3. a.fields[i].type = b.fields[i].type
        /\ (b.fields[i].required => a.fields[i].required)
    BY <2>2 DEF Extends, SameOf
  <2>4. nulls[i] => ~a.fields[i].required
    BY <1>1, <2>1
  <2>5. x.items[i] = IF nulls[i] THEN "null" ELSE a.fields[i].type
    BY <1>2, <2>1 DEF Cell
  <2>6. CASE nulls[i]
    BY <2>3, <2>4, <2>5, <2>6
  <2>7. CASE ~nulls[i]
    BY <2>3, <2>5, <2>7
  <2> QED
    BY <2>6, <2>7
<1> QED
  BY <1>2, <1>3, <1>4 DEF Understands, IsObject

LEMMA ValuesUnderstood ==
  ASSUME NEW a, NEW b, WellFormed(a), WellFormed(b), Extends(a, b), NEW x \in Values(a)
  PROVE  x \in Values(b)
<1>1. PICK i \in DOMAIN a.variants : x = [shape |-> "value", value |-> a.variants[i].value]
  BY DEF Values
<1>2. PICK j \in DOMAIN b.variants :
         /\ a.variants[i].ident \in Idents(a.variants)
         /\ Of(a.variants, a.variants[i].ident) = a.variants[i]
         /\ Of(b.variants, a.variants[i].ident) = b.variants[j]
  BY KeptField DEF WellFormed, Extends
<1>3. a.variants[i]["value"] = b.variants[j]["value"]
  BY <1>2 DEF Extends, SameOf
<1> QED
  BY <1>1, <1>3 DEF Values

LEMMA CallsUnderstood ==
  ASSUME NEW a, NEW b, WellFormed(a), WellFormed(b), Extends(a, b),
         \A y \in Idents(a.endpoints) \cap Idents(b.endpoints) :
             Of(a.endpoints, y).request = Of(b.endpoints, y).request,
         NEW x \in Calls(a)
  PROVE  x \in Calls(b)
<1>1. PICK i \in DOMAIN a.endpoints : x = [shape |-> "call", endpoint |-> a.endpoints[i]]
  BY DEF Calls
<1>2. /\ Idents(a.endpoints) \subseteq Idents(b.endpoints)
      /\ SameOf(a.endpoints, b.endpoints, "response")
      /\ SameOf(a.endpoints, b.endpoints, "request")
  BY DEF Extends, SameOf
<1>3. PICK j \in DOMAIN b.endpoints :
         /\ b.endpoints[j].ident = a.endpoints[i].ident
         /\ a.endpoints[i].ident \in Idents(a.endpoints)
         /\ Of(a.endpoints, a.endpoints[i].ident) = a.endpoints[i]
         /\ Of(b.endpoints, a.endpoints[i].ident) = b.endpoints[j]
  BY <1>2, KeptField DEF WellFormed
<1>4. a.endpoints[i]["response"] = b.endpoints[j]["response"]
      /\ a.endpoints[i]["request"] = b.endpoints[j]["request"]
  BY <1>2, <1>3 DEF SameOf
<1>5. AsEndpoint(a.endpoints[i]) = AsEndpoint(b.endpoints[j])
  BY <1>3, <1>4 DEF AsEndpoint
<1>6. a.endpoints[i] = b.endpoints[j]
  BY <1>5 DEF WellFormed
<1> QED
  BY <1>1, <1>6 DEF Calls

LEMMA GrowsUnderstood ==
  ASSUME NEW from \in Schema, NEW to \in Schema, Grows(from, to), SameShape(from, to)
  PROVE  Compatible(from, to)
<1> SUFFICES ASSUME NEW n \in DOMAIN from
             PROVE  n \in DOMAIN to /\ \A x \in Sent(from[n]) : Understands(to[n], x)
  BY DEF Compatible
<1>1. n \in DOMAIN to /\ Extends(from[n], to[n]) /\ n \in Kept(from, to)
  BY DEF Grows, Kept
<1>2. PICK a, b : a = from[n] /\ b = to[n]
  OBVIOUS
<1>3. WellFormed(a) /\ WellFormed(b) /\ Extends(a, b)
  BY <1>1, <1>2, SchemaAssumption
<1>4. /\ a.kind = b.kind /\ a.key = b.key
      /\ a.kind = "tuple" => [i \in DOMAIN a.fields |-> a.fields[i].ident]
                             = [i \in DOMAIN b.fields |-> b.fields[i].ident]
      /\ \A y \in Idents(a.endpoints) \cap Idents(b.endpoints) :
             Of(a.endpoints, y).request = Of(b.endpoints, y).request
  BY <1>1, <1>2 DEF SameShape
<1>5. ASSUME NEW x \in Sent(a)
      PROVE  Understands(b, x)
  <2>1. a.kind \in Kinds
    BY <1>3 DEF WellFormed
  <2>2. CASE IsObject(a)
    <3>1. x \in Objects(a)
      BY <1>5, <2>2 DEF Sent, IsObject
    <3> QED
      BY <1>3, <1>4, <2>2, <3>1, ObjectsUnderstood
  <2>3. CASE a.kind = "tuple"
    <3>1. x \in Arrays(a)
      BY <1>5, <2>3 DEF Sent, IsObject
    <3> QED
      BY <1>3, <1>4, <2>3, <3>1, ArraysUnderstood
  <2>4. CASE a.kind = "enum"
    <3>1. x \in Values(a)
      BY <1>5, <2>4 DEF Sent, IsObject
    <3>2. x \in Values(b)
      BY <1>3, <3>1, ValuesUnderstood
    <3> QED
      BY <1>4, <2>4, <3>2 DEF Understands, IsObject
  <2>5. CASE a.kind = "service"
    <3>1. x \in Calls(a)
      BY <1>5, <2>5 DEF Sent, IsObject
    <3>2. x \in Calls(b)
      BY <1>3, <1>4, <3>1, CallsUnderstood
    <3> QED
      BY <1>4, <2>5, <3>2 DEF Understands, IsObject
  <2> QED
    BY <2>1, <2>2, <2>3, <2>4, <2>5 DEF Kinds, IsObject
<1> QED
  BY <1>1, <1>2, <1>5

-----------------------------------------------------------------------------
(* Full releases: those of one major version, and those of one minor version *)
(* of it, are chains where they were made in order, since each was compared  *)
(* with the newest before it.                                                *)
Full == {v \in DOMAIN released : ~IsPrerelease(v)}
Core(v) == v.major \in Nat /\ v.minor \in Nat /\ v.patch \in Nat

ReleasesTypeOK ==
    /\ DOMAIN released \subseteq Version
    /\ \A v \in DOMAIN released : released[v] \in Schema

NewestUpTo(b, w) == b \in Full /\ AtMost(b, w) /\ \A u \in Full : AtMost(u, w) => AtMost(u, b)
HasNewest ==
    \A w \in Version : ~IsPrerelease(w) =>
        \A v \in Full : AtMost(v, w) => \E b \in Full : NewestUpTo(b, w)

Follows(v, w) ==
    /\ Grows(released[v], released[w])
    /\ v.minor = w.minor => Stays(released[v], released[w])
Chained ==
    \A v, w \in Full : CoreLess(v, w) /\ v.major = w.major /\ InOrder(v, w) => Follows(v, w)

ReleasesInv == ReleasesTypeOK /\ HasNewest /\ Chained

LEMMA CoreOf ==
  ASSUME NEW v \in Version
  PROVE  Core(v)
BY VersionAssumption DEF SemVersion, Core

(* Full releases are in a total order.                                       *)
LEMMA FullOrder ==
  ASSUME NEW v \in Version, NEW w \in Version, ~IsPrerelease(v), ~IsPrerelease(w)
  PROVE  /\ AtMost(v, w) <=> CoreLess(v, w) \/ v = w
         /\ SameCore(v, w) => v = w
<1>1. v.pre = <<>> /\ w.pre = <<>>
  BY DEF IsPrerelease
<1>2. SameCore(v, w) => Equal(v, w)
  BY <1>1 DEF Equal
<1>3. SameCore(v, w) => v = w
  BY <1>2, VersionAssumption
<1>4. SameCore(v, v)
  BY DEF SameCore
<1> QED
  BY <1>1, <1>3, <1>4 DEF AtMost, Less, Equal, IsPrerelease

LEMMA FullAreOrdered ==
  ASSUME NEW v \in Version, NEW w \in Version, ~IsPrerelease(v), ~IsPrerelease(w)
  PROVE  AtMost(v, v) /\ ~CoreLess(v, v) /\ (AtMost(v, w) \/ CoreLess(w, v))
         /\ ~(AtMost(v, w) /\ CoreLess(w, v))
<1>1. Core(v) /\ Core(w)
  BY CoreOf
<1>2. CoreLess(v, w) \/ CoreLess(w, v) \/ SameCore(v, w)
  BY <1>1 DEF Core, CoreLess, SameCore
<1>3. ~CoreLess(v, v) /\ ~(CoreLess(v, w) /\ CoreLess(w, v))
  BY <1>1 DEF Core, CoreLess
<1> QED
  BY <1>2, <1>3, FullOrder

LEMMA FullTransitive ==
  ASSUME NEW u \in Version, NEW v \in Version, NEW w \in Version,
         ~IsPrerelease(u), ~IsPrerelease(v), ~IsPrerelease(w), AtMost(u, v), AtMost(v, w)
  PROVE  AtMost(u, w)
<1>1. Core(u) /\ Core(v) /\ Core(w)
  BY CoreOf
<1>2. CoreLess(u, v) /\ CoreLess(v, w) => CoreLess(u, w)
  BY <1>1 DEF Core, CoreLess
<1> QED
  BY <1>2, FullOrder

LEMMA ReleasesInitial == ReleasesInit => ReleasesInv
BY DEF ReleasesInit, ReleasesInv, ReleasesTypeOK, HasNewest, Chained, Full

(* One more full release leaves a newest one up to any version.              *)
LEMMA NewestStays ==
  ASSUME ReleasesTypeOK, HasNewest, NEW w \in Version,
         Full' = IF IsPrerelease(w) THEN Full ELSE Full \cup {w}
  PROVE  HasNewest'
<1> SUFFICES ASSUME NEW x \in Version, ~IsPrerelease(x), NEW v \in Full', AtMost(v, x)
             PROVE  \E b \in Full' : NewestUpTo(b, x)'
  BY DEF HasNewest
<1>1. \A u \in Full : u \in Version /\ ~IsPrerelease(u)
  BY DEF Full, ReleasesTypeOK
<1>2. \A b : NewestUpTo(b, x)' <=>
                b \in Full' /\ AtMost(b, x) /\ \A u \in Full' : AtMost(u, x) => AtMost(u, b)
  BY DEF NewestUpTo
<1>3. CASE IsPrerelease(w)
  BY <1>2, <1>3 DEF HasNewest, NewestUpTo
<1>4. CASE ~IsPrerelease(w) /\ ~AtMost(w, x)
  <2>1. v \in Full
    BY <1>4
  <2>2. PICK b \in Full : NewestUpTo(b, x)
    BY <2>1 DEF HasNewest
  <2> QED
    BY <1>2, <1>4, <2>2 DEF NewestUpTo
<1>5. CASE ~IsPrerelease(w) /\ AtMost(w, x) /\ \E u \in Full : AtMost(u, x)
  <2>1. PICK b \in Full : NewestUpTo(b, x)
    BY <1>5 DEF HasNewest
  <2>2. AtMost(w, w)
    BY <1>5, FullAreOrdered
  <2>3. CASE AtMost(w, b)
    BY <1>2, <1>5, <2>1, <2>3 DEF NewestUpTo
  <2>4. CASE ~AtMost(w, b)
    <3>1. AtMost(b, w)
      BY <1>1, <1>5, <2>4, FullAreOrdered, FullOrder
    <3>2. \A u \in Full : AtMost(u, x) => AtMost(u, w)
      BY <1>1, <1>5, <2>1, <3>1, FullTransitive DEF NewestUpTo
    <3> QED
      BY <1>2, <1>5, <2>2, <3>2
  <2> QED
    BY <2>3, <2>4
<1>6. CASE ~IsPrerelease(w) /\ AtMost(w, x) /\ ~\E u \in Full : AtMost(u, x)
  <2>1. AtMost(w, w)
    BY <1>6, FullAreOrdered
  <2> QED
    BY <1>2, <1>6, <2>1
<1> QED
  BY <1>3, <1>4, <1>5, <1>6

(* A release follows the newest one before it.                               *)
LEMMA FollowsNewest ==
  ASSUME NEW b \in Version, NEW w \in Version, NEW from \in Schema, NEW to \in Schema,
         Check(b, from, w, to) = {}, CoreLess(b, w), b.major = w.major
  PROVE  Grows(from, to) /\ (b.minor = w.minor => Stays(from, to))
<1>1. Core(b) /\ Core(w)
  BY CoreOf
<1>2. b.minor <= w.minor /\ (b.minor = w.minor => b.patch < w.patch)
  BY <1>1 DEF CoreLess, Core
<1>3. CASE b.minor < w.minor
  BY <1>1, <1>3, CheckedMinor DEF Check, Core
<1>4. CASE b.minor = w.minor
  <2>1. CheckPatch(from, to) = {}
    BY <1>1, <1>2, <1>4 DEF Check, Core
  <2> QED
    BY <2>1, CheckedPatch, StaysGrows
<1> QED
  BY <1>1, <1>2, <1>3, <1>4 DEF Core

LEMMA ReleasesStep == ReleasesInv /\ [ReleasesNext]_releaseVars => ReleasesInv'
<1> SUFFICES ASSUME ReleasesInv, [ReleasesNext]_releaseVars
             PROVE  ReleasesInv'
  OBVIOUS
<1>1. CASE UNCHANGED releaseVars
  BY <1>1 DEF releaseVars, ReleasesInv, ReleasesTypeOK, HasNewest, NewestUpTo, Chained, Follows,
              InOrder, FromTo, Full
<1>2. ASSUME NEW w \in Version, NEW s \in Schema, NEW forced \in BOOLEAN, MakeRelease(w, s, forced)
      PROVE  ReleasesInv'
  <2>1. /\ Violations(w, s) = {}
        /\ released' = [v \in DOMAIN released \cup {w} |-> IF v = w THEN s ELSE released[v]]
        /\ late' = late \cup {<<w, v>> : v \in {x \in DOMAIN released : AtMost(w, x)}}
    BY <1>2 DEF MakeRelease
  <2>2. /\ DOMAIN released' = DOMAIN released \cup {w}
        /\ released'[w] = s /\ \A v \in DOMAIN released : v # w => released'[v] = released[v]
    BY <2>1
  <2>3. ReleasesTypeOK'
    BY <2>2 DEF ReleasesInv, ReleasesTypeOK
  <2>4. /\ HasNewest /\ Chained /\ ReleasesTypeOK
        /\ \A v \in Full : v \in DOMAIN released /\ v \in Version /\ ~IsPrerelease(v)
                          /\ released[v] \in Schema
    BY DEF ReleasesInv, ReleasesTypeOK, Full
  <2>5. Full' = IF IsPrerelease(w) THEN Full ELSE Full \cup {w}
    BY <2>2 DEF Full
  <2>6. HasNewest'
    BY <2>4, <2>5, NewestStays
  <2>7. ASSUME NEW v \in Full', NEW x \in Full', CoreLess(v, x), v.major = x.major, InOrder(v, x)'
        PROVE  Follows(v, x)'
    <3>1. v \in Version /\ x \in Version /\ ~IsPrerelease(v) /\ ~IsPrerelease(x)
      BY <2>4, <2>5
    <3>2. AtMost(v, v) /\ AtMost(x, x) /\ AtMost(v, x)
      BY <2>7, <3>1, FullAreOrdered, FullOrder
    <3>3. \A u : u \in FromTo(v, x)' <=> u \in Full' /\ AtMost(v, u) /\ AtMost(u, x)
      BY DEF FromTo, Full
    <3>4. \A u, y : u \in Full' /\ y \in Full' /\ AtMost(v, u) /\ AtMost(u, x)
                      /\ AtMost(v, y) /\ AtMost(y, x) => <<u, y>> \notin late'
      BY <2>7, <3>3 DEF InOrder
    <3>5. \A u \in DOMAIN released : AtMost(w, u) => <<w, u>> \in late'
      BY <2>1
    <3>6. late \subseteq late'
      BY <2>1
    <3>7. ASSUME NEW c \in Full, NEW d \in Full, AtMost(v, c), AtMost(d, x)
          PROVE  InOrder(c, d)
      <4> SUFFICES ASSUME NEW u \in FromTo(c, d), NEW y \in FromTo(c, d)
                   PROVE  <<u, y>> \notin late
        BY DEF InOrder
      <4>1. /\ u \in Full /\ AtMost(c, u) /\ AtMost(u, d)
            /\ y \in Full /\ AtMost(c, y) /\ AtMost(y, d)
        BY DEF FromTo, Full
      <4>2. AtMost(v, u) /\ AtMost(u, x) /\ AtMost(v, y) /\ AtMost(y, x)
        BY <2>4, <3>1, <3>7, <4>1, FullTransitive
      <4>3. u \in Full' /\ y \in Full'
        BY <2>5, <4>1
      <4> QED
        BY <3>4, <3>6, <4>2, <4>3
    <3>8. CASE v = w
      <4>1. x # w
        BY <2>7, <3>1, <3>8, FullAreOrdered
      <4>2. x \in Full
        BY <2>5, <4>1
      <4> QED
        BY <2>4, <2>7, <3>2, <3>4, <3>5, <3>8, <4>2
    <3>9. CASE v # w /\ x # w
      <4>1. v \in Full /\ x \in Full
        BY <2>5, <3>9
      <4>2. InOrder(v, x)
        BY <3>2, <3>7, <4>1
      <4>3. Follows(v, x)
        BY <2>4, <2>7, <4>1, <4>2 DEF Chained
      <4>4. released'[v] = released[v] /\ released'[x] = released[x]
        BY <2>2, <2>4, <3>9, <4>1
      <4> QED
        BY <4>3, <4>4 DEF Follows
    <3>10. CASE v # w /\ x = w
      <4>1. v \in Full /\ w \notin Full
        BY <2>4, <2>5, <2>7, <3>2, <3>4, <3>5, <3>10
      <4>2. PICK b \in Full : NewestUpTo(b, w)
        BY <2>4, <3>1, <3>2, <3>10, <4>1 DEF HasNewest
      <4>3. AtMost(b, w) /\ AtMost(v, b) /\ b # w
        BY <3>2, <3>10, <4>1, <4>2 DEF NewestUpTo
      <4>4. CoreLess(b, w) /\ (CoreLess(v, b) \/ v = b)
        BY <2>4, <3>1, <3>10, <4>1, <4>3, FullOrder
      <4>5. b \in Baselines(w)
        BY <4>2 DEF NewestUpTo, Baselines, Full
      <4>6. Check(b, released[b], w, s) = {}
        BY <2>1, <4>5 DEF Violations
      <4>7. Core(v) /\ Core(b) /\ Core(w)
        BY <2>4, <4>1, CoreOf
      <4>8. b.major = w.major /\ v.minor <= b.minor /\ b.minor <= w.minor
        BY <2>7, <3>10, <4>4, <4>7 DEF CoreLess, Core
      <4>9. Grows(released[b], s) /\ (b.minor = w.minor => Stays(released[b], s))
        BY <2>4, <4>4, <4>6, <4>8, FollowsNewest
      <4>10. released'[v] = released[v] /\ released'[x] = s
        BY <2>2, <2>4, <3>10, <4>1
      <4>11. CASE v = b
        BY <3>10, <4>9, <4>10, <4>11 DEF Follows
      <4>12. CASE CoreLess(v, b)
        <5>1. InOrder(v, b)
          BY <3>2, <3>7, <3>10, <4>1, <4>3
        <5>2. Grows(released[v], released[b])
              /\ (v.minor = b.minor => Stays(released[v], released[b]))
          BY <2>4, <2>7, <3>10, <4>1, <4>8, <4>12, <5>1 DEF Chained, Follows
        <5>3. Grows(released[v], s)
          BY <4>9, <5>2, GrowsChain
        <5>4. v.minor = w.minor => Stays(released[v], s)
          BY <4>7, <4>8, <4>9, <5>2, StaysChain DEF Core
        <5> QED
          BY <3>10, <4>10, <5>3, <5>4 DEF Follows
      <4> QED
        BY <4>4, <4>11, <4>12
    <3> QED
      BY <3>8, <3>9, <3>10
  <2>8. Chained'
    BY <2>7 DEF Chained
  <2> QED
    BY <2>3, <2>6, <2>8 DEF ReleasesInv
<1> QED
  BY <1>1, <1>2 DEF ReleasesNext

-----------------------------------------------------------------------------
(* What a caret requirement on a full release matches among full releases:   *)
(* itself, and what is newer than it and has its major version.              *)
LEMMA UpgradeMeans ==
  ASSUME NEW v \in Version, NEW w \in Version, Upgrade(v, w)
  PROVE  /\ ~IsPrerelease(v) /\ ~IsPrerelease(w)
         /\ v.major = w.major /\ (CoreLess(v, w) \/ v = w)
<1> DEFINE c == Caret(v)
<1>1. ~IsPrerelease(v) /\ ~IsPrerelease(w) /\ Matches(<<c>>, w)
  BY DEF Upgrade
<1>2. PredicateMatches(c, w)
  <2>1. <<c>> # <<>> /\ 1 \in DOMAIN <<c>> /\ <<c>>[1] = c
    OBVIOUS
  <2> QED
    BY <1>1, <2>1, Zenon DEF Matches
<1>3. c.op = "^" /\ c.major = v.major /\ c.minor = v.minor /\ c.patch = v.patch /\ c.pre = v.pre
  BY DEF Caret
<1> HIDE DEF c
<1>4. IsCompatible(c, w)
  BY <1>2, <1>3 DEF PredicateMatches
<1>5. Core(v) /\ Core(w)
  BY CoreOf
<1>6. v.major = w.major /\ (CoreLess(v, w) \/ SameCore(v, w))
  BY <1>3, <1>4, <1>5 DEF IsCompatible, PatchUp, CoreLess, SameCore, Core, Missing
<1> QED
  BY <1>1, <1>6, FullOrder

LEMMA FullChain ==
  ASSUME ReleasesInv, NEW v \in DOMAIN released, NEW w \in DOMAIN released, Upgrade(v, w),
         InOrder(v, w)
  PROVE  /\ v \in FromTo(v, w) /\ w \in FromTo(v, w)
         /\ Grows(released[v], released[w])
         /\ v.minor = w.minor => Stays(released[v], released[w])
<1>1. v \in Version /\ w \in Version /\ Chained
  BY DEF ReleasesInv, ReleasesTypeOK
<1>2. /\ v \in Full /\ w \in Full /\ ~IsPrerelease(v) /\ ~IsPrerelease(w)
      /\ v.major = w.major /\ (CoreLess(v, w) \/ v = w)
  BY <1>1, UpgradeMeans DEF Full
<1>3. AtMost(v, v) /\ AtMost(w, w) /\ AtMost(v, w)
  BY <1>1, <1>2, FullOrder
<1>4. v \in FromTo(v, w) /\ w \in FromTo(v, w)
  BY <1>2, <1>3 DEF FromTo
<1> QED
  BY <1>1, <1>2, <1>4, GrowsSelf DEF Chained, Follows

(* UpgradesWork, of every behaviour: for any versions and any schemas that   *)
(* the compiler accepts and however many releases there are, a release can   *)
(* be upgraded to any other that a caret requirement on it matches, if those *)
(* from the one to the other were made in order and keep what the checker    *)
(* does not look at.                                                         *)
THEOREM EveryUpgradeWorks == ReleasesSpec => []UpgradesWork
<1>1. ReleasesInv => UpgradesWork
  <2> SUFFICES ASSUME ReleasesInv,
                      NEW v \in DOMAIN released, NEW w \in DOMAIN released, Upgrade(v, w),
                      InOrder(v, w),
                      \A u \in FromTo(v, w) :
                          SameShape(released[v], released[u]) /\ SameShape(released[u], released[w])
               PROVE  Compatible(released[v], released[w])
    BY DEF UpgradesWork
  <2>1. SameShape(released[v], released[w]) /\ Grows(released[v], released[w])
    BY FullChain
  <2> QED
    BY <2>1, GrowsUnderstood DEF ReleasesInv, ReleasesTypeOK
<1> QED
  BY ReleasesInitial, ReleasesStep, <1>1, PTL DEF ReleasesSpec

(* FixesMatch, of every behaviour: releases that differ in their patch       *)
(* number alone understand each other both ways, if those from the one to    *)
(* the other were made in order, none of them again, and keep what the       *)
(* checker does not look at.                                                 *)
THEOREM EveryFixMatches == ReleasesSpec => []FixesMatch
<1>1. ReleasesInv => FixesMatch
  <2> SUFFICES ASSUME ReleasesInv,
                      NEW v \in DOMAIN released, NEW w \in DOMAIN released,
                      Upgrade(v, w), Fix(v, w), InOrder(v, w),
                      \A u \in FromTo(v, w) :
                          SameShape(released[v], released[u]) /\ SameShape(released[w], released[u])
               PROVE  Compatible(released[w], released[v])
    BY DEF FixesMatch
  <2>1. SameShape(released[w], released[v]) /\ Stays(released[v], released[w])
    BY FullChain DEF Fix
  <2> QED
    BY <2>1, StaysGrows, GrowsUnderstood DEF ReleasesInv, ReleasesTypeOK
<1> QED
  BY ReleasesInitial, ReleasesStep, <1>1, PTL DEF ReleasesSpec

-----------------------------------------------------------------------------
(* OpenAPI documents.                                                      *)

(* An item of a sub-type names one that there is.                            *)
DocItems ==
    {i \in [k : {"named", "sub", "any"}, key : DocKey, index : Nat] :
        i.k = "sub" => /\ i.key.name \in DOMAIN Declared
                       /\ i.index \in DOMAIN Declared[i.key.name].subs}
DocMentions == [k : {"name", "any", "other"}, key : DocKey, queued : Seq(DocItems)]

DocTypeOK ==
    /\ todo \in Seq(DocEndpoint)
    /\ items \in Seq(DocItems)
    /\ processed \subseteq DocItems
    /\ mentions \in Seq(Seq(DocMentions))
    /\ document \in {"building", "written", "refused"}

(* A name is a plain one or has the first number of its base, and while the  *)
(* document is built nothing was numbered again.                             *)
PlainName(k) == allocated[k] \in {k.name.path, Packaged(k.name)}
NumberedName(k) ==
    Base(k.name) \in DOMAIN counters /\ allocated[k] = WithCount(Base(k.name), 0)
NamesApart ==
    /\ DOMAIN allocated \subseteq DocKey
    /\ DOMAIN counters \subseteq Syllables
    /\ \A k, l \in DOMAIN allocated : allocated[k] = allocated[l] => k = l
    /\ \A k \in DOMAIN allocated : PlainName(k) \/ NumberedName(k)
    /\ document # "refused" =>
          \A base \in DOMAIN counters : counters[base] = 0 /\ WithCount(base, 0) \in Taken

Refusable ==
    \/ \E i \in processed : i.k = "named" /\ i.key.name \notin DOMAIN Declared
    \/ \E base \in DOMAIN counters : counters[base] > 0
    \/ \E base \in DOMAIN counters, k \in DOMAIN allocated :
          PlainName(k) /\ allocated[k] = WithCount(base, 0)

(* The component that is being described has a name, or is the first thing   *)
(* that is referred to; every other item taken has its component.            *)
Subjected ==
    document # "refused" /\ subject # <<>> => \E i \in processed :
        /\ subject = <<i>>
        /\ \/ ComponentKey(i) \in DOMAIN allocated
           \/ /\ mentions # <<>> /\ Head(mentions) # <<>>
              /\ Head(Head(mentions)).k = "name" /\ Head(Head(mentions)).key = ComponentKey(i)
Placed(i) ==
    \/ IsService(i)
    \/ ComponentKey(i) \in DOMAIN allocated /\ allocated[ComponentKey(i)] \in DOMAIN components

DocInv ==
    /\ DocTypeOK /\ NamesApart
    /\ \A c \in DOMAIN components :
          components[c] \in DOMAIN allocated /\ allocated[components[c]] = c
    /\ Subjected
    /\ document # "refused" => \A i \in processed : subject = <<i>> \/ Placed(i)
    /\ document = "written" => subject = <<>>
    /\ document = "refused" => Refusable

-----------------------------------------------------------------------------
LEMMA CountCancels ==
    ASSUME NEW a \in Syllables, NEW b \in Syllables, WithCount(a, 0) = WithCount(b, 0)
    PROVE  a = b
<1> DEFINE S == STRING \cup {ToString(0)}
<1>1. a \in Seq(S) /\ b \in Seq(S) /\ ToString(0) \in S
  BY DEF Syllables
<1> HIDE DEF S
<1> QED
  BY <1>1 DEF WithCount

LEMMA MentionsTyped ==
    ASSUME NEW types \in Seq(DocType)
    PROVE  InSchemas(types) \in Seq(DocMentions) /\ InObjects(types) \in Seq(DocMentions)
<1>1. Item("any", AnyKey, 0) \in DocItems
  BY DocumentAssumption DEF Item, DocItems
<1>2. \A t \in DocType : Item("named", t.key, 0) \in DocItems
  BY DEF Item, DocItems, DocType
<1>3. \A t \in DocType : InSchema(t) \in DocMentions
  BY <1>1, DocumentAssumption DEF InSchema, Mention, DocMentions, DocType
<1>4. \A t \in DocType : InObject(t) \in DocMentions
  BY <1>2, <1>3 DEF InObject, Mention, DocMentions, DocType
<1> QED
  BY <1>3, <1>4 DEF InSchemas, InObjects

LEMMA SubTypeTyped ==
    ASSUME NEW n \in DOMAIN Declared, NEW i \in DOMAIN Declared[n].subs
    PROVE  /\ Declared[n].subs[i] \in DocSubType
           /\ Local(Declared[n].subs[i].name) \in DocKey
           /\ Item("sub", Local(n), i) \in DocItems
<1>1. Declared[n] \in DocDeclaration /\ n \in RpName
  BY DocumentAssumption
<1>2. Declared[n].subs[i] \in DocSubType /\ i \in Nat
  BY <1>1 DEF DocDeclaration
<1>3. \A m \in RpName : Local(m) \in DocKey /\ Local(m).name = m
  BY DEF Local, DocKey, Syllables
<1> QED
  BY <1>1, <1>2, <1>3 DEF DocSubType, Item, DocItems

LEMMA MetTyped ==
    ASSUME NEW n \in DOMAIN Declared
    PROVE  MetIn(n) \in Seq(Seq(DocMentions))
<1> DEFINE d == Declared[n]
<1>1. d \in DocDeclaration
  BY DocumentAssumption
<1>2. InObjects(d.fields) \in Seq(DocMentions)
  BY <1>1, MentionsTyped DEF DocDeclaration
<1>3. \A i \in DOMAIN d.subs : InObjects(d.fields \o d.subs[i].fields) \in Seq(DocMentions)
  <2> TAKE i \in DOMAIN d.subs
  <2>1. d.subs[i] \in DocSubType
    BY SubTypeTyped
  <2>2. d.fields \o d.subs[i].fields \in Seq(DocType)
    BY <1>1, <2>1 DEF DocDeclaration, DocSubType
  <2> QED
    BY <2>2, MentionsTyped
<1>4. d.subs \in Seq(DocSubType)
  BY <1>1 DEF DocDeclaration
<1>5. [i \in DOMAIN d.subs |-> InObjects(d.fields \o d.subs[i].fields)] \in Seq(Seq(DocMentions))
  BY <1>3, <1>4
<1> DEFINE ofSub(i) == Mention("name", Local(d.subs[i].name), <<Item("sub", Local(n), i)>>)
<1>6. [i \in DOMAIN d.subs |-> ofSub(i)] \in Seq(DocMentions)
  <2>1. \A i \in DOMAIN d.subs : ofSub(i) \in DocMentions
    BY SubTypeTyped DEF Mention, DocMentions
  <2> HIDE DEF ofSub
  <2> QED
    BY <2>1, <1>4
<1> QED
  BY <1>2, <1>5, <1>6 DEF MetIn

LEMMA MetForTyped ==
    ASSUME NEW item \in DocItems, item.k = "named" => item.key.name \in DOMAIN Declared
    PROVE  /\ ComponentKey(item) \in DocKey
           /\ MetFor(item) \in Seq(Seq(DocMentions)) /\ MetFor(item) # <<>>
           /\ Head(MetFor(item)) = <<Mention("name", ComponentKey(item), <<>>)>>
<1> DEFINE own == Mention("name", ComponentKey(item), <<>>)
           rest == CASE item.k = "named" -> MetIn(item.key.name)
                     [] item.k = "sub" ->
                           <<InObjects(Declared[item.key.name].fields \o SubTypeOf(item).fields)>>
                     [] OTHER -> <<>>
<1>1. ComponentKey(item) \in DocKey
  BY SubTypeTyped DEF ComponentKey, SubTypeOf, DocItems
<1>2. own \in DocMentions
  BY <1>1 DEF Mention, DocMentions
<1>3. ASSUME item.k = "sub"
      PROVE  InObjects(Declared[item.key.name].fields \o SubTypeOf(item).fields) \in Seq(DocMentions)
  <2>1. SubTypeOf(item) \in DocSubType /\ Declared[item.key.name] \in DocDeclaration
    BY <1>3, SubTypeTyped, DocumentAssumption DEF SubTypeOf, DocItems
  <2>2. Declared[item.key.name].fields \o SubTypeOf(item).fields \in Seq(DocType)
    BY <2>1 DEF DocDeclaration, DocSubType
  <2> QED
    BY <2>2, MentionsTyped
<1>4. rest \in Seq(Seq(DocMentions))
  BY <1>3, MetTyped
<1>5. MetFor(item) = <<<<own>>>> \o rest
  BY DEF MetFor
<1> HIDE DEF own, rest
<1>6. <<<<own>>>> \in Seq(Seq(DocMentions))
  BY <1>2
<1>7. /\ <<<<own>>>> \o rest \in Seq(Seq(DocMentions)) /\ <<<<own>>>> \o rest # <<>>
      /\ Head(<<<<own>>>> \o rest) = <<own>>
  BY <1>4, <1>6
<1> QED
  BY <1>1, <1>5, <1>7 DEF own

-----------------------------------------------------------------------------
(* A name is given once, and not given when another has it.                  *)
NamesKept ==
    \A k \in DOMAIN allocated : k \in DOMAIN allocated' /\ allocated'[k] = allocated[k]
ReasonAdded ==
    \/ \E base \in DOMAIN counters' : counters'[base] > 0
    \/ \E base \in DOMAIN counters', k \in DOMAIN allocated' :
          PlainName(k)' /\ allocated'[k] = WithCount(base, 0)

LEMMA AllocateApart ==
    ASSUME NEW key \in DocKey, key \notin DOMAIN allocated, document = "building",
           NamesApart, AllocateName(key)
    PROVE  /\ NamesApart' /\ NamesKept
           /\ document' \in {"building", "refused"}
           /\ document' = "refused" => ReasonAdded
           /\ document' # "refused" => key \in DOMAIN allocated'
<1> DEFINE n == key.name
           base == Base(n)
           given(name) ==
               /\ DOMAIN allocated' = DOMAIN allocated \cup {key}
               /\ allocated'[key] = name
               /\ \A k \in DOMAIN allocated : allocated'[k] = allocated[k]
<1>1. \A name : Call(key, name) => given(name)
  BY DEF Call, With
<1>2. n \in RpName /\ base \in Syllables
  BY DEF DocKey, RpName, Base, Syllables
<1>3. ASSUME NEW name, name \notin Taken, given(name), DOMAIN counters' \subseteq Syllables,
             DOMAIN counters \subseteq DOMAIN counters',
             \/ name \in {n.path, Packaged(n)}
             \/ base \in DOMAIN counters' /\ name = WithCount(base, 0),
             \A b \in DOMAIN counters' :
                 counters'[b] = 0 /\ (WithCount(b, 0) \in Taken \/ WithCount(b, 0) = name)
      PROVE  NamesApart' /\ NamesKept
  <2>1. Taken' = Taken \cup {name}
    BY <1>3 DEF Taken
  <2>2. \A k \in DOMAIN allocated : (PlainName(k) \/ NumberedName(k)) => (PlainName(k) \/ NumberedName(k))'
    BY <1>3 DEF PlainName, NumberedName
  <2>3. (PlainName(key) \/ NumberedName(key))'
    BY <1>3 DEF PlainName, NumberedName
  <2>4. \A k \in DOMAIN allocated : allocated[k] # name
    BY <1>3 DEF Taken
  <2>5. \A k, l \in DOMAIN allocated' : allocated'[k] = allocated'[l] => k = l
    BY <1>3, <2>4 DEF NamesApart
  <2>6. \A k \in DOMAIN allocated' : (PlainName(k) \/ NumberedName(k))'
    BY <1>3, <2>2, <2>3 DEF NamesApart
  <2>7. \A b \in DOMAIN counters' : counters'[b] = 0 /\ WithCount(b, 0) \in Taken'
    BY <1>3, <2>1
  <2> QED
    BY <1>3, <2>5, <2>6, <2>7 DEF NamesApart, NamesKept
<1>4. CASE n.path \notin Taken
  <2>1. Call(key, n.path) /\ UNCHANGED <<counters, document>>
    BY <1>4 DEF AllocateName
  <2> QED
    BY <1>1, <1>3, <1>4, <2>1 DEF NamesApart
<1>5. CASE n.path \in Taken /\ Packaged(n) \notin Taken
  <2>1. Call(key, Packaged(n)) /\ UNCHANGED <<counters, document>>
    BY <1>5 DEF AllocateName
  <2> QED
    BY <1>1, <1>3, <1>5, <2>1 DEF NamesApart
<1>6. CASE n.path \in Taken /\ Packaged(n) \in Taken /\ base \in DOMAIN counters
  <2>1. counters[base] = 0 /\ WithCount(base, 0) \in Taken
    BY <1>6 DEF NamesApart
  <2>2. /\ counters' = With(counters, base, 1)
        /\ document' = "refused" /\ UNCHANGED allocated
    BY <1>6, <2>1 DEF AllocateName
  <2>3. counters'[base] = 1 /\ DOMAIN counters' = DOMAIN counters
    BY <1>6, <2>2 DEF With
  <2>4. ReasonAdded
    BY <1>6, <2>3 DEF ReasonAdded
  <2> QED
    BY <2>2, <2>3, <2>4 DEF NamesApart, NamesKept, PlainName, NumberedName
<1>7. CASE n.path \in Taken /\ Packaged(n) \in Taken /\ base \notin DOMAIN counters
  <2>1. /\ counters' = With(counters, base, 0)
        /\ IF WithCount(base, 0) \in Taken THEN document' = "refused" /\ UNCHANGED allocated
           ELSE Call(key, WithCount(base, 0)) /\ UNCHANGED document
    BY <1>7 DEF AllocateName
  <2>2. /\ DOMAIN counters' = DOMAIN counters \cup {base} /\ counters'[base] = 0
        /\ \A b \in DOMAIN counters : counters'[b] = counters[b]
    BY <1>7, <2>1 DEF With
  <2>3. CASE WithCount(base, 0) \notin Taken
    <3>1. given(WithCount(base, 0)) /\ UNCHANGED document
      BY <1>1, <2>1, <2>3
    <3> QED
      BY <1>2, <1>3, <2>2, <2>3, <3>1 DEF NamesApart
  <2>4. CASE WithCount(base, 0) \in Taken
    <3>1. document' = "refused" /\ UNCHANGED allocated
      BY <2>1, <2>4
    <3>2. PICK k \in DOMAIN allocated : allocated[k] = WithCount(base, 0)
      BY <2>4 DEF Taken
    <3>3. ~NumberedName(k)
      BY <1>2, <1>7, <3>2, CountCancels DEF NumberedName, NamesApart
    <3>4. PlainName(k)
      BY <3>2, <3>3 DEF NamesApart
    <3>5. ReasonAdded
      BY <2>2, <3>1, <3>2, <3>4 DEF ReasonAdded, PlainName
    <3> QED
      BY <1>2, <2>2, <3>1, <3>5 DEF NamesApart, NamesKept, PlainName, NumberedName
  <2> QED
    BY <2>3, <2>4
<1> QED
  BY <1>4, <1>5, <1>6, <1>7

-----------------------------------------------------------------------------
LEMMA DocInitial == DocInit => DocInv
  BY DocumentAssumption
  DEF DocInit, DocInv, DocTypeOK, NamesApart, Taken, Subjected, Syllables

LEMMA ReferKeeps ==
    ASSUME DocInv, Refer
    PROVE  DocInv'
<1> USE DEF DocBuilding, naming
<1>1. /\ document = "building" /\ mentions # <<>>
      /\ UNCHANGED <<todo, processed, subject, components>>
  BY DEF Refer
<1>2. Head(mentions) \in Seq(DocMentions) /\ Tail(mentions) \in Seq(Seq(DocMentions))
  BY <1>1 DEF DocInv, DocTypeOK
<1>3. CASE Head(mentions) = <<>>
  <2>1. mentions' = Tail(mentions) /\ UNCHANGED <<items, allocated, counters, document>>
    BY <1>3 DEF Refer
  <2>2. DocTypeOK'
    BY <1>1, <1>2, <2>1 DEF DocInv, DocTypeOK
  <2>3. NamesApart' /\ Subjected'
    BY <1>1, <1>3, <2>1 DEF DocInv, NamesApart, PlainName, NumberedName, Taken, Subjected
  <2> QED
    BY <1>1, <2>1, <2>2, <2>3 DEF DocInv, Placed
<1>4. CASE Head(mentions) # <<>>
  <2> DEFINE m == Head(Head(mentions))
  <2>1. m \in DocMentions /\ Tail(Head(mentions)) \in Seq(DocMentions)
    BY <1>2, <1>4
  <2>2. /\ mentions' = <<Tail(Head(mentions))>> \o Tail(mentions)
        /\ items' = items \o m.queued
        /\ IF m.k = "other" THEN UNCHANGED <<allocated, counters, document>> ELSE NameToRef(m.key)
    BY <1>4 DEF Refer
  <2>3. m.key \in DocKey /\ m.queued \in Seq(DocItems)
    BY <2>1 DEF DocMentions
  <2>4. /\ NamesApart' /\ NamesKept
        /\ document' \in {"building", "refused"}
        /\ document' = "refused" => ReasonAdded
        /\ document' # "refused" /\ m.k # "other" => m.key \in DOMAIN allocated'
    <3>1. CASE UNCHANGED <<allocated, counters, document>> /\ (m.k = "other" \/ m.key \in DOMAIN allocated)
      BY <1>1, <3>1 DEF DocInv, NamesApart, PlainName, NumberedName, Taken, NamesKept
    <3>2. CASE m.key \notin DOMAIN allocated /\ AllocateName(m.key)
      BY <1>1, <2>3, <3>2, AllocateApart DEF DocInv
    <3> QED
      BY <2>2, <3>1, <3>2 DEF NameToRef
  <2>5. DocTypeOK'
    <3>1. mentions' \in Seq(Seq(DocMentions))
      BY <1>2, <2>1, <2>2
    <3>2. items' \in Seq(DocItems)
      BY <2>2, <2>3 DEF DocInv, DocTypeOK
    <3> QED
      BY <1>1, <2>4, <3>1, <3>2 DEF DocInv, DocTypeOK
  <2>6. Subjected'
    BY <1>1, <1>4, <2>4 DEF DocInv, Subjected, NamesKept
  <2>7. \A i \in processed : Placed(i) => Placed(i)'
    BY <1>1, <2>4 DEF Placed, NamesKept, IsService, ComponentKey, SubTypeOf
  <2>8. document' = "refused" => Refusable'
    BY <2>4 DEF ReasonAdded, Refusable
  <2> QED
    BY <1>1, <2>4, <2>5, <2>6, <2>7, <2>8 DEF DocInv, NamesKept
<1> QED
  BY <1>3, <1>4

LEMMA ProcessKeeps ==
    ASSUME DocInv, Process
    PROVE  DocInv'
<1> USE DEF DocBuilding, DocIdle
<1> DEFINE item == Head(items)
<1>1. /\ document = "building" /\ subject = <<>> /\ mentions = <<>> /\ items # <<>>
      /\ items' = Tail(items) /\ processed' = processed \cup {item}
      /\ UNCHANGED <<todo, allocated, counters, components>>
  BY DEF Process
<1>2. item \in DocItems /\ Tail(items) \in Seq(DocItems)
  BY <1>1 DEF DocInv, DocTypeOK
<1>3. NamesApart' /\ \A i \in processed : Placed(i)'
  <2>1. NamesApart'
    BY <1>1 DEF DocInv, NamesApart, PlainName, NumberedName, Taken
  <2>2. \A i \in processed : Placed(i)'
    BY <1>1 DEF DocInv, Placed, IsService, ComponentKey, SubTypeOf
  <2> QED
    BY <2>1, <2>2
<1>4. CASE item \in processed
  <2>1. UNCHANGED <<subject, mentions, document>>
    BY <1>4 DEF Process
  <2>2. DocTypeOK' /\ Subjected'
    BY <1>1, <1>2, <2>1 DEF DocInv, DocTypeOK, Subjected
  <2> QED
    BY <1>1, <1>3, <1>4, <2>1, <2>2 DEF DocInv
<1>5. CASE item \notin processed /\ item.k = "named" /\ item.key.name \notin DOMAIN Declared
  <2>1. document' = "refused" /\ UNCHANGED <<subject, mentions>>
    BY <1>5 DEF Process
  <2>2. DocTypeOK' /\ Subjected'
    BY <1>1, <1>2, <2>1 DEF DocInv, DocTypeOK, Subjected
  <2>3. Refusable'
    BY <1>1, <1>5 DEF Refusable
  <2> QED
    BY <1>1, <1>3, <2>1, <2>2, <2>3 DEF DocInv
<1>6. CASE item \notin processed /\ ~(item.k = "named" /\ item.key.name \notin DOMAIN Declared)
  <2>1. subject' = <<item>> /\ mentions' = MetFor(item) /\ UNCHANGED document
    BY <1>6 DEF Process
  <2>2. /\ MetFor(item) \in Seq(Seq(DocMentions)) /\ MetFor(item) # <<>>
        /\ Head(MetFor(item)) = <<Mention("name", ComponentKey(item), <<>>)>>
    BY <1>2, <1>6, MetForTyped
  <2>3. DocTypeOK'
    BY <1>1, <1>2, <2>1, <2>2 DEF DocInv, DocTypeOK
  <2>4. Subjected'
    <3>1. /\ Head(MetFor(item)) # <<>> /\ Head(Head(MetFor(item))).k = "name"
          /\ Head(Head(MetFor(item))).key = ComponentKey(item)
      BY <2>2 DEF Mention
    <3> QED
      BY <1>1, <2>1, <2>2, <3>1 DEF Subjected
  <2> QED
    BY <1>1, <1>3, <2>1, <2>3, <2>4 DEF DocInv
<1> QED
  BY <1>4, <1>5, <1>6

LEMMA AddKeeps ==
    ASSUME DocInv, AddComponent
    PROVE  DocInv'
<1> USE DEF DocBuilding, naming
<1>1. /\ document = "building" /\ subject # <<>> /\ mentions = <<>> /\ subject' = <<>>
      /\ UNCHANGED <<todo, items, processed, mentions, allocated, counters, document>>
  BY DEF AddComponent
<1>2. PICK i \in processed : subject = <<i>> /\ ComponentKey(i) \in DOMAIN allocated
  BY <1>1 DEF DocInv, Subjected
<1>3. Head(subject) = i
  BY <1>2
<1>4. /\ DOMAIN components \subseteq DOMAIN components'
      /\ \A c \in DOMAIN components' :
            components'[c] \in DOMAIN allocated /\ allocated[components'[c]] = c
      /\ IsService(i) \/ allocated[ComponentKey(i)] \in DOMAIN components'
  BY <1>2, <1>3 DEF AddComponent, DocInv, With
<1>5. Placed(i)'
  BY <1>1, <1>2, <1>4 DEF Placed, IsService, ComponentKey, SubTypeOf
<1>6. \A j \in processed : j # i => Placed(j)'
  BY <1>1, <1>2, <1>4 DEF DocInv, Placed, IsService, ComponentKey, SubTypeOf
<1>7. DocTypeOK' /\ NamesApart' /\ Subjected'
  BY <1>1 DEF DocInv, DocTypeOK, NamesApart, PlainName, NumberedName, Taken, Subjected
<1> QED
  BY <1>1, <1>4, <1>5, <1>6, <1>7 DEF DocInv

LEMMA DocStep == DocInv /\ [DocNext]_docVars => DocInv'
<1> SUFFICES ASSUME DocInv, [DocNext]_docVars
             PROVE  DocInv'
  OBVIOUS
<1> USE DEF DocBuilding, DocIdle, naming
<1>1. CASE Describe
  <2>1. /\ document = "building" /\ subject = <<>> /\ todo # <<>>
        /\ todo' = Tail(todo)
        /\ UNCHANGED <<items, processed, subject, components, allocated, counters, document>>
    BY <1>1 DEF Describe
  <2>2. Head(todo) \in DocEndpoint /\ Tail(todo) \in Seq(DocEndpoint)
    BY <2>1 DEF DocInv, DocTypeOK
  <2>3. mentions' \in Seq(Seq(DocMentions))
    <3>1. /\ InSchemas(Head(todo).vars) \in Seq(DocMentions)
          /\ InObjects(Head(todo).bodies) \in Seq(DocMentions)
      BY <2>2, MentionsTyped DEF DocEndpoint
    <3> QED
      BY <1>1, <3>1 DEF Describe
  <2>4. DocTypeOK' /\ NamesApart' /\ Subjected'
    BY <2>1, <2>2, <2>3 DEF DocInv, DocTypeOK, NamesApart, PlainName, NumberedName, Taken, Subjected
  <2> QED
    BY <2>1, <2>4 DEF DocInv, Placed, IsService, ComponentKey, SubTypeOf
<1>2. CASE Finish
  <2>1. /\ document = "building" /\ document' = "written" /\ subject = <<>>
        /\ UNCHANGED <<todo, items, processed, subject, mentions, allocated, counters, components>>
    BY <1>2 DEF Finish
  <2>2. DocTypeOK' /\ NamesApart' /\ Subjected'
    BY <2>1 DEF DocInv, DocTypeOK, NamesApart, PlainName, NumberedName, Taken, Subjected
  <2> QED
    BY <2>1, <2>2 DEF DocInv, Placed, IsService, ComponentKey, SubTypeOf
<1>3. CASE UNCHANGED docVars
  <2>1. UNCHANGED <<todo, items, processed, subject, mentions, components, allocated, counters, document>>
    BY <1>3 DEF docVars
  <2>2. DocTypeOK' /\ NamesApart' /\ Subjected'
    BY <2>1 DEF DocInv, DocTypeOK, NamesApart, PlainName, NumberedName, Taken, Subjected
  <2> QED
    BY <2>1, <2>2 DEF DocInv, Placed, IsService, ComponentKey, SubTypeOf, Refusable, PlainName
<1> QED
  BY <1>1, <1>2, <1>3, ReferKeeps, ProcessKeeps, AddKeeps DEF DocNext

LEMMA DocInvResolved == DocInv => Resolved
  BY DEF DocInv, Resolved, NamesApart, Placed, Refusable, PlainName

(* Resolved, of every behaviour: whatever the services and the declarations  *)
(* are, every reference leads to the component of its name, and a document   *)
(* is refused for one of the three reasons.                                  *)
THEOREM EveryReferenceResolves == DocSpec => []Resolved
<1>1. DocSpec => []DocInv
  BY DocInitial, DocStep, PTL DEF DocSpec
<1> QED
  BY <1>1, DocInvResolved, PTL

-----------------------------------------------------------------------------
(* Services.                                                               *)

(* What holds of the least counterexample holds of all: the induction over   *)
(* the length of a text below.                                               *)
LEMMA Least ==
    ASSUME NEW S, S \subseteq Nat, S # {}
    PROVE  \E n \in S : \A m \in S : n <= m
<1>1. PICK n \in S : \A m \in S : <<m, n>> \notin OpToRel(<, Nat)
  BY NatLessThanWellFounded, WFMin
<1>2. \A m \in S : ~(m < n)
  BY <1>1 DEF OpToRel
<1> QED
  BY <1>2

(* The readers of paths and the text of a path are what their equations say. *)
LEMMA LexedFor ==
    ASSUME NEW t, Len(t) \in Nat
    PROVE  \E f : f = [i \in 0..Len(t) |-> IF i = 0 THEN Lexed ELSE LexChar(f[i - 1], t[i])]
<1> DEFINE P(f, n) == f = [i \in 0..n |-> IF i = 0 THEN Lexed ELSE LexChar(f[i - 1], t[i])]
           Bad == {n \in 0..Len(t) : ~\E f : P(f, n)}
<1>1. SUFFICES ASSUME Bad # {} PROVE FALSE
  OBVIOUS
<1>2. PICK n \in Bad : \A m \in Bad : n <= m
  <2> Bad \subseteq Nat
    OBVIOUS
  <2> HIDE DEF Bad
  <2> QED
    BY <1>1, Least
<1>3. CASE n = 0
  <2> DEFINE f == [i \in 0..0 |-> Lexed]
  <2>1. P(f, 0)
    OBVIOUS
  <2> QED
    BY <1>2, <1>3, <2>1
<1>4. CASE n # 0
  <2>1. n \in 0..Len(t) /\ n - 1 \in 0..Len(t) /\ ~(n <= n - 1)
    BY <1>4
  <2> n - 1 \notin Bad
    <3> HIDE DEF Bad
    <3> QED
      BY <1>2, <2>1
  <2>2. PICK f : P(f, n - 1)
    BY <2>1
  <2> DEFINE g == [i \in 0..n |-> IF i < n THEN f[i] ELSE LexChar(f[n - 1], t[n])]
  <2>3. \A i \in 0..n : g[i] = IF i = 0 THEN Lexed ELSE LexChar(g[i - 1], t[i])
    BY <2>2, <1>4
  <2>4. P(g, n)
    BY <2>3
  <2> QED
    BY <1>2, <2>4
<1> QED
  BY <1>3, <1>4

LexedTo(t) == CHOOSE f : f = [i \in 0..Len(t) |-> IF i = 0 THEN Lexed ELSE LexChar(f[i - 1], t[i])]

LEMMA LexPathIs ==
    ASSUME NEW t, Len(t) \in Nat
    PROVE  /\ LexPath(t) = Flushed(LexedTo(t)[Len(t)])
           /\ LexedTo(t)[0] = Lexed
           /\ \A i \in 1..Len(t) : LexedTo(t)[i] = LexChar(LexedTo(t)[i - 1], t[i])
<1>1. LexPath(t) = Flushed(LexedTo(t)[Len(t)])
  BY DEF LexPath, LexedTo
<1>2. LexedTo(t) = [i \in 0..Len(t) |-> IF i = 0 THEN Lexed ELSE LexChar(LexedTo(t)[i - 1], t[i])]
  BY LexedFor DEF LexedTo
<1> HIDE DEF LexedTo
<1> QED
  BY <1>1, <1>2

LEMMA ParsedFor ==
    ASSUME NEW tokens, Len(tokens) \in Nat
    PROVE  \E f : f = [i \in 0..Len(tokens) |->
                          IF i = 0 THEN Unparsed ELSE ParseToken(f[i - 1], tokens[i])]
<1> DEFINE P(f, n) == f = [i \in 0..n |-> IF i = 0 THEN Unparsed ELSE ParseToken(f[i - 1], tokens[i])]
           Bad == {n \in 0..Len(tokens) : ~\E f : P(f, n)}
<1>1. SUFFICES ASSUME Bad # {} PROVE FALSE
  OBVIOUS
<1>2. PICK n \in Bad : \A m \in Bad : n <= m
  <2> Bad \subseteq Nat
    OBVIOUS
  <2> HIDE DEF Bad
  <2> QED
    BY <1>1, Least
<1>3. CASE n = 0
  <2> DEFINE f == [i \in 0..0 |-> Unparsed]
  <2>1. P(f, 0)
    OBVIOUS
  <2> QED
    BY <1>2, <1>3, <2>1
<1>4. CASE n # 0
  <2>1. n \in 0..Len(tokens) /\ n - 1 \in 0..Len(tokens) /\ ~(n <= n - 1)
    BY <1>4
  <2> n - 1 \notin Bad
    <3> HIDE DEF Bad
    <3> QED
      BY <1>2, <2>1
  <2>2. PICK f : P(f, n - 1)
    BY <2>1
  <2> DEFINE g == [i \in 0..n |-> IF i < n THEN f[i] ELSE ParseToken(f[n - 1], tokens[n])]
  <2>3. \A i \in 0..n : g[i] = IF i = 0 THEN Unparsed ELSE ParseToken(g[i - 1], tokens[i])
    BY <2>2, <1>4
  <2>4. P(g, n)
    BY <2>3
  <2> QED
    BY <1>2, <2>4
<1> QED
  BY <1>3, <1>4

ParsedTo(tokens) ==
    CHOOSE f : f = [i \in 0..Len(tokens) |->
                       IF i = 0 THEN Unparsed ELSE ParseToken(f[i - 1], tokens[i])]

LEMMA ParsePathIs ==
    ASSUME NEW tokens, Len(tokens) \in Nat
    PROVE  /\ ParsePath(tokens) = ParsedTo(tokens)[Len(tokens)]
           /\ ParsedTo(tokens)[0] = Unparsed
           /\ \A i \in 1..Len(tokens) :
                 ParsedTo(tokens)[i] = ParseToken(ParsedTo(tokens)[i - 1], tokens[i])
<1>1. ParsePath(tokens) = ParsedTo(tokens)[Len(tokens)]
  BY DEF ParsePath, ParsedTo
<1>2. ParsedTo(tokens) =
         [i \in 0..Len(tokens) |->
             IF i = 0 THEN Unparsed ELSE ParseToken(ParsedTo(tokens)[i - 1], tokens[i])]
  BY ParsedFor DEF ParsedTo
<1> HIDE DEF ParsedTo
<1> QED
  BY <1>1, <1>2

LEMMA FlatFor ==
    ASSUME NEW s, Len(s) \in Nat \ {0}
    PROVE  \E f : f = [i \in 1..Len(s) |-> IF i = 1 THEN s[i] ELSE f[i - 1] \o s[i]]
<1> DEFINE P(f, n) == f = [i \in 1..n |-> IF i = 1 THEN s[i] ELSE f[i - 1] \o s[i]]
           Bad == {n \in 1..Len(s) : ~\E f : P(f, n)}
<1>1. SUFFICES ASSUME Bad # {} PROVE FALSE
  <2> Len(s) \in 1..Len(s)
    OBVIOUS
  <2> QED
    OBVIOUS
<1>2. PICK n \in Bad : \A m \in Bad : n <= m
  <2> \A n \in 1..Len(s) : n \in Nat
    OBVIOUS
  <2> Bad \subseteq Nat
    OBVIOUS
  <2> HIDE DEF Bad
  <2> QED
    BY <1>1, Least
<1>3. CASE n = 1
  <2> DEFINE f == [i \in 1..1 |-> s[i]]
  <2>1. P(f, 1)
    OBVIOUS
  <2> QED
    BY <1>2, <1>3, <2>1
<1>4. CASE n # 1
  <2>1. n \in 1..Len(s) /\ n - 1 \in 1..Len(s) /\ ~(n <= n - 1)
    BY <1>4
  <2> n - 1 \notin Bad
    <3> HIDE DEF Bad
    <3> QED
      BY <1>2, <2>1
  <2>2. PICK f : P(f, n - 1)
    BY <2>1
  <2> DEFINE g == [i \in 1..n |-> IF i < n THEN f[i] ELSE f[n - 1] \o s[n]]
  <2>3. ASSUME NEW i \in 1..n
        PROVE  g[i] = IF i = 1 THEN s[i] ELSE g[i - 1] \o s[i]
    <3>1. i \in Int /\ n \in Int /\ (i # 1 => i - 1 \in 1..n /\ i - 1 < n)
      BY <2>1
    <3>2. CASE i = n
      <4>1. i # 1 /\ n - 1 \in 1..n /\ n - 1 < n /\ ~(n < n)
        BY <1>4, <3>1, <3>2
      <4>2. g[n] = f[n - 1] \o s[n] /\ g[n - 1] = f[n - 1]
        BY <3>1, <3>2, <4>1
      <4> QED
        BY <3>2, <4>1, <4>2
    <3>3. CASE i # n
      <4>1. i \in 1..(n - 1) /\ i < n
        BY <3>1, <3>3
      <4>2. f[i] = IF i = 1 THEN s[i] ELSE f[i - 1] \o s[i]
        BY <2>2, <4>1
      <4> QED
        BY <3>1, <4>1, <4>2
    <3> QED
      BY <3>2, <3>3
  <2>4. P(g, n)
    BY <2>3
  <2> QED
    BY <1>2, <2>4
<1> QED
  BY <1>3, <1>4

FlatTo(s) == CHOOSE f : f = [i \in 1..Len(s) |-> IF i = 1 THEN s[i] ELSE f[i - 1] \o s[i]]

LEMMA FlattenSeqIs ==
    ASSUME NEW s, Len(s) \in Nat \ {0}
    PROVE  /\ FlattenSeq(s) = FlatTo(s)[Len(s)]
           /\ FlatTo(s)[1] = s[1]
           /\ \A i \in 2..Len(s) : FlatTo(s)[i] = FlatTo(s)[i - 1] \o s[i]
<1>1. FlattenSeq(s) = FlatTo(s)[Len(s)]
  BY DEF FlattenSeq, FlatTo
<1>2. FlatTo(s) = [i \in 1..Len(s) |-> IF i = 1 THEN s[i] ELSE FlatTo(s)[i - 1] \o s[i]]
  BY FlatFor DEF FlatTo
<1> HIDE DEF FlatTo
<1>3. FlatTo(s)[1] = s[1]
  <2> 1 \in 1..Len(s)
    OBVIOUS
  <2> QED
    BY <1>2
<1>4. ASSUME NEW i \in 2..Len(s)
      PROVE  FlatTo(s)[i] = FlatTo(s)[i - 1] \o s[i]
  <2> i \in 1..Len(s) /\ i # 1
    OBVIOUS
  <2> QED
    BY <1>2
<1> QED
  BY <1>1, <1>3, <1>4

(* Where each of the first n pieces of a text is in it. *)
LaidOut(s, n, t, at) ==
    /\ at \in [1..(n + 1) -> Nat] /\ at[1] = 0 /\ at[n + 1] = Len(t)
    /\ \A i \in 1..n :
          /\ at[i + 1] = at[i] + Len(s[i])
          /\ \A m \in 1..Len(s[i]) : at[i] + m \in 1..Len(t) /\ t[at[i] + m] = s[i][m]

LEMMA LaidMore ==
    ASSUME NEW C, NEW s, NEW n \in Nat, NEW t \in Seq(C), s[n + 1] \in Seq(C),
           NEW at, LaidOut(s, n, t, at)
    PROVE  t \o s[n + 1] \in Seq(C) /\ \E on : LaidOut(s, n + 1, t \o s[n + 1], on)
<1> DEFINE k == n + 1
           x == s[n + 1]
           u == t \o x
           on == [i \in 1..(k + 1) |-> IF i <= k THEN at[i] ELSE Len(u)]
<1>1. /\ u \in Seq(C) /\ Len(u) = Len(t) + Len(x) /\ Len(u) \in Nat /\ Len(t) \in Nat /\ Len(x) \in Nat
      /\ \A m \in 1..Len(t) : u[m] = t[m]
      /\ \A m \in 1..Len(x) : u[Len(t) + m] = x[m]
  OBVIOUS
<1> HIDE DEF u
<1>2. /\ k \in Nat /\ at \in [1..k -> Nat] /\ at[1] = 0 /\ at[k] = Len(t)
      /\ \A i \in 1..n :
            /\ at[i + 1] = at[i] + Len(s[i])
            /\ \A m \in 1..Len(s[i]) : at[i] + m \in 1..Len(t) /\ t[at[i] + m] = s[i][m]
  BY DEF LaidOut
<1> HIDE DEF x
<1>3. /\ on \in [1..(k + 1) -> Nat] /\ on[1] = 0 /\ on[k + 1] = Len(u) /\ on[k] = Len(t)
  BY <1>1, <1>2
<1>4. ASSUME NEW i \in 1..k
      PROVE  /\ on[i + 1] = on[i] + Len(s[i])
             /\ \A m \in 1..Len(s[i]) : on[i] + m \in 1..Len(u) /\ u[on[i] + m] = s[i][m]
  <2>1. CASE i = k
    <3>1. s[i] = x
      BY <2>1 DEF x
    <3> HIDE DEF on
    <3>2. on[i] = Len(t) /\ on[i + 1] = Len(u)
      BY <1>3, <2>1
    <3>3. \A m \in 1..Len(x) : Len(t) + m \in 1..Len(u) /\ u[Len(t) + m] = x[m]
      BY <1>1
    <3> QED
      BY <1>1, <3>1, <3>2, <3>3
  <2>2. CASE i # k
    <3>1. i \in 1..n /\ i + 1 \in 1..(k + 1) /\ i \in 1..(k + 1) /\ i + 1 <= k /\ i <= k
      BY <2>2
    <3>2. on[i + 1] = at[i + 1] /\ on[i] = at[i] /\ at[i] \in Nat
      BY <1>2, <3>1
    <3>3. /\ at[i + 1] = at[i] + Len(s[i])
          /\ \A m \in 1..Len(s[i]) : at[i] + m \in 1..Len(t) /\ t[at[i] + m] = s[i][m]
      BY <1>2, <3>1
    <3> HIDE DEF on
    <3>4. ASSUME NEW m \in 1..Len(s[i])
          PROVE  at[i] + m \in 1..Len(u) /\ u[at[i] + m] = s[i][m]
      <4>1. at[i] + m \in 1..Len(t) /\ t[at[i] + m] = s[i][m]
        BY <3>3
      <4>2. 1..Len(t) \subseteq 1..Len(u)
        BY <1>1
      <4> QED
        BY <1>1, <4>1, <4>2
    <3> QED
      BY <3>2, <3>3, <3>4
  <2> QED
    BY <2>1, <2>2
<1>5. LaidOut(s, n + 1, u, on)
  <2> HIDE DEF on
  <2> QED
    BY <1>3, <1>4 DEF LaidOut
<1> QED
  BY <1>1, <1>5 DEF u, x

LEMMA Laid ==
    ASSUME NEW C, NEW s \in Seq(Seq(C))
    PROVE  FlattenSeq(s) \in Seq(C) /\ \E at : LaidOut(s, Len(s), FlattenSeq(s), at)
<1>1. CASE s = <<>>
  <2>1. FlattenSeq(s) = <<>>
    BY <1>1 DEF FlattenSeq
  <2> DEFINE at == [i \in 1..1 |-> 0]
  <2>2. LaidOut(s, 0, <<>>, at)
    BY <1>1 DEF LaidOut
  <2>3. Len(s) = 0 /\ <<>> \in Seq(C)
    BY <1>1
  <2> HIDE DEF at
  <2> QED
    BY <2>1, <2>2, <2>3
<1>2. CASE s # <<>>
  <2> DEFINE F == FlatTo(s)
             P(n) == F[n] \in Seq(C) /\ \E at : LaidOut(s, n, F[n], at)
             Bad == {n \in 1..Len(s) : ~P(n)}
  <2>1. Len(s) \in Nat \ {0}
    BY <1>2
  <2>2. /\ FlattenSeq(s) = F[Len(s)] /\ F[1] = s[1]
        /\ \A i \in 2..Len(s) : F[i] = F[i - 1] \o s[i]
    BY <2>1, FlattenSeqIs
  <2>3. \A i \in 1..Len(s) : s[i] \in Seq(C)
    OBVIOUS
  <2> HIDE DEF F
  <2>4. Bad = {}
    <3>1. SUFFICES ASSUME Bad # {} PROVE FALSE
      OBVIOUS
    <3>2. PICK n \in Bad : \A m \in Bad : n <= m
      <4> Bad \subseteq Nat
        BY <2>1
      <4> HIDE DEF Bad
      <4> QED
        BY <3>1, Least
    <3>3. CASE n = 1
      <4> DEFINE at == [i \in 1..1 |-> 0]
      <4>1. LaidOut(s, 0, <<>>, at)
        BY DEF LaidOut
      <4>2. 1 \in 1..Len(s) /\ s[0 + 1] \in Seq(C) /\ F[1] = s[0 + 1] /\ <<>> \in Seq(C) /\ 0 + 1 = 1
        BY <2>1, <2>2, <2>3
      <4>3. <<>> \o s[0 + 1] = F[1]
        BY <4>2
      <4> HIDE DEF at
      <4>4. /\ <<>> \o s[0 + 1] \in Seq(C)
            /\ \E on : LaidOut(s, 0 + 1, <<>> \o s[0 + 1], on)
        BY <4>1, <4>2, LaidMore
      <4>5. P(1)
        BY <4>2, <4>3, <4>4
      <4> QED
        BY <3>2, <3>3, <4>5
    <3>4. CASE n # 1
      <4>1. n \in 2..Len(s) /\ n \in 1..Len(s) /\ n - 1 \in 1..Len(s) /\ n - 1 \in Nat /\ ~(n <= n - 1) /\ n - 1 + 1 = n
        BY <2>1, <3>4
      <4>2. P(n - 1)
        <5>1. n - 1 \notin Bad
          <6> HIDE DEF Bad
          <6> QED
            BY <3>2, <4>1
        <5> HIDE DEF P
        <5> QED
          BY <4>1, <5>1
      <4>3. PICK at : LaidOut(s, n - 1, F[n - 1], at)
        BY <4>2
      <4>4. F[n] = F[n - 1] \o s[n - 1 + 1] /\ F[n - 1] \in Seq(C) /\ s[n - 1 + 1] \in Seq(C)
        BY <2>2, <2>3, <4>1, <4>2
      <4>5. P(n)
        BY <4>1, <4>3, <4>4, LaidMore
      <4> HIDE DEF P
      <4> QED
        BY <3>2, <4>5
    <3> QED
      BY <3>3, <3>4
  <2>5. P(Len(s))
    <3> Len(s) \in 1..Len(s)
      BY <2>1
    <3> HIDE DEF P
    <3> QED
      BY <2>4
  <2> QED
    BY <2>2, <2>5
<1> QED
  BY <1>1, <1>2

(* As long as the pieces are the same, they are in the same place. *)
LEMMA SameStart ==
    ASSUME NEW p, NEW q, NEW n \in Nat, NEW t, NEW u, NEW at, NEW an,
           LaidOut(p, n, t, at), LaidOut(q, n, u, an),
           NEW k \in 1..n, \A i \in 1..(k - 1) : p[i] = q[i]
    PROVE  at[k] = an[k]
<1> DEFINE Bad == {i \in 1..k : at[i] # an[i]}
<1>1. SUFFICES ASSUME Bad # {} PROVE FALSE
  <2> k \in 1..k
    OBVIOUS
  <2> QED
    OBVIOUS
<1>2. PICK i \in Bad : \A j \in Bad : i <= j
  <2> Bad \subseteq Nat
    OBVIOUS
  <2> HIDE DEF Bad
  <2> QED
    BY <1>1, Least
<1>3. i # 1
  BY <1>2 DEF LaidOut
<1>4. i - 1 \in 1..k /\ i - 1 \in 1..(k - 1) /\ i - 1 \in 1..n /\ ~(i <= i - 1) /\ i - 1 + 1 = i
  BY <1>3
<1>5. at[i - 1] = an[i - 1]
  <2> i - 1 \notin Bad
    <3> HIDE DEF Bad
    <3> QED
      BY <1>2, <1>4
  <2> QED
    BY <1>4
<1>6. at[i] = at[i - 1] + Len(p[i - 1]) /\ an[i] = an[i - 1] + Len(q[i - 1])
  BY <1>4 DEF LaidOut
<1> QED
  BY <1>2, <1>4, <1>5, <1>6

(* What is written as it is, but has no place in an escaped text. *)
Raw == Char \ Unescaped

(* A piece in which there is nothing raw cannot be shorter in one of two     *)
(* readings of a text when the next piece is the same and has something raw. *)
LEMMA NoShorter ==
    ASSUME NEW C, NEW n \in Nat, NEW p, NEW q,
           \A i \in 1..n : p[i] \in Seq(C) /\ q[i] \in Seq(C),
           NEW t, NEW at, NEW an, LaidOut(p, n, t, at), LaidOut(q, n, t, an),
           NEW k \in 1..n, at[k] = an[k],
           \A m \in 1..Len(q[k]) : q[k][m] \notin Raw,
           k < n => p[k + 1] = q[k + 1] /\ \E m \in 1..Len(p[k + 1]) : p[k + 1][m] \in Raw
    PROVE  ~(Len(p[k]) < Len(q[k]))
<1>1. SUFFICES ASSUME Len(p[k]) < Len(q[k]) PROVE FALSE
  OBVIOUS
<1> DEFINE lp == Len(p[k])
           lq == Len(q[k])
<1>2. /\ lp \in Nat /\ lq \in Nat /\ lp < lq /\ at[k] \in Nat
      /\ at[k + 1] = at[k] + lp /\ an[k + 1] = at[k] + lq
  <2>1. at[k] \in Nat /\ at[k + 1] = at[k] + lp /\ an[k + 1] = at[k] + lq
    BY DEF LaidOut
  <2>2. p[k] \in Seq(C) /\ q[k] \in Seq(C)
    OBVIOUS
  <2> QED
    BY <1>1, <2>1, <2>2
<1>3. \A m \in 1..lq : t[at[k] + m] \notin Raw
  <2> SUFFICES ASSUME NEW m \in 1..lq PROVE t[at[k] + m] \notin Raw
    OBVIOUS
  <2>1. t[an[k] + m] = q[k][m]
    BY DEF LaidOut
  <2> QED
    BY <2>1
<1> HIDE DEF lp, lq
<1>4. CASE k = n
  BY <1>2, <1>4 DEF LaidOut
<1>5. CASE k # n
  <2> DEFINE w == p[k + 1]
             M == {m \in 1..Len(w) : w[m] \in Raw}
  <2>1. k + 1 \in 1..n /\ k < n
    BY <1>5
  <2>2. /\ w \in Seq(C) /\ Len(w) \in Nat /\ q[k + 1] = w
        /\ M \subseteq Nat /\ M # {}
    <3>1. w \in Seq(C) /\ q[k + 1] = w /\ \E m \in 1..Len(w) : w[m] \in Raw
      BY <2>1
    <3> HIDE DEF w
    <3> QED
      BY <3>1
  <2>3. PICK m \in M : \A j \in M : m <= j
    <3> HIDE DEF M
    <3> QED
      BY <2>2, Least
  <2>4. ASSUME NEW j \in 1..Len(w)
        PROVE  t[at[k + 1] + j] = w[j] /\ t[an[k + 1] + j] = w[j]
    <3>1. t[at[k + 1] + j] = p[k + 1][j]
      BY <2>1 DEF LaidOut
    <3>2. j \in 1..Len(q[k + 1])
      BY <2>2
    <3>3. t[an[k + 1] + j] = q[k + 1][j]
      BY <2>1, <3>2 DEF LaidOut
    <3> QED
      BY <2>2, <3>1, <3>3
  <2> HIDE DEF w
  <2>5. m \in 1..Len(w) /\ m \in Nat /\ w[m] \in Raw /\ at[k + 1] + m = at[k] + (lp + m)
    BY <1>2, <2>2, <2>3
  <2>6. t[at[k] + (lp + m)] \in Raw
    BY <2>4, <2>5
  <2>7. CASE lp + m <= lq
    <3> lp + m \in 1..lq
      BY <1>2, <2>5, <2>7
    <3> QED
      BY <1>3, <2>6
  <2>8. CASE ~(lp + m <= lq)
    <3> DEFINE j == lp + m - lq
    <3>1. lp + m - lq \in 1..Len(w) /\ ~(m <= lp + m - lq)
      <4>1. lp \in Nat /\ lq \in Nat /\ lp < lq /\ m \in Nat /\ m <= Len(w) /\ Len(w) \in Nat
        BY <1>2, <2>2, <2>5
      <4> QED
        BY <2>8, <4>1
    <3>2. at[k] + lq + (lp + m - lq) = at[k] + (lp + m)
      BY <1>2, <2>5
    <3>3. j \in 1..Len(w) /\ ~(m <= j) /\ an[k + 1] + j = at[k] + (lp + m)
      BY <1>2, <3>1, <3>2
    <3>4. w[j] \in Raw
      <4> HIDE DEF j
      <4> QED
        BY <2>4, <2>6, <3>3
    <3>5. j \in M
      BY <3>3, <3>4
    <3> HIDE DEF M, j
    <3> QED
      BY <2>3, <3>3, <3>5
  <2> QED
    BY <2>7, <2>8
<1> QED
  BY <1>4, <1>5

(* Pieces that differ have nothing raw in them, and what follows them is the *)
(* same, with something raw, or nothing.                                     *)
Fenced(p, q, k) ==
    p[k] # q[k] =>
       /\ \A m \in 1..Len(p[k]) : p[k][m] \notin Raw
       /\ \A m \in 1..Len(q[k]) : q[k][m] \notin Raw
       /\ k < Len(p) => /\ p[k + 1] = q[k + 1]
                        /\ \E m \in 1..Len(p[k + 1]) : p[k + 1][m] \in Raw

(* A text of such pieces is read in one way. *)
LEMMA OneReading ==
    ASSUME NEW C, NEW p \in Seq(Seq(C)), NEW q \in Seq(Seq(C)), Len(p) = Len(q),
           FlattenSeq(p) = FlattenSeq(q),
           \A k \in 1..Len(p) : Fenced(p, q, k)
    PROVE  \A k \in 1..Len(p) : p[k] = q[k]
<1> DEFINE n == Len(p)
           t == FlattenSeq(p)
           Bad == {k \in 1..n : p[k] # q[k]}
<1>1. SUFFICES ASSUME Bad # {} PROVE FALSE
  OBVIOUS
<1>2. n \in Nat /\ \A i \in 1..n : p[i] \in Seq(C) /\ q[i] \in Seq(C)
  OBVIOUS
<1>3. PICK k \in Bad : \A j \in Bad : k <= j
  <2> Bad \subseteq Nat
    BY <1>2
  <2> HIDE DEF Bad
  <2> QED
    BY <1>1, Least
<1>4. PICK at : LaidOut(p, n, t, at)
  BY Laid
<1>5. PICK an : LaidOut(q, n, t, an)
  BY Laid
<1>6. /\ \A m \in 1..Len(p[k]) : p[k][m] \notin Raw
      /\ \A m \in 1..Len(q[k]) : q[k][m] \notin Raw
      /\ k < n => /\ p[k + 1] = q[k + 1]
                  /\ \E m \in 1..Len(p[k + 1]) : p[k + 1][m] \in Raw
  BY <1>3 DEF Fenced
<1>7. \A i \in 1..(k - 1) : p[i] = q[i]
  <2> SUFFICES ASSUME NEW i \in 1..(k - 1) PROVE p[i] = q[i]
    OBVIOUS
  <2>1. i \in 1..n /\ ~(k <= i)
    BY <1>2
  <2>2. i \notin Bad
    <3> HIDE DEF Bad
    <3> QED
      BY <1>3, <2>1
  <2> QED
    BY <2>1, <2>2
<1> HIDE DEF t
<1>8. k \in 1..n
  OBVIOUS
<1> HIDE DEF n, Bad
<1>9. at[k] = an[k]
  BY <1>2, <1>4, <1>5, <1>7, <1>8, SameStart
<1>10. ~(Len(p[k]) < Len(q[k]))
  BY <1>2, <1>4, <1>5, <1>6, <1>8, <1>9, NoShorter
<1>11. ~(Len(q[k]) < Len(p[k]))
  <2> an[k] = at[k] /\ (k < n => /\ q[k + 1] = p[k + 1]
                                 /\ \E m \in 1..Len(q[k + 1]) : q[k + 1][m] \in Raw)
    BY <1>6, <1>9
  <2> QED
    BY <1>2, <1>4, <1>5, <1>6, <1>8, NoShorter
<1>12. p[k] \in Seq(C) /\ q[k] \in Seq(C)
  BY <1>2, <1>8
<1>13. Len(p[k]) = Len(q[k])
  BY <1>10, <1>11, <1>12
<1>14. ASSUME NEW m \in 1..Len(p[k])
       PROVE  p[k][m] = q[k][m]
  <2>1. t[at[k] + m] = p[k][m]
    BY <1>4, <1>8 DEF LaidOut
  <2>2. m \in 1..Len(q[k])
    BY <1>13
  <2>3. t[an[k] + m] = q[k][m]
    BY <1>5, <1>8, <2>2 DEF LaidOut
  <2> QED
    BY <1>9, <2>1, <2>3
<1>15. p[k] = q[k]
  <2> DEFINE x == p[k]
             y == q[k]
  <2>1. x \in Seq(C) /\ y \in Seq(C) /\ Len(x) = Len(y) /\ \A m \in 1..Len(x) : x[m] = y[m]
    BY <1>12, <1>13, <1>14
  <2> HIDE DEF x, y
  <2>2. x = y
    <3>1. x = [m \in 1..Len(x) |-> x[m]] /\ y = [m \in 1..Len(y) |-> y[m]]
      BY <2>1
    <3> QED
      BY <2>1, <3>1
  <2> QED
    BY <2>2 DEF x, y
<1> QED
  BY <1>3, <1>15 DEF Bad

-----------------------------------------------------------------------------
(* What a path reads as: it is made of slashes, segments and variables with  *)
(* some text, and starts with a slash but never with two.                    *)
PathTokens == {k \in [k : {"/", "{", "}", "segment", "identifier"}, text : Seq(Char)] :
             k.text # <<>> /\ (k.k = "/" => k.text = <<"/">>)}
PartOfPath == {k \in [k : {"/", "segment", "variable"}, text : Seq(Char)] :
                  k.text # <<>> /\ (k.k = "/" => k.text = <<"/">>)}
PathRead(path) ==
    /\ path \in Seq(PartOfPath)
    /\ path # <<>> => path[1].k = "/"
    /\ \A i \in 1..Len(path) : i < Len(path) /\ path[i].k = "/" => path[i + 1].k # "/"

LexerState == [tokens : Seq(PathTokens), buffer : Seq(Char), variable : BOOLEAN,
               escaped : BOOLEAN, ok : BOOLEAN]

LEMMA CharsKnown ==
    /\ Special \subseteq Char /\ Letters \subseteq Char /\ Numerals \subseteq Char
    /\ "/" \in Special
BY ServiceAssumption DEF Char, Unescaped, Special

LEMMA OneMore ==
    ASSUME NEW S, NEW c \in S
    PROVE  /\ <<c>> \in Seq(S) /\ <<c>> # <<>>
           /\ \A t \in Seq(S) : Append(t, c) \in Seq(S) /\ Append(t, c) # <<>>
<1> SUFFICES ASSUME NEW t \in Seq(S)
             PROVE  /\ <<c>> \in Seq(S) /\ <<c>> # <<>>
                    /\ Append(t, c) \in Seq(S) /\ Append(t, c) # <<>>
  <2> <<>> \in Seq(S)
    OBVIOUS
  <2> QED
    OBVIOUS
<1>1. Len(<<c>>) = 1 /\ Len(Append(t, c)) = Len(t) + 1 /\ Len(t) \in Nat /\ Len(<<>>) = 0
  OBVIOUS
<1>2. <<c>> \in Seq(S) /\ Append(t, c) \in Seq(S)
  OBVIOUS
<1> QED
  BY <1>1, <1>2

LEMMA FlushedType ==
    ASSUME NEW l \in LexerState
    PROVE  Flushed(l) \in LexerState
<1>1. CASE l.buffer = <<>>
  BY <1>1 DEF Flushed
<1>2. CASE l.buffer # <<>>
  <2>1. PathToken("segment", l.buffer) \in PathTokens
    BY <1>2 DEF PathToken, PathTokens, LexerState
  <2>2. l.tokens \in Seq(PathTokens) /\ <<>> \in Seq(Char)
    BY DEF LexerState
  <2>3. Append(l.tokens, PathToken("segment", l.buffer)) \in Seq(PathTokens)
    BY <2>1, <2>2, OneMore
  <2> DEFINE more == Append(l.tokens, PathToken("segment", l.buffer))
  <2>4. Flushed(l) = [l EXCEPT !.tokens = more, !.buffer = <<>>]
    BY <1>2 DEF Flushed
  <2> HIDE DEF more
  <2> QED
    BY <2>2, <2>3, <2>4 DEF LexerState, more
<1> QED
  BY <1>1, <1>2

LEMMA PunctuatedType ==
    ASSUME NEW l \in LexerState, NEW c \in {"/", "{", "}"}, NEW inside \in BOOLEAN
    PROVE  Punctuated(l, c, inside) \in LexerState
<1> DEFINE f == Flushed(l)
<1>1. f \in LexerState
  BY FlushedType
<1>2. PathToken(c, <<c>>) \in PathTokens
  <2>1. <<c>> \in Seq(Char) /\ <<c>> # <<>>
    <3> c \in Char
      BY CharsKnown DEF Special
    <3> QED
      BY OneMore
  <2> QED
    BY <2>1 DEF PathToken, PathTokens
<1> HIDE DEF f
<1>3. Append(f.tokens, PathToken(c, <<c>>)) \in Seq(PathTokens)
  <2> f.tokens \in Seq(PathTokens)
    BY <1>1 DEF LexerState
  <2> QED
    BY <1>2, OneMore
<1>4. [f EXCEPT !.tokens = Append(@, PathToken(c, <<c>>)), !.variable = inside] \in LexerState
  BY <1>1, <1>3 DEF LexerState
<1> QED
  BY <1>4 DEF Punctuated, f

LEMMA IdentifiedType ==
    ASSUME NEW l \in LexerState, NEW c \in Char
    PROVE  Identified(l, c) \in LexerState
<1> l.tokens \in Seq(PathTokens)
  BY DEF LexerState
<1>1. CASE Naming(l)
  <2> DEFINE n == Len(l.tokens)
             k == l.tokens[n]
             named == [k EXCEPT !.text = Append(@, c)]
  <2>1. n \in 1..Len(l.tokens) /\ k \in PathTokens /\ k.k = "identifier"
    BY <1>1 DEF Naming, Last
  <2>2. named \in PathTokens
    <3> HIDE DEF k
    <3>1. Append(k.text, c) \in Seq(Char) /\ Append(k.text, c) # <<>>
      <4> k.text \in Seq(Char)
        BY <2>1 DEF PathTokens
      <4> QED
        BY OneMore
    <3> QED
      BY <2>1, <3>1 DEF PathTokens
  <2> HIDE DEF named
  <2>3. [l.tokens EXCEPT ![n] = named] \in Seq(PathTokens)
    BY <2>1, <2>2
  <2>4. [l EXCEPT !.tokens = [l.tokens EXCEPT ![n] = named]] \in LexerState
    BY <2>3 DEF LexerState
  <2>5. Identified(l, c) = [l EXCEPT !.tokens = [l.tokens EXCEPT ![n] = named]]
    BY <1>1 DEF Identified, named
  <2> QED
    BY <2>4, <2>5
<1>2. CASE ~Naming(l)
  <2>1. PathToken("identifier", <<c>>) \in PathTokens
    <3> <<c>> \in Seq(Char) /\ <<c>> # <<>>
      BY OneMore
    <3> QED
      BY DEF PathToken, PathTokens
  <2>2. Append(l.tokens, PathToken("identifier", <<c>>)) \in Seq(PathTokens)
    BY <2>1, OneMore
  <2> QED
    BY <1>2, <2>2 DEF Identified, LexerState
<1> QED
  BY <1>1, <1>2

LEMMA LexCharType ==
    ASSUME NEW l \in LexerState, NEW c \in Char
    PROVE  LexChar(l, c) \in LexerState
<1>1. Unexpected(l) \in LexerState
  BY DEF Unexpected, LexerState
<1>2. Buffered(l, c) \in LexerState
  <2> Append(l.buffer, c) \in Seq(Char)
    BY DEF LexerState
  <2> QED
    BY DEF Buffered, LexerState
<1>3. [l EXCEPT !.escaped = TRUE] \in LexerState
  BY DEF LexerState
<1>4. Identified(l, c) \in LexerState
  BY IdentifiedType
<1>5. \A d \in {"/", "{", "}"}, b \in BOOLEAN : Punctuated(l, d, b) \in LexerState
  BY PunctuatedType
<1>6. l.variable \in BOOLEAN
  BY DEF LexerState
<1> QED
  BY <1>1, <1>2, <1>3, <1>4, <1>5, <1>6 DEF LexChar

LEMMA LexPathType ==
    ASSUME NEW t \in Seq(Char)
    PROVE  LexPath(t) \in LexerState
<1> DEFINE L == LexedTo(t)
           Bad == {i \in 0..Len(t) : L[i] \notin LexerState}
<1>1. /\ LexPath(t) = Flushed(L[Len(t)]) /\ L[0] = Lexed
      /\ \A i \in 1..Len(t) : L[i] = LexChar(L[i - 1], t[i])
  BY LexPathIs
<1> HIDE DEF L
<1>2. Bad = {}
  <2>1. SUFFICES ASSUME Bad # {} PROVE FALSE
    OBVIOUS
  <2>2. PICK i \in Bad : \A j \in Bad : i <= j
    <3> Bad \subseteq Nat
      OBVIOUS
    <3> HIDE DEF Bad
    <3> QED
      BY <2>1, Least
  <2>3. i # 0
    <3> Lexed \in LexerState
      BY DEF Lexed, LexerState
    <3> QED
      BY <1>1, <2>2
  <2>4. i \in 1..Len(t) /\ i - 1 \in 0..Len(t) /\ ~(i <= i - 1) /\ t[i] \in Char
    BY <2>3
  <2>5. L[i - 1] \in LexerState
    <3> i - 1 \notin Bad
      <4> HIDE DEF Bad
      <4> QED
        BY <2>2, <2>4
    <3> QED
      BY <2>4
  <2>6. L[i] \in LexerState
    BY <1>1, <2>4, <2>5, LexCharType
  <2> QED
    BY <2>2, <2>6
<1>3. L[Len(t)] \in LexerState
  <2> Len(t) \in 0..Len(t)
    OBVIOUS
  <2> QED
    BY <1>2
<1> QED
  BY <1>1, <1>3, FlushedType

ParserState(p) ==
    /\ p \in [path : Seq(PartOfPath), want : {"part", "name", "close", "error"}]
    /\ PathRead(p.path)
    /\ p.want \in {"name", "close"} => p.path # <<>>

LEMMA PathReadMore ==
    ASSUME NEW path, PathRead(path), NEW x \in PartOfPath,
           path = <<>> => x.k = "/",
           path # <<>> /\ Last(path).k = "/" => x.k # "/"
    PROVE  PathRead(Append(path, x)) /\ Append(path, x) # <<>>
<1> DEFINE more == Append(path, x)
<1>1. path \in Seq(PartOfPath) /\ Len(path) \in Nat
  BY DEF PathRead
<1>2. more \in Seq(PartOfPath) /\ more # <<>>
  BY <1>1, OneMore
<1>3. /\ Len(more) = Len(path) + 1 /\ more[Len(path) + 1] = x
      /\ \A i \in 1..Len(path) : more[i] = path[i]
  BY <1>1
<1> HIDE DEF more
<1>4. more[1].k = "/"
  <2>1. CASE path = <<>>
    <3> Len(path) = 0
      BY <2>1
    <3> QED
      BY <1>3, <2>1
  <2>2. CASE path # <<>>
    <3> 1 \in 1..Len(path)
      BY <1>1, <2>2
    <3> QED
      BY <1>3, <2>2 DEF PathRead
  <2> QED
    BY <2>1, <2>2
<1>5. ASSUME NEW i \in 1..Len(more), i < Len(more), more[i].k = "/"
      PROVE  more[i + 1].k # "/"
  <2>1. i \in 1..Len(path) /\ more[i] = path[i]
    BY <1>1, <1>3, <1>5
  <2>2. CASE i = Len(path)
    <3> path # <<>> /\ Last(path) = path[i]
      BY <2>1, <2>2 DEF Last
    <3> QED
      BY <1>3, <1>5, <2>1, <2>2
  <2>3. CASE i # Len(path)
    <3> i < Len(path) /\ i + 1 \in 1..Len(path)
      BY <1>1, <2>1, <2>3
    <3> QED
      BY <1>3, <1>5, <2>1 DEF PathRead
  <2> QED
    BY <2>2, <2>3
<1> QED
  BY <1>2, <1>4, <1>5 DEF PathRead, more

LEMMA ParseTokenType ==
    ASSUME NEW p, ParserState(p), NEW t \in PathTokens
    PROVE  ParserState(ParseToken(p, t))
<1> DEFINE AnyState == [path : Seq(PartOfPath), want : {"part", "name", "close", "error"}]
           with(k) == Append(p.path, PathPart(k, t.text))
<1>1. /\ p \in AnyState /\ PathRead(p.path) /\ p.path \in Seq(PartOfPath)
      /\ p.want \in {"name", "close"} => p.path # <<>>
  BY DEF ParserState
<1>2. /\ \A k \in {"segment", "variable"} : PathPart(k, t.text) \in PartOfPath
      /\ t.k = "/" => PathPart("/", t.text) \in PartOfPath
  BY DEF PathPart, PartOfPath, PathTokens
<1>3. ASSUME NEW k \in {"segment", "variable"}, p.path # <<>>
      PROVE  PathRead(with(k)) /\ with(k) # <<>>
  <2> PathPart(k, t.text).k # "/"
    BY DEF PathPart
  <2> QED
    BY <1>1, <1>2, <1>3, PathReadMore
<1>4. ASSUME t.k = "/", ~Opened(p)
      PROVE  PathRead(with("/")) /\ with("/") # <<>>
  <2> PathPart("/", t.text).k = "/"
    BY DEF PathPart
  <2> QED
    BY <1>1, <1>2, <1>4, PathReadMore DEF Opened
<1>5. \A s, w : s \in Seq(PartOfPath) /\ w \in {"part", "name", "close", "error"} =>
         /\ [p EXCEPT !.path = s, !.want = w] \in AnyState
         /\ [p EXCEPT !.path = s] \in AnyState
         /\ [p EXCEPT !.want = w] \in AnyState
  BY <1>1
<1>6. CASE p.want = "part" /\ t.k = "/" /\ ~Opened(p)
  <2>1. ParseToken(p, t) = [p EXCEPT !.path = with("/")]
    BY <1>6 DEF ParseToken
  <2>2. PathRead(with("/")) /\ with("/") \in Seq(PartOfPath)
    BY <1>4, <1>6 DEF PathRead
  <2> HIDE DEF with
  <2> QED
    BY <1>1, <1>6, <2>1, <2>2 DEF ParserState
<1>7. CASE p.want = "part" /\ t.k = "segment" /\ p.path # <<>>
  <2>1. ParseToken(p, t) = [p EXCEPT !.path = with("segment")]
    BY <1>7 DEF ParseToken
  <2>2. PathRead(with("segment")) /\ with("segment") \in Seq(PartOfPath)
    BY <1>3, <1>7 DEF PathRead
  <2> HIDE DEF with
  <2> QED
    BY <1>1, <1>7, <2>1, <2>2 DEF ParserState
<1>8. CASE p.want = "part" /\ t.k = "{" /\ p.path # <<>>
  <2>1. ParseToken(p, t) = [p EXCEPT !.want = "name"]
    BY <1>8 DEF ParseToken
  <2> QED
    BY <1>1, <1>8, <2>1 DEF ParserState
<1>9. CASE p.want = "name" /\ t.k = "identifier"
  <2>1. ParseToken(p, t) = [p EXCEPT !.path = with("variable"), !.want = "close"]
    BY <1>9 DEF ParseToken
  <2>2. PathRead(with("variable")) /\ with("variable") \in Seq(PartOfPath) /\ with("variable") # <<>>
    BY <1>1, <1>3, <1>9 DEF PathRead
  <2> HIDE DEF with
  <2> QED
    BY <1>1, <2>1, <2>2 DEF ParserState
<1>10. CASE p.want = "close" /\ t.k = "}"
  <2>1. ParseToken(p, t) = [p EXCEPT !.want = "part"]
    BY <1>10 DEF ParseToken
  <2> QED
    BY <1>1, <1>10, <2>1 DEF ParserState
<1>11. CASE /\ ~(p.want = "part" /\ t.k = "/" /\ ~Opened(p))
            /\ ~(p.want = "part" /\ t.k = "segment" /\ p.path # <<>>)
            /\ ~(p.want = "part" /\ t.k = "{" /\ p.path # <<>>)
            /\ ~(p.want = "name" /\ t.k = "identifier")
            /\ ~(p.want = "close" /\ t.k = "}")
  <2>1. ParseToken(p, t) = [p EXCEPT !.want = "error"]
    BY <1>11 DEF ParseToken
  <2> QED
    BY <1>1, <2>1 DEF ParserState
<1> QED
  BY <1>6, <1>7, <1>8, <1>9, <1>10, <1>11

LEMMA ParsePathType ==
    ASSUME NEW tokens \in Seq(PathTokens)
    PROVE  ParserState(ParsePath(tokens))
<1> DEFINE P == ParsedTo(tokens)
           Bad == {i \in 0..Len(tokens) : ~ParserState(P[i])}
<1>1. /\ ParsePath(tokens) = P[Len(tokens)] /\ P[0] = Unparsed
      /\ \A i \in 1..Len(tokens) : P[i] = ParseToken(P[i - 1], tokens[i])
  BY ParsePathIs
<1> HIDE DEF P
<1>2. Bad = {}
  <2>1. SUFFICES ASSUME Bad # {} PROVE FALSE
    OBVIOUS
  <2>2. PICK i \in Bad : \A j \in Bad : i <= j
    <3> Bad \subseteq Nat
      OBVIOUS
    <3> HIDE DEF Bad
    <3> QED
      BY <2>1, Least
  <2>3. i # 0
    <3> PathRead(<<>>)
      BY DEF PathRead
    <3> ParserState(Unparsed)
      BY DEF Unparsed, ParserState
    <3> QED
      BY <1>1, <2>2
  <2>4. i \in 1..Len(tokens) /\ i - 1 \in 0..Len(tokens) /\ ~(i <= i - 1) /\ tokens[i] \in PathTokens
    BY <2>3
  <2>5. ParserState(P[i - 1])
    <3> i - 1 \notin Bad
      <4> HIDE DEF Bad
      <4> QED
        BY <2>2, <2>4
    <3> QED
      BY <2>4
  <2>6. ParserState(P[i])
    BY <1>1, <2>4, <2>5, ParseTokenType
  <2> QED
    BY <2>2, <2>6
<1>3. ParserState(P[Len(tokens)])
  <2> Len(tokens) \in 0..Len(tokens)
    OBVIOUS
  <2> QED
    BY <1>2
<1> QED
  BY <1>1, <1>3

LEMMA ReadPathType ==
    ASSUME NEW t \in Seq(Char), NEW path \in ReadPath(t)
    PROVE  PathRead(path)
<1>1. LexPath(t).tokens \in Seq(PathTokens)
  BY LexPathType DEF LexerState
<1>2. PathRead(ParsePath(LexPath(t).tokens).path)
  BY <1>1, ParsePathType DEF ParserState
<1>3. PathRead(<<>>)
  BY DEF PathRead
<1> QED
  BY <1>2, <1>3 DEF ReadPath

-----------------------------------------------------------------------------
(* What is written for a path.                                             *)
Wire == Char \cup {Percent[c] : c \in DOMAIN Percent}

LEMMA SlashIsRaw == "/" \in Raw
BY CharsKnown, ServiceAssumption DEF Raw

LEMMA EscapeIs ==
    ASSUME NEW t \in Seq(Char)
    PROVE  /\ Escape(t) \in Seq(Wire) /\ Len(Escape(t)) = Len(t)
           /\ \A m \in 1..Len(t) : Escape(t)[m] \notin Raw
<1> DEFINE e(c) == IF c \in Unescaped THEN c ELSE Percent[c]
<1>1. \A c \in Char : e(c) \in Wire /\ e(c) \notin Raw
  BY ServiceAssumption DEF Char, Wire, Raw
<1>2. Escape(t) = [i \in 1..Len(t) |-> e(t[i])]
  BY DEF Escape
<1>3. \A i \in 1..Len(t) : t[i] \in Char
  OBVIOUS
<1> HIDE DEF e
<1>4. \A i \in 1..Len(t) : e(t[i]) \in Wire
  BY <1>1, <1>3
<1>5. [i \in 1..Len(t) |-> e(t[i])] \in Seq(Wire) /\ Len([i \in 1..Len(t) |-> e(t[i])]) = Len(t)
  BY <1>4
<1> QED
  BY <1>1, <1>2, <1>3, <1>5

LEMMA EscapeApart ==
    ASSUME NEW t \in Seq(Char), NEW u \in Seq(Char), Escape(t) = Escape(u)
    PROVE  t = u
<1>1. Len(t) = Len(u)
  BY EscapeIs
<1>2. ASSUME NEW m \in 1..Len(t)
      PROVE  t[m] = u[m]
  <2>1. t[m] \in Char /\ u[m] \in Char /\ Escape(t)[m] = Escape(u)[m]
    BY <1>1
  <2>2. /\ Escape(t)[m] = IF t[m] \in Unescaped THEN t[m] ELSE Percent[t[m]]
        /\ Escape(u)[m] = IF u[m] \in Unescaped THEN u[m] ELSE Percent[u[m]]
    BY <1>1 DEF Escape
  <2> QED
    BY <2>1, <2>2, ServiceAssumption DEF Char
<1> QED
  BY <1>1, <1>2

(* What the variables of a path stand for. *)
Stands(b, path) == \A x \in VariablesIn(path) : x \in DOMAIN b /\ b[x] \in Seq(Char)

LEMMA PiecesAre ==
    ASSUME NEW path, PathRead(path), NEW b, Stands(b, path)
    PROVE  /\ Pieces(path, Escaped(b)) \in Seq(Seq(Wire))
           /\ Len(Pieces(path, Escaped(b))) = Len(path)
           /\ \A i \in 1..Len(path) :
                 IF path[i].k = "variable"
                 THEN /\ path[i].text \in VariablesIn(path)
                      /\ Pieces(path, Escaped(b))[i] = Escape(b[path[i].text])
                 ELSE Pieces(path, Escaped(b))[i] = path[i].text
<1> DEFINE e == Escaped(b)
           piece(i) == IF path[i].k = "variable" THEN e[path[i].text] ELSE path[i].text
<1>1. path \in Seq(PartOfPath) /\ DOMAIN path = 1..Len(path) /\ Len(path) \in Nat
  BY DEF PathRead
<1>2. Pieces(path, e) = [i \in 1..Len(path) |-> piece(i)]
  BY <1>1 DEF Pieces
<1>3. ASSUME NEW i \in 1..Len(path)
      PROVE  /\ piece(i) \in Seq(Wire)
             /\ IF path[i].k = "variable"
                THEN path[i].text \in VariablesIn(path) /\ piece(i) = Escape(b[path[i].text])
                ELSE piece(i) = path[i].text
  <2>1. path[i] \in PartOfPath
    BY <1>1
  <2>2. CASE path[i].k = "variable"
    <3>1. path[i].text \in VariablesIn(path)
      BY <1>1, <2>2 DEF VariablesIn, VariablesAt
    <3>2. piece(i) = Escape(b[path[i].text]) /\ b[path[i].text] \in Seq(Char)
      BY <2>2, <3>1 DEF Stands, Escaped
    <3> HIDE DEF piece
    <3> QED
      BY <2>2, <3>1, <3>2, EscapeIs
  <2>3. CASE path[i].k # "variable"
    <3>1. path[i].text \in Seq(Char)
      BY <2>1 DEF PartOfPath
    <3>2. path[i].text \in Seq(Wire)
      BY <3>1 DEF Wire
    <3> QED
      BY <2>3, <3>2
  <2> QED
    BY <2>2, <2>3
<1> HIDE DEF piece, e
<1>4. /\ [i \in 1..Len(path) |-> piece(i)] \in Seq(Seq(Wire))
      /\ Len([i \in 1..Len(path) |-> piece(i)]) = Len(path)
  BY <1>1, <1>3
<1>5. \A i \in 1..Len(path) : Pieces(path, e)[i] = piece(i)
  BY <1>2
<1>6. /\ Pieces(path, e) \in Seq(Seq(Wire)) /\ Len(Pieces(path, e)) = Len(path)
  BY <1>2, <1>4
<1> QED
  BY <1>3, <1>5, <1>6 DEF e

(* The text of a path is never taken for the name of a host. *)
LEMMA UrlKept ==
    ASSUME NEW path, PathRead(path), NEW b, Stands(b, path),
           \A i \in DOMAIN path : path[i].k = "segment" => ToSet(path[i].text) \cap Special = {},
           \A x \in VariablesIn(path) : b[x] # <<>>
    PROVE  LET t == PathText(path, Escaped(b))
           IN  t \in Seq(Wire) /\ UrlJoin(<<>>, t) = [host |-> "server", path |-> t]
<1> DEFINE p == Pieces(path, Escaped(b))
           t == PathText(path, Escaped(b))
<1>1. /\ p \in Seq(Seq(Wire)) /\ Len(p) = Len(path)
      /\ \A i \in 1..Len(path) :
            IF path[i].k = "variable"
            THEN path[i].text \in VariablesIn(path) /\ p[i] = Escape(b[path[i].text])
            ELSE p[i] = path[i].text
  BY PiecesAre
<1> HIDE DEF p
<1>2. t \in Seq(Wire) /\ \E at : LaidOut(p, Len(p), t, at)
  BY <1>1, Laid DEF PathText, p
<1>3. PICK at : LaidOut(p, Len(p), t, at)
  BY <1>2
<1> HIDE DEF t
<1>4. /\ path \in Seq(PartOfPath) /\ Len(path) \in Nat /\ DOMAIN path = 1..Len(path)
      /\ \A i \in 1..Len(path) : path[i] \in PartOfPath
  BY DEF PathRead
<1>5. ASSUME Len(t) > 1
      PROVE  t[2] # "/"
  <2>1. Len(path) > 0
    <3>1. SUFFICES ASSUME Len(path) = 0 PROVE FALSE
      BY <1>4
    <3> QED
      BY <1>1, <1>3, <1>5, <3>1 DEF LaidOut
  <2>2. path # <<>> /\ 1 \in 1..Len(path) /\ path[1].k = "/" /\ path[1].text = <<"/">>
    <3>1. path # <<>> /\ 1 \in 1..Len(path)
      BY <1>4, <2>1
    <3> QED
      BY <1>4, <3>1 DEF PathRead, PartOfPath
  <2>3. p[1] = <<"/">>
    BY <1>1, <2>2
  <2>4. at[1] = 0 /\ at[2] = 1
    <3>1. at[1] = 0 /\ at[1 + 1] = at[1] + Len(p[1])
      BY <1>1, <1>3, <2>2 DEF LaidOut
    <3>2. Len(<<"/">>) = 1
      OBVIOUS
    <3> QED
      BY <2>3, <3>1, <3>2
  <2>5. Len(path) # 1
    <3>1. at[Len(path) + 1] = Len(t)
      BY <1>1, <1>3 DEF LaidOut
    <3>2. SUFFICES ASSUME Len(path) = 1 PROVE FALSE
      OBVIOUS
    <3>3. Len(path) + 1 = 2
      BY <3>2
    <3>4. Len(t) = 1
      BY <2>4, <3>1, <3>3
    <3> QED
      BY <1>5, <3>4
  <2>6. 2 \in 1..Len(path) /\ path[2].k # "/"
    BY <1>4, <2>1, <2>2, <2>5 DEF PathRead
  <2>7. p[2] \in Seq(Wire) /\ Len(p[2]) \in Nat /\ Len(p[2]) > 0 /\ p[2][1] # "/"
    <3>1. CASE path[2].k = "variable"
      <4> DEFINE u == b[path[2].text]
      <4>1. p[2] = Escape(u) /\ u \in Seq(Char) /\ u # <<>>
        BY <1>1, <2>6, <3>1 DEF Stands
      <4> HIDE DEF u
      <4>2. Len(u) \in Nat /\ Len(u) > 0
        BY <4>1
      <4> QED
        BY <4>1, <4>2, EscapeIs, SlashIsRaw
    <3>2. CASE path[2].k # "variable"
      <4> DEFINE u == path[2].text
      <4>1. p[2] = u /\ u \in Seq(Char) /\ u # <<>> /\ path[2].k = "segment"
        BY <1>1, <1>4, <2>6, <3>2 DEF PartOfPath
      <4>2. ToSet(u) \cap Special = {}
        BY <1>4, <2>6, <4>1
      <4> HIDE DEF u
      <4>3. Len(u) \in Nat /\ Len(u) > 0 /\ u[1] \in ToSet(u)
        BY <4>1 DEF ToSet
      <4>4. u \in Seq(Wire)
        BY <4>1 DEF Wire
      <4> QED
        BY <4>1, <4>2, <4>3, <4>4, CharsKnown
    <3> QED
      BY <3>1, <3>2
  <2>8. t[at[2] + 1] = p[2][1]
    <3> 1 \in 1..Len(p[2])
      BY <2>7
    <3> QED
      BY <1>1, <1>3, <2>6 DEF LaidOut
  <2> QED
    BY <2>4, <2>7, <2>8
<1>6. UrlJoin(<<>>, t) = [host |-> "server", path |-> t]
  BY <1>5 DEF UrlJoin
<1> QED
  BY <1>2, <1>6 DEF t

(* The variables of a path that can be told apart are read back as they were *)
(* written.                                                                  *)
LEMMA ReadBack ==
    ASSUME NEW path, PathRead(path), NEW b, Stands(b, path), NEW d, Stands(d, path),
           \A i \in VariablesAt(path) :
              i < Len(path) => /\ path[i + 1].k # "variable"
                               /\ ~(ToSet(path[i + 1].text) \subseteq Unescaped),
           PathText(path, Escaped(b)) = PathText(path, Escaped(d))
    PROVE  \A x \in VariablesIn(path) : b[x] = d[x]
<1> DEFINE p == Pieces(path, Escaped(b))
           q == Pieces(path, Escaped(d))
<1>1. /\ p \in Seq(Seq(Wire)) /\ Len(p) = Len(path)
      /\ \A i \in 1..Len(path) :
            IF path[i].k = "variable"
            THEN path[i].text \in VariablesIn(path) /\ p[i] = Escape(b[path[i].text])
            ELSE p[i] = path[i].text
  BY PiecesAre
<1>2. /\ q \in Seq(Seq(Wire)) /\ Len(q) = Len(path)
      /\ \A i \in 1..Len(path) :
            IF path[i].k = "variable"
            THEN path[i].text \in VariablesIn(path) /\ q[i] = Escape(d[path[i].text])
            ELSE q[i] = path[i].text
  BY PiecesAre
<1>3. FlattenSeq(p) = FlattenSeq(q)
  BY DEF PathText
<1> HIDE DEF p, q
<1>4. /\ Len(path) \in Nat /\ DOMAIN path = 1..Len(path)
      /\ \A i \in 1..Len(path) : path[i] \in PartOfPath
  BY DEF PathRead
<1>5. ASSUME NEW k \in 1..Len(p), p[k] # q[k]
      PROVE  /\ \A m \in 1..Len(p[k]) : p[k][m] \notin Raw
             /\ \A m \in 1..Len(q[k]) : q[k][m] \notin Raw
             /\ k < Len(p) => /\ p[k + 1] = q[k + 1]
                              /\ \E m \in 1..Len(p[k + 1]) : p[k + 1][m] \in Raw
  <2>1. k \in 1..Len(path) /\ path[k].k = "variable"
    BY <1>1, <1>2, <1>5
  <2>2. p[k] = Escape(b[path[k].text]) /\ b[path[k].text] \in Seq(Char)
    BY <1>1, <2>1 DEF Stands
  <2>3. q[k] = Escape(d[path[k].text]) /\ d[path[k].text] \in Seq(Char)
    BY <1>2, <2>1 DEF Stands
  <2>4. ASSUME k < Len(path)
        PROVE  /\ p[k + 1] = q[k + 1]
               /\ \E m \in 1..Len(p[k + 1]) : p[k + 1][m] \in Raw
    <3> DEFINE u == path[k + 1].text
    <3>1. k \in VariablesAt(path) /\ k + 1 \in 1..Len(path)
      BY <1>4, <2>1, <2>4 DEF VariablesAt
    <3>2. path[k + 1].k # "variable" /\ ~(ToSet(u) \subseteq Unescaped) /\ u \in Seq(Char)
      BY <1>4, <2>4, <3>1 DEF PartOfPath
    <3>3. p[k + 1] = u /\ q[k + 1] = u
      BY <1>1, <1>2, <3>1, <3>2
    <3> HIDE DEF u
    <3>4. \E m \in 1..Len(u) : u[m] \in Char /\ u[m] \notin Unescaped
      BY <3>2 DEF ToSet
    <3> QED
      BY <3>3, <3>4 DEF Raw
  <2> QED
    BY <1>1, <2>2, <2>3, <2>4, EscapeIs
<1>6. \A k \in 1..Len(p) : p[k] = q[k]
  <2>1. p \in Seq(Seq(Wire)) /\ q \in Seq(Seq(Wire)) /\ Len(p) = Len(q)
    BY <1>1, <1>2
  <2>2. \A k \in 1..Len(p) : Fenced(p, q, k)
    BY <1>5 DEF Fenced
  <2> QED
    BY <1>3, <2>1, <2>2, OneReading
<1>7. ASSUME NEW x \in VariablesIn(path)
      PROVE  b[x] = d[x]
  <2>1. PICK i \in 1..Len(path) : path[i].k = "variable" /\ path[i].text = x
    BY <1>4 DEF VariablesIn, VariablesAt
  <2>2. Escape(b[x]) = Escape(d[x]) /\ b[x] \in Seq(Char) /\ d[x] \in Seq(Char)
    BY <1>1, <1>2, <1>6, <2>1 DEF Stands
  <2> QED
    BY <2>2, EscapeApart
<1> QED
  BY <1>7

-----------------------------------------------------------------------------
(* What is known of a service once it is accepted, and of the one call.      *)
WellModelled(e) ==
    e.path # <<>> =>
       /\ PathRead(e.path[1]) /\ PathBinds(e.path[1], e) /\ AllUsed(e.path[1], e)
       /\ e.request = RequestOf(e.path[1], e)

Known ==
    /\ DOMAIN service \subseteq Nat
    /\ IsInjective([i \in DOMAIN service |-> service[i].id])
    /\ \A i \in DOMAIN service : WellModelled(service[i])

CallSent ==
    LET e == service[asked.endpoint]
    IN  /\ asked.endpoint \in DOMAIN service /\ asked.args \in ArgumentsOf(e)
        /\ asked.client = "rust" => Unary(e) /\ sent = RustRequest(e, asked.args, asked.base)

Answered ==
    LET e == service[asked.endpoint]
    IN  reply.ok => reply.kind = IF e.response = <<>> \/ e.method = "HEAD" THEN "none" ELSE e.accept

Returns ==
    LET e == service[asked.endpoint]
    IN  asked.client = "rust" /\ reply.ok /\ e.accept = "json" /\ e.method # "HEAD" =>
            returned = IF e.response = <<>> THEN Nothing ELSE [k |-> "value"]

ServiceInv ==
    /\ served = "declared" => service \in Offered
    /\ served \notin {"declared", "refused"} => Known
    /\ served \in {"sent", "heard", "replied", "returned"} => CallSent
    /\ served \in {"heard", "replied", "returned"} =>
          heard = UNION {HeardAs(service, i, sent, asked.base) : i \in Documented(service)}
    /\ served \in {"replied", "returned"} => Answered
    /\ served = "returned" => Returns

Declaration ==
    [id : STRING, name : STRING,
     args : Seq([name : Seq(Char), type : STRING, stream : BOOLEAN]),
     response : Seq([type : STRING, stream : BOOLEAN]),
     http : Seq([path : Seq(Seq(Char)), method : STRING, accept : STRING])]

LEMMA EndpointModelled ==
    ASSUME NEW d \in Declaration, NEW e \in ModelEndpoint(d)
    PROVE  WellModelled(e) /\ e.id = d.id
<1>1. CASE d.http = <<>>
  <2>1. e = Modelled(d, <<>>, "GET", "json", IF d.args = <<>> THEN <<>> ELSE <<Head(d.args)>>)
    BY <1>1 DEF ModelEndpoint
  <2> QED
    BY <2>1 DEF Modelled, WellModelled
<1>2. CASE d.http # <<>>
  <2> DEFINE h == d.http[1]
             readings == IF h.path = <<>> THEN {<<>>} ELSE {<<p>> : p \in ReadPath(h.path[1])}
             steps(p) == IF p = <<>> THEN <<>> ELSE p[1]
  <2>1. PICK p \in readings : /\ PathBinds(steps(p), d) /\ AllUsed(steps(p), d)
                           /\ e = Modelled(d, p, h.method, h.accept, RequestOf(steps(p), d))
    BY <1>2 DEF ModelEndpoint
  <2>2. h.path \in Seq(Seq(Char))
    <3> DEFINE HttpOf == [path : Seq(Seq(Char)), method : STRING, accept : STRING]
    <3>1. d.http \in Seq(HttpOf)
      BY DEF Declaration
    <3> HIDE DEF HttpOf
    <3>2. h \in HttpOf
      BY <1>2, <3>1
    <3> USE DEF HttpOf
    <3> HIDE DEF h
    <3> QED
      BY <3>2
  <2> HIDE DEF h
  <2>3. ASSUME p # <<>>
        PROVE  PathRead(p[1])
    <3>1. h.path # <<>> /\ p \in {<<r>> : r \in ReadPath(h.path[1])}
      BY <2>3
    <3>2. PICK r \in ReadPath(h.path[1]) : p = <<r>>
      BY <3>1
    <3>3. h.path[1] \in Seq(Char)
      <4> 1 \in 1..Len(h.path)
        BY <2>2, <3>1
      <4> QED
        BY <2>2
    <3> QED
      BY <3>2, <3>3, ReadPathType
  <2>4. /\ e.id = d.id /\ e.path = p /\ e.args = d.args /\ e.request = RequestOf(steps(p), d)
    BY <2>1 DEF Modelled
  <2>5. ASSUME e.path # <<>>
        PROVE  /\ PathRead(e.path[1]) /\ PathBinds(e.path[1], e) /\ AllUsed(e.path[1], e)
               /\ e.request = RequestOf(e.path[1], e)
    <3>1. steps(p) = e.path[1]
      BY <2>4, <2>5
    <3> HIDE DEF steps
    <3>2. PathRead(e.path[1])
      BY <2>3, <2>4, <2>5
    <3>3. /\ PathBinds(e.path[1], d) /\ AllUsed(e.path[1], d)
          /\ e.request = RequestOf(e.path[1], d) /\ e.args = d.args
      BY <2>1, <2>4, <3>1
    <3>4. PathBinds(e.path[1], e)
      BY <3>3 DEF PathBinds, NamesOf
    <3>5. Remaining(e.path[1], e) = Remaining(e.path[1], d)
      BY <3>3 DEF Remaining
    <3> QED
      BY <3>2, <3>3, <3>4, <3>5 DEF AllUsed, RequestOf
  <2> QED
    BY <2>4, <2>5 DEF WellModelled
<1> QED
  BY <1>1, <1>2

LEMMA ServiceModelled ==
    ASSUME NEW s \in Offered, ServiceAccepted(s)
    PROVE  LET m == ModelService(s)
           IN  /\ DOMAIN m \subseteq Nat
               /\ IsInjective([i \in DOMAIN m |-> m[i].id])
               /\ \A i \in DOMAIN m : WellModelled(m[i])
<1> DEFINE m == ModelService(s)
<1>1. DOMAIN m = DOMAIN s /\ DOMAIN s \subseteq Nat
  BY ServiceAssumption DEF ModelService
<1>2. ASSUME NEW i \in DOMAIN s
      PROVE  WellModelled(m[i]) /\ m[i].id = s[i].id
  <2>1. s[i] \in Declaration
    <3> Offered \subseteq Seq(Declaration)
      BY ServiceAssumption DEF Declaration
    <3> QED
      OBVIOUS
  <2>2. m[i] \in ModelEndpoint(s[i])
    BY DEF ServiceAccepted, ModelService
  <2> QED
    BY <2>1, <2>2, EndpointModelled
<1>3. IsInjective([i \in DOMAIN s |-> s[i].id])
  BY DEF ServiceAccepted
<1> HIDE DEF m
<1>4. [i \in DOMAIN m |-> m[i].id] = [i \in DOMAIN s |-> s[i].id]
  BY <1>1, <1>2
<1> QED
  BY <1>1, <1>2, <1>3, <1>4 DEF m

LEMMA ServiceInitial == ServiceInit => ServiceInv
BY DEF ServiceInit, ServiceInv

LEMMA ServiceInductive == ServiceInv /\ [ServiceNext]_serviceVars => ServiceInv'
<1> SUFFICES ASSUME ServiceInv, [ServiceNext]_serviceVars
             PROVE  ServiceInv'
  OBVIOUS
<1>1. CASE Accept
  <2>1. service \in Offered /\ served = "declared"
    BY <1>1 DEF Accept, ServiceInv
  <2>2. CASE ServiceAccepted(service)
    <3>1. served' = "accepted" /\ service' = ModelService(service)
      BY <1>1, <2>2 DEF Accept
    <3>2. Known'
      BY <2>1, <2>2, <3>1, ServiceModelled DEF Known
    <3> QED
      BY <3>1, <3>2 DEF ServiceInv
  <2>3. CASE ~ServiceAccepted(service)
    BY <1>1, <2>3 DEF Accept, ServiceInv
  <2> QED
    BY <2>2, <2>3
<1>2. ASSUME served = "accepted",
             NEW i \in DOMAIN service, NEW client \in {"rust", "python"}, NEW base \in BasePath,
             NEW args \in ArgumentsOf(service[i]), CallEndpoint(i, client, args, base)
      PROVE  ServiceInv'
  <2>1. /\ service' = service /\ Known
        /\ asked' = [client |-> client, endpoint |-> i, args |-> args, base |-> base]
    BY <1>2 DEF CallEndpoint, ServiceInv
  <2>2. Known'
    BY <2>1 DEF Known
  <2>3. \/ served' = "impossible"
        \/ served' = "sent" /\ (client = "rust" => /\ Unary(service[i])
                                                   /\ sent' = RustRequest(service[i], args, base))
    BY <1>2 DEF CallEndpoint
  <2>4. served' = "sent" => CallSent'
    BY <2>1, <2>3 DEF CallSent
  <2> QED
    BY <2>2, <2>3, <2>4 DEF ServiceInv
<1>3. CASE Hear
  <2>1. UNCHANGED <<service, asked, sent>> /\ served = "sent" /\ served' = "heard"
    BY <1>3 DEF Hear
  <2>2. Known' /\ CallSent'
    BY <2>1 DEF ServiceInv, Known, CallSent
  <2>3. heard' = UNION {HeardAs(service, i, sent, asked.base) : i \in Documented(service)}
    BY <1>3 DEF Hear
  <2> QED
    BY <2>1, <2>2, <2>3 DEF ServiceInv
<1>4. ASSUME NEW ok \in BOOLEAN, NEW kind \in {"json", "text", "none"}, AnswerCall(ok, kind)
      PROVE  ServiceInv'
  <2>1. UNCHANGED <<service, asked, sent, heard>> /\ served = "heard" /\ served' = "replied"
    BY <1>4 DEF AnswerCall
  <2>2. Known' /\ CallSent'
    BY <2>1 DEF ServiceInv, Known, CallSent
  <2>3. Answered'
    BY <1>4, <2>1 DEF AnswerCall, Answered
  <2> QED
    BY <2>1, <2>2, <2>3 DEF ServiceInv
<1>5. ASSUME NEW readable \in BOOLEAN, ReturnValue(readable)
      PROVE  ServiceInv'
  <2>1. /\ UNCHANGED <<service, asked, sent, heard, reply>>
        /\ served = "replied" /\ served' = "returned"
    BY <1>5 DEF ReturnValue
  <2>2. Known' /\ CallSent' /\ Answered' /\ Answered
    BY <2>1 DEF ServiceInv, Known, CallSent, Answered
  <2>3. Returns'
    <3> DEFINE e == service[asked.endpoint]
    <3>1. SUFFICES ASSUME asked.client = "rust", reply.ok, e.accept = "json", e.method # "HEAD"
                   PROVE  returned' = IF e.response = <<>> THEN Nothing ELSE [k |-> "value"]
      BY <2>1 DEF Returns
    <3>2. reply.kind = IF e.response = <<>> THEN "none" ELSE "json"
      BY <2>2, <3>1 DEF Answered
    <3>3. CASE e.response = <<>>
      BY <1>5, <3>1, <3>3 DEF ReturnValue
    <3>4. CASE e.response # <<>>
      BY <1>5, <3>1, <3>2, <3>4 DEF ReturnValue
    <3> QED
      BY <3>3, <3>4
  <2> QED
    BY <2>1, <2>2, <2>3 DEF ServiceInv
<1>6. CASE UNCHANGED serviceVars
  BY <1>6 DEF serviceVars, ServiceInv, Known, CallSent, Answered, Returns
<1> QED
  BY <1>1, <1>2, <1>3, <1>4, <1>5, <1>6 DEF ServiceNext

(* An argument is in the path or it is the body, and not in both.            *)
LEMMA OnePlace ==
    ASSUME NEW e, e.path # <<>>, WellModelled(e)
    PROVE  LET names == {e.request[i].name : i \in DOMAIN e.request}
           IN  /\ ToSet(NamesOf(e)) = VariablesIn(e.path[1]) \cup names
               /\ VariablesIn(e.path[1]) \cap names = {}
<1> DEFINE path == e.path[1]
           vars == VariablesIn(path)
           names == {e.request[i].name : i \in DOMAIN e.request}
<1>1. /\ vars \subseteq ToSet(NamesOf(e)) /\ AllUsed(path, e) /\ e.request = RequestOf(path, e)
  BY DEF WellModelled, PathBinds
<1>2. /\ \A a \in ToSet(e.args) : a.name \in ToSet(NamesOf(e))
      /\ \A x \in ToSet(NamesOf(e)) : \E a \in ToSet(e.args) : a.name = x
  BY DEF ToSet, NamesOf
<1>3. CASE Remaining(path, e) = {}
  <2>1. e.request = <<>>
    BY <1>1, <1>3 DEF RequestOf
  <2>2. names = {}
    BY <2>1
  <2>3. ToSet(NamesOf(e)) \subseteq vars
    BY <1>2, <1>3 DEF Remaining
  <2> HIDE DEF vars, names
  <2>4. ToSet(NamesOf(e)) = vars \cup names /\ vars \cap names = {}
    BY <1>1, <2>2, <2>3
  <2> QED
    BY <2>4 DEF vars, names
<1>4. CASE Remaining(path, e) # {}
  <2> DEFINE arg == Head(e.args)
  <2>1. e.request = <<arg>>
    BY <1>1, <1>4 DEF RequestOf
  <2>2. \A a \in Remaining(path, e) : a = arg
    BY <1>1 DEF AllUsed
  <2>3. arg \in ToSet(e.args) /\ arg.name \notin vars
    BY <1>4, <2>2 DEF Remaining
  <2> HIDE DEF arg
  <2>4. names = {arg.name}
    BY <2>1
  <2>5. ToSet(NamesOf(e)) \subseteq vars \cup {arg.name}
    BY <1>2, <2>2 DEF Remaining
  <2>6. arg.name \in ToSet(NamesOf(e))
    BY <1>2, <2>3
  <2> HIDE DEF vars, names
  <2>7. ToSet(NamesOf(e)) = vars \cup names /\ vars \cap names = {}
    BY <1>1, <2>3, <2>4, <2>5, <2>6
  <2> QED
    BY <2>7 DEF vars, names
<1> QED
  BY <1>3, <1>4

LEMMA BodyIs ==
    ASSUME NEW e, e.path # <<>>, WellModelled(e), NEW args
    PROVE  /\ (BodyOf(e, args) = <<>>) = (e.request = <<>>)
           /\ \A i \in DOMAIN e.request : BodyOf(e, args) = <<args[e.request[i].name]>>
<1>1. e.request = <<>> \/ e.request = <<Head(e.args)>>
  BY DEF WellModelled, RequestOf
<1>2. CASE e.request = <<>>
  <2>1. BodyOf(e, args) = <<>> /\ DOMAIN e.request = {}
    BY <1>2 DEF BodyOf
  <2> QED
    BY <1>2, <2>1
<1>3. CASE e.request = <<Head(e.args)>>
  <2> DEFINE a == Head(e.args)
  <2> HIDE DEF a
  <2>1. e.request = <<a>> /\ DOMAIN e.request = {1} /\ e.request[1] = a /\ e.request # <<>>
    BY <1>3 DEF a
  <2>2. BodyOf(e, args) = <<args[a.name]>>
    BY <2>1 DEF BodyOf
  <2>3. <<args[a.name]>> # <<>>
    OBVIOUS
  <2> QED
    BY <2>1, <2>2, <2>3
<1> QED
  BY <1>1, <1>2, <1>3

LEMMA SameText ==
    ASSUME NEW path, NEW b, NEW d, \A x \in VariablesIn(path) : x \in DOMAIN b /\ x \in DOMAIN d /\ b[x] = d[x]
    PROVE  PathText(path, Escaped(b)) = PathText(path, Escaped(d))
<1>1. ASSUME NEW i \in DOMAIN path
      PROVE  (IF path[i].k = "variable" THEN Escaped(b)[path[i].text] ELSE path[i].text)
             = (IF path[i].k = "variable" THEN Escaped(d)[path[i].text] ELSE path[i].text)
  <2>1. CASE path[i].k = "variable"
    <3> path[i].text \in VariablesIn(path)
      BY <2>1 DEF VariablesIn, VariablesAt
    <3> QED
      BY <2>1 DEF Escaped
  <2> QED
    BY <2>1
<1>2. Pieces(path, Escaped(b)) = Pieces(path, Escaped(d))
  BY <1>1 DEF Pieces
<1> QED
  BY <1>2 DEF PathText

LEMMA CalledBack == ServiceInv => Called
<1> SUFFICES ASSUME ServiceInv, served \in {"heard", "replied", "returned"},
                    asked.client = "rust", Sound(asked.endpoint)
             PROVE  LET e == service[asked.endpoint]
                    IN  /\ \E h \in heard : Carries(h, e, asked.args)
                        /\ \A h \in heard : h.id = e.id => Carries(h, e, asked.args)
                        /\ served = "returned" /\ reply.ok /\ e.accept = "json" /\ e.method # "HEAD" =>
                               returned = IF e.response = <<>> THEN Nothing ELSE [k |-> "value"]
  BY DEF Called
<1> DEFINE n == asked.endpoint
           e == service[n]
           path == e.path[1]
           vars == VariablesIn(path)
           args == asked.args
           t == PathText(path, Escaped(args))
<1>1. /\ Known /\ CallSent /\ (served = "returned" => Returns)
      /\ heard = UNION {HeardAs(service, i, sent, asked.base) : i \in Documented(service)}
  BY DEF ServiceInv
<1>2. /\ n \in DOMAIN service /\ args \in ArgumentsOf(e) /\ Unary(e) /\ sent = RustRequest(e, args, asked.base)
      /\ e.path # <<>> /\ WellModelled(e)
  BY <1>1 DEF CallSent, Known, Unary
<1>3. /\ Separated(e) /\ Legible(e) /\ Shares(service, n) = {n} /\ asked.base = <<>>
      /\ \A x \in vars : args[x] # <<>>
  BY DEF Sound
<1>4. PathRead(path) /\ vars \subseteq ToSet(NamesOf(e))
  BY <1>2 DEF WellModelled, PathBinds
<1>5. Stands(args, path) /\ \A x \in vars : args[x] \in Argument
  BY <1>2, <1>4, ServiceAssumption DEF ArgumentsOf, Stands
<1>6. t \in Seq(Wire) /\ UrlJoin(<<>>, t) = [host |-> "server", path |-> t]
  BY <1>3, <1>4, <1>5, UrlKept DEF Legible
<1>7. /\ sent.method = e.method /\ sent.url = [host |-> "server", path |-> t]
      /\ sent.body = BodyOf(e, args)
  BY <1>2, <1>3, <1>6 DEF RustRequest, RustPath
<1>8. ASSUME NEW b \in [vars -> Argument], \A x \in vars : b[x] = args[x]
      PROVE  Carries([id |-> e.id, args |-> b, body |-> sent.body], e, args)
  BY <1>2, <1>7, <1>8, OnePlace, BodyIs DEF Carries
<1>9. \E h \in heard : Carries(h, e, args)
  <2> DEFINE b == [x \in vars |-> args[x]]
             h == [id |-> e.id, args |-> b, body |-> sent.body]
  <2>1. b \in [vars -> Argument] /\ \A x \in vars : b[x] = args[x] /\ x \in DOMAIN b /\ x \in DOMAIN args
    BY <1>5 DEF Stands
  <2>2. Expected(e, b) = t
    <3> HIDE DEF b
    <3> QED
      BY <2>1, SameText DEF Expected
  <2>3. <<>> \o Expected(e, b) = t
    BY <1>6, <2>2
  <2>4. (sent.body = <<>>) = (\A j \in Shares(service, n) : service[j].request = <<>>)
    <3>1. (sent.body = <<>>) = (e.request = <<>>)
      BY <1>2, <1>7, BodyIs
    <3> HIDE DEF e
    <3>2. (\A j \in Shares(service, n) : service[j].request = <<>>) = (service[n].request = <<>>)
      BY <1>3
    <3> QED
      BY <3>1, <3>2 DEF e
  <2>5. \A j \in Shares(service, n) : j <= n
    <3> n <= n
      BY <1>1, <1>2 DEF Known
    <3> QED
      BY <1>3
  <2>6. h \in HeardAs(service, n, sent, asked.base)
    <3> HIDE DEF b
    <3> QED
      BY <1>3, <1>7, <2>1, <2>3, <2>4, <2>5 DEF HeardAs
  <2>7. n \in Documented(service)
    BY <1>2 DEF Documented
  <2> QED
    BY <1>1, <1>8, <2>1, <2>6, <2>7
<1>10. ASSUME NEW h \in heard, h.id = e.id
       PROVE  Carries(h, e, args)
  <2>1. PICK i \in Documented(service) : h \in HeardAs(service, i, sent, asked.base)
    BY <1>1
  <2>2. i \in DOMAIN service /\ h.id = service[i].id
    <3>1. i \in DOMAIN service
      BY <2>1 DEF Documented
    <3>2. \E b : h = [id |-> service[i].id, args |-> b, body |-> sent.body]
      BY <2>1 DEF HeardAs
    <3> QED
      BY <3>1, <3>2
  <2>3. i = n
    BY <1>1, <1>2, <1>10, <2>2 DEF Known, IsInjective
  <2>4. PICK b \in [vars -> Argument] :
              /\ h = [id |-> e.id, args |-> b, body |-> sent.body]
              /\ sent.url = [host |-> "server", path |-> asked.base \o Expected(e, b)]
    BY <2>1, <2>3 DEF HeardAs
  <2>5. Stands(b, path)
    BY <2>4, ServiceAssumption DEF Stands
  <2>6. Expected(e, b) = t
    <3>1. Expected(e, b) \in Seq(Wire)
      BY <1>4, <2>5, PiecesAre, Laid DEF Expected, PathText
    <3> QED
      BY <1>3, <1>7, <2>4, <3>1
  <2>7. \A x \in vars : b[x] = args[x]
    <3>1. \A j \in VariablesAt(path) :
             j < Len(path) => /\ path[j + 1].k # "variable"
                              /\ ~(ToSet(path[j + 1].text) \subseteq Unescaped)
      BY <1>3 DEF Separated
    <3>2. PathText(path, Escaped(b)) = PathText(path, Escaped(args))
      BY <2>6 DEF Expected
    <3> HIDE DEF path
    <3>3. \A x \in VariablesIn(path) : b[x] = args[x]
      BY <1>4, <1>5, <2>5, <3>1, <3>2, ReadBack
    <3> QED
      BY <3>3
  <2> QED
    BY <1>8, <2>4, <2>7
<1>11. served = "returned" /\ reply.ok /\ e.accept = "json" /\ e.method # "HEAD" =>
          returned = IF e.response = <<>> THEN Nothing ELSE [k |-> "value"]
  BY <1>1 DEF Returns
<1> QED
  BY <1>9, <1>10, <1>11

(* A call through the client of backend-rust reaches the endpoint it is for, *)
(* each argument once and as given, and is not heard as another call of it;  *)
(* and the value of a JSON answer is what it returns: for any paths that can *)
(* be declared, any arguments, and any characters that are escaped apart.    *)
THEOREM EveryCallArrives == ServiceSpec => []Called
<1> QED
  BY ServiceInitial, ServiceInductive, CalledBack, PTL DEF ServiceSpec
=============================================================================
