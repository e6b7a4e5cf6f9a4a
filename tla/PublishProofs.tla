--------------------------- MODULE PublishProofs ---------------------------
(***************************************************************************)
(* Proofs about Publish, for any number of publishers, packages, versions  *)
(* and sources, with or without git, and with publishers dying anywhere.   *)
(***************************************************************************)
EXTENDS Publish, FiniteSetTheorems, SequenceTheorems, TLAPS

-----------------------------------------------------------------------------
(* Lemmas about the operators.                                             *)

(* What put_version writes is made of the deployments that were there and  *)
(* the new one.                                                            *)
LEMMA MergedElements ==
    ASSUME NEW s \in Seq(Deployment), NEW d \in Deployment, NEW t \in Merged(s, d)
    PROVE  /\ t \in Seq(Deployment) /\ Len(t) > 0
           /\ \A i \in 1..Len(t) : t[i] = d \/ \E j \in 1..Len(s) : t[i] = s[j]
<1> DEFINE all == Append(s, d)
           K == Kept(s, d.version) \cup {Len(all)}
           n == Cardinality(K)
<1>1. all \in Seq(Deployment) /\ Len(all) = Len(s) + 1 /\ Len(s) \in Nat
  OBVIOUS
<1>2. K \subseteq 1..Len(all)
  BY <1>1 DEF Kept, Indices
<1>3. IsFiniteSet(1..Len(all))
  BY <1>1, FS_Interval
<1>4. n \in Nat \ {0}
  <2>1. IsFiniteSet(K)
    BY <1>2, <1>3, FS_Subset
  <2> QED
    BY <2>1, FS_CardinalityType, FS_EmptySet
<1>5. PICK f \in StableOrders(all, K) : t = [i \in 1..n |-> all[f[i]]]
  BY DEF Merged
<1>6. f \in [1..n -> K]
  BY <1>5 DEF StableOrders
<1> HIDE DEF n, K
<1>7. \A i \in 1..n : t[i] \in Deployment /\ (t[i] = d \/ \E j \in 1..Len(s) : t[i] = s[j])
  <2> SUFFICES ASSUME NEW i \in 1..n
               PROVE  t[i] \in Deployment /\ (t[i] = d \/ \E j \in 1..Len(s) : t[i] = s[j])
    OBVIOUS
  <2>1. f[i] \in 1..Len(all) /\ t[i] = all[f[i]]
    BY <1>2, <1>5, <1>6
  <2>2. CASE f[i] = Len(s) + 1
    BY <1>1, <2>1, <2>2
  <2>3. CASE f[i] \in 1..Len(s)
    BY <1>1, <2>1, <2>3
  <2> QED
    BY <1>1, <2>1, <2>2, <2>3
<1>8. t \in Seq(Deployment) /\ Len(t) = n
  <2>1. t \in [1..n -> Deployment]
    BY <1>5, <1>7
  <2> QED
    BY <1>4, <2>1, IsASeq, LenProperties
<1> QED
  BY <1>4, <1>7, <1>8

(* A write of one line leaves lines that were there, the line, and holes.  *)
LEMMA PutLineElements ==
    ASSUME NEW s \in Seq(Line), NEW k \in Nat \ {0}, NEW d \in Line
    PROVE  /\ PutLine(s, k, d) \in Seq(Line)
           /\ \A i \in 1..Len(PutLine(s, k, d)) :
                \/ PutLine(s, k, d)[i] \in {d, Bad}
                \/ \E j \in 1..Len(s) : PutLine(s, k, d)[i] = s[j]
<1> DEFINE n == IF k > Len(s) THEN k ELSE Len(s)
           t == PutLine(s, k, d)
<1>1. n \in Nat /\ Bad \in Line
  BY DEF Line
<1>2. t = [i \in 1..n |-> IF i = k THEN d ELSE IF i <= Len(s) THEN s[i] ELSE Bad]
  BY DEF PutLine
<1>3. \A i \in 1..n : t[i] \in Line /\ (t[i] \in {d, Bad} \/ \E j \in 1..Len(s) : t[i] = s[j])
  BY <1>1, <1>2
<1>4. t \in Seq(Line) /\ Len(t) = n
  BY <1>1, <1>2, <1>3
<1> QED
  BY <1>3, <1>4

-----------------------------------------------------------------------------
(* Types.  The number of lines written so far stays below the number of    *)
(* lines to write: without it pending[p][n] would not be a deployment.     *)

LineOK ==
    \A p \in Proc :
        /\ pc[p] = "writeIndex" => line[p] < Len(pending[p])
        /\ pc[p] = "createIndex" => line[p] < Len(pending[p])
        /\ pc[p] \notin {"writeIndex"} => line[p] = 0

\* A descriptor on the temporary file is on a file that exists.
OpenOK ==
    \A p \in Proc : pc[p] = "writeIndex" /\ fd[p] = "tmp"
                       => metadataTmp[Cur(p).package] # NoFile

TypeInv == TypeOK /\ LineOK /\ OpenOK

LEMMA OpenFrame ==
    ASSUME OpenOK,
           \A p \in Proc : pc'[p] = "writeIndex" =>
              pc[p] = "writeIndex" /\ todo'[p] = todo[p] /\ fd'[p] = fd[p],
           \A k \in Package : metadataTmp[k] # NoFile => metadataTmp'[k] # NoFile,
           \A p \in Proc : pc[p] = "writeIndex" => Cur(p).package \in Package
    PROVE  OpenOK'
BY DEF OpenOK, Cur

LEMMA CurType ==
    ASSUME TypeOK, NEW p \in Proc, pc[p] # "idle"
    PROVE  /\ Cur(p) \in Match
           /\ Cur(p).package \in Package /\ Cur(p).version \in Version
           /\ Cur(p).source \in Content
           /\ Tail(todo[p]) \in Seq(Match)
           /\ Len(todo[p]) > 1 => Tail(todo[p]) # <<>>
<1>1. todo[p] \in Seq(Match) /\ todo[p] # <<>>
  BY DEF TypeOK
<1>2. Cur(p) \in Match
  BY <1>1, HeadTailProperties DEF Cur
<1>3. Cur(p).package \in Package /\ Cur(p).version \in Version /\ Cur(p).source \in Content
  BY <1>2 DEF Match
<1>4. Tail(todo[p]) \in Seq(Match) /\ Len(Tail(todo[p])) = Len(todo[p]) - 1
  BY <1>1, HeadTailProperties
<1>5. Len(todo[p]) > 1 => Tail(todo[p]) # <<>>
  <2> DEFINE t == Tail(todo[p])
             n == Len(todo[p])
  <2>1. n \in Nat
    BY <1>1, LenProperties
  <2>2. t = <<>> => Len(t) = 0
    BY EmptySeq
  <2>3. Len(t) = n - 1
    BY <1>4
  <2> HIDE DEF t, n
  <2>4. n > 1 => t # <<>>
    BY <2>1, <2>2, <2>3
  <2> QED
    BY <2>4 DEF t, n
<1> QED
  BY <1>2, <1>3, <1>4, <1>5

(* A run that stops leaves its publisher's variables in their types.       *)
LEMMA StopType ==
    ASSUME TypeInv, NEW p \in Proc, Stop(p)
    PROVE  /\ pc' \in [Proc -> Label]
           /\ todo' \in [Proc -> Seq(Match)] /\ \A q \in Proc : pc'[q] # "idle" => todo'[q] # <<>>
           /\ force' \in [Proc -> BOOLEAN]
           /\ pending' \in [Proc -> Seq(Deployment)]
           /\ line' \in [Proc -> Nat]
           /\ LineOK'
BY DEF TypeInv, TypeOK, LineOK, Stop, Goto, Label

LEMMA FinishType ==
    ASSUME TypeInv, NEW p \in Proc, pc[p] \notin {"idle", "writeIndex"}, Finish(p)
    PROVE  /\ pc' \in [Proc -> Label]
           /\ todo' \in [Proc -> Seq(Match)] /\ \A q \in Proc : pc'[q] # "idle" => todo'[q] # <<>>
           /\ force' \in [Proc -> BOOLEAN]
           /\ pending' \in [Proc -> Seq(Deployment)]
           /\ line' \in [Proc -> Nat]
           /\ LineOK'
<1>1. Tail(todo[p]) \in Seq(Match) /\ (Len(todo[p]) > 1 => Tail(todo[p]) # <<>>)
  BY CurType DEF TypeInv
<1>2. pc' \in [Proc -> Label] /\ force' \in [Proc -> BOOLEAN] /\ line' = line
  BY DEF TypeInv, TypeOK, Finish, Goto, Label
<1>3. todo' \in [Proc -> Seq(Match)] /\ pending' \in [Proc -> Seq(Deployment)]
  BY <1>1 DEF TypeInv, TypeOK, Finish
<1>4. \A q \in Proc : pc'[q] # "idle" => todo'[q] # <<>>
  BY <1>1 DEF TypeInv, TypeOK, Finish, Goto
<1>5. LineOK'
  BY DEF TypeInv, TypeOK, LineOK, Finish, Goto
<1> QED
  BY <1>2, <1>3, <1>4, <1>5 DEF TypeInv, TypeOK

LEMMA DeploymentsType ==
    ASSUME TypeOK, NEW k \in Package, Readable(k)
    PROVE  metadata[k] \in Seq(Deployment)
<1>1. metadata[k] \in Seq(Line)
  BY DEF TypeOK
<1>2. \A i \in 1..Len(metadata[k]) : metadata[k][i] \in Deployment
  BY <1>1 DEF Readable, Deployments, Indices, Line
<1> QED
  BY <1>1, <1>2

LEMMA TypeInit == Init => TypeInv
<1> SUFFICES ASSUME Init PROVE TypeInv
  OBVIOUS
<1> USE DEF Init
<1>1. staged \in Tree /\ head \in Tree
  BY DEF Tree, ObjectFile
<1>2. TypeOK
  BY <1>1, FlagAssumption DEF TypeOK, ObjectFile, Label
<1>3. LineOK
  BY DEF LineOK
<1>4. OpenOK
  BY DEF OpenOK
<1> QED
  BY <1>2, <1>3, <1>4 DEF TypeInv

(* One step per action; the conjuncts an action does not touch are those   *)
(* of the hypothesis.                                                      *)
LEMMA TypeNext == TypeInv /\ [Next]_vars => TypeOK' /\ LineOK'
<1> SUFFICES ASSUME TypeInv, [Next]_vars PROVE TypeOK' /\ LineOK'
  OBVIOUS
<1> USE DEF vars, repo, git, proc, hist
<1>1. ASSUME NEW p \in Proc, Begin(p) PROVE TypeOK' /\ LineOK'
  <2>0. PICK n \in 1..MaxMatches : \E ms \in [1..n -> Match] : todo' = [todo EXCEPT ![p] = ms]
    BY <1>1 DEF Begin
  <2>1. PICK ms \in [1..n -> Match] : todo' = [todo EXCEPT ![p] = ms]
    BY <2>0
  <2>2. ms \in Seq(Match) /\ ms # <<>>
    BY <2>1, BoundAssumption
  <2>3. todo' \in [Proc -> Seq(Match)] /\ \A q \in Proc : pc'[q] # "idle" => todo'[q] # <<>>
    BY <1>1, <2>1, <2>2 DEF Begin, Goto, TypeInv, TypeOK
  <2>4. pc' \in [Proc -> Label] /\ force' \in [Proc -> BOOLEAN] /\ started' \in Nat
    BY <1>1 DEF Begin, Goto, TypeInv, TypeOK, Label
  <2>5. LineOK'
    BY <1>1 DEF Begin, Goto, TypeInv, TypeOK, LineOK
  <2> QED
    BY <1>1, <2>3, <2>4, <2>5 DEF Begin, TypeInv, TypeOK
<1>2. ASSUME NEW p \in Proc, Check(p) PROVE TypeOK' /\ LineOK'
  <2>1. CASE Stop(p)
    BY <1>2, <2>1, StopType DEF Check, TypeInv, TypeOK
  <2>2. CASE Goto(p, "putObject") /\ UNCHANGED proc
    BY <1>2, <2>2 DEF Check, Goto, TypeInv, TypeOK, LineOK, Label
  <2> QED
    BY <1>2, <2>1, <2>2 DEF Check
<1>3. ASSUME NEW p \in Proc, PutObject(p) PROVE TypeOK' /\ LineOK'
  BY <1>3 DEF PutObject, Goto, TypeInv, TypeOK, LineOK, Label
<1>4. ASSUME NEW p \in Proc, CreateObject(p) PROVE TypeOK' /\ LineOK'
  BY <1>4 DEF CreateObject, Goto, TypeInv, TypeOK, LineOK, Label, ObjectFile
<1>5. ASSUME NEW p \in Proc, CopyObject(p) PROVE TypeOK' /\ LineOK'
  <2>1. Cur(p).source \in Content
    BY <1>5, CurType DEF CopyObject, TypeInv
  <2>2. object' \in [Content -> ObjectFile] /\ objectTmp' \in [Content -> ObjectFile]
    BY <1>5, <2>1 DEF CopyObject, TypeInv, TypeOK, ObjectFile
  <2> QED
    BY <1>5, <2>2 DEF CopyObject, Goto, TypeInv, TypeOK, LineOK, Label
<1>6. ASSUME NEW p \in Proc, RenameObject(p) PROVE TypeOK' /\ LineOK'
  <2>1. CASE objectTmp[Cur(p).source] = NoFile
    BY <1>6, <2>1, StopType DEF RenameObject, TypeInv, TypeOK
  <2>2. CASE objectTmp[Cur(p).source] # NoFile
    <3>1. Cur(p).source \in Content
      BY <1>6, CurType DEF RenameObject, TypeInv
    <3>2. object' \in [Content -> ObjectFile] /\ objectTmp' \in [Content -> ObjectFile]
      BY <1>6, <2>2, <3>1 DEF RenameObject, TypeInv, TypeOK, ObjectFile
    <3>3. fd' \in [Proc -> {"closed", "tmp", "file", "gone"}]
      BY <1>6, <2>2 DEF RenameObject, Renamed, TypeInv, TypeOK
    <3>4. pc' \in [Proc -> Label] /\ \A q \in Proc : pc'[q] # "idle" => pc[q] # "idle"
      BY <1>6, <2>2 DEF RenameObject, Goto, TypeInv, TypeOK, Label
    <3>5. LineOK'
      BY <1>6, <2>2 DEF RenameObject, Goto, TypeInv, TypeOK, LineOK
    <3> QED
      BY <1>6, <2>2, <3>2, <3>3, <3>4, <3>5 DEF RenameObject, TypeInv, TypeOK
  <2> QED
    BY <2>1, <2>2
<1>7. ASSUME NEW p \in Proc, AddObject(p) PROVE TypeOK' /\ LineOK'
  <2>1. staged' \in Tree
    BY <1>7 DEF AddObject, TypeInv, TypeOK, Tree
  <2> QED
    BY <1>7, <2>1 DEF AddObject, Goto, TypeInv, TypeOK, LineOK, Label
<1>8. ASSUME NEW p \in Proc, PutVersion(p) PROVE TypeOK' /\ LineOK'
  <2>1. CASE Stop(p)
    BY <1>8, <2>1, StopType DEF PutVersion, TypeInv, TypeOK
  <2>2. CASE ~Stop(p)
    <3> DEFINE k == Cur(p).package
               new == [version |-> Cur(p).version, object |-> Cur(p).source]
    <3>1. k \in Package /\ new \in Deployment
      BY <1>8, CurType DEF PutVersion, TypeInv, Deployment
    <3>2. Readable(k) /\ Goto(p, "createIndex") /\ UNCHANGED <<todo, force, line>>
      BY <1>8, <2>2 DEF PutVersion
    <3>3. PICK s \in Merged(metadata[k], new) : pending' = [pending EXCEPT ![p] = s]
      BY <1>8, <2>2 DEF PutVersion
    <3>4. s \in Seq(Deployment) /\ Len(s) > 0
      <4>1. metadata[k] \in Seq(Deployment)
        BY <3>1, <3>2, DeploymentsType DEF TypeInv
      <4> QED
        BY <3>1, <4>1, MergedElements
    <3>5. LineOK'
      <4>1. line[p] = 0 /\ pc[p] = "putVersion"
        BY <1>8 DEF PutVersion, TypeInv, LineOK
      <4> QED
        BY <3>2, <3>3, <3>4, <4>1 DEF Goto, TypeInv, TypeOK, LineOK
    <3>6. pc' \in [Proc -> Label] /\ pending' \in [Proc -> Seq(Deployment)]
      BY <3>2, <3>3, <3>4 DEF Goto, TypeInv, TypeOK, Label
    <3>7. \A q \in Proc : pc'[q] # "idle" => pc[q] # "idle"
      BY <1>8, <3>2 DEF PutVersion, Goto, TypeInv, TypeOK
    <3> QED
      BY <1>8, <3>2, <3>5, <3>6, <3>7 DEF PutVersion, TypeInv, TypeOK
  <2> QED
    BY <2>1, <2>2
<1>9. ASSUME NEW p \in Proc, CreateIndex(p) PROVE TypeOK' /\ LineOK'
  <2>1. metadataTmp' \in [Package -> Seq(Line) \cup {NoFile}]
    BY <1>9, <<>> \in Seq(Line) DEF CreateIndex, TypeInv, TypeOK
  <2>2. LineOK'
    BY <1>9 DEF CreateIndex, Goto, TypeInv, TypeOK, LineOK
  <2> QED
    BY <1>9, <2>1, <2>2 DEF CreateIndex, Goto, TypeInv, TypeOK, Label
<1>10. ASSUME NEW p \in Proc, WriteLine(p) PROVE TypeOK' /\ LineOK'
  <2> DEFINE k == Cur(p).package
             n == line[p] + 1
             d == pending[p][n]
  <2>1. k \in Package /\ pc[p] = "writeIndex"
    BY <1>10, CurType DEF WriteLine, TypeInv
  <2>2. n \in Nat \ {0} /\ n <= Len(pending[p]) /\ d \in Line
    BY <2>1 DEF TypeInv, TypeOK, LineOK, Line
  <2>3. metadata' \in [Package -> Seq(Line)]
    <3>1. PutLine(metadata[k], n, d) \in Seq(Line)
      BY <2>1, <2>2, PutLineElements DEF TypeInv, TypeOK
    <3> QED
      BY <1>10, <2>1, <3>1 DEF WriteLine, TypeInv, TypeOK
  <2>4. metadataTmp' \in [Package -> Seq(Line) \cup {NoFile}]
    <3>1. CASE fd[p] = "tmp"
      <4>1. metadataTmp[k] \in Seq(Line)
        BY <2>1, <3>1 DEF TypeInv, TypeOK, OpenOK
      <4>2. PutLine(metadataTmp[k], n, d) \in Seq(Line)
        BY <2>2, <4>1, PutLineElements
      <4> QED
        BY <1>10, <2>1, <3>1, <4>2 DEF WriteLine, TypeInv, TypeOK
    <3>2. CASE fd[p] # "tmp"
      BY <1>10, <3>2 DEF WriteLine, TypeInv, TypeOK
    <3> QED
      BY <3>1, <3>2
  <2>5. CASE n < Len(pending[p])
    BY <1>10, <2>2, <2>3, <2>4, <2>5 DEF WriteLine, TypeInv, TypeOK, LineOK
  <2>6. CASE ~(n < Len(pending[p]))
    <3>1. /\ line' = [line EXCEPT ![p] = 0]
          /\ fd' = [fd EXCEPT ![p] = "closed"]
          /\ Goto(p, "renameIndex")
      BY <1>10, <2>6 DEF WriteLine
    <3>2. LineOK'
      BY <1>10, <2>1, <3>1 DEF WriteLine, Goto, TypeInv, TypeOK, LineOK
    <3> HIDE DEF k, n, d
    <3> QED
      BY <1>10, <2>1, <2>3, <2>4, <3>1, <3>2 DEF WriteLine, Goto, TypeInv, TypeOK, Label
  <2> QED
    BY <2>5, <2>6
<1>11. ASSUME NEW p \in Proc, RenameIndex(p) PROVE TypeOK' /\ LineOK'
  <2> DEFINE k == Cur(p).package
  <2>0. pc[p] = "renameIndex" /\ k \in Package /\ Cur(p).version \in Version /\ Cur(p).source \in Content
    BY <1>11, CurType DEF RenameIndex, TypeInv
  <2>1. CASE metadataTmp[k] = NoFile
    BY <1>11, <2>1, StopType DEF RenameIndex, TypeInv, TypeOK
  <2>2. CASE metadataTmp[k] # NoFile
    <3>1. /\ metadata' \in [Package -> Seq(Line)]
          /\ metadataTmp' \in [Package -> Seq(Line) \cup {NoFile}]
      BY <1>11, <2>0, <2>2 DEF RenameIndex, TypeInv, TypeOK
    <3>2. fd' \in [Proc -> {"closed", "tmp", "file", "gone"}]
      BY <1>11, <2>2 DEF RenameIndex, Renamed, TypeInv, TypeOK
    <3>3. acked' \subseteq [package : Package, version : Version, object : Content]
      BY <1>11, <2>0, <2>2 DEF RenameIndex, Publication, Replaced, TypeInv, TypeOK
    <3>4. CASE tracked
      <4>1. Goto(p, "addIndex") /\ UNCHANGED proc
        BY <1>11, <2>2, <3>4 DEF RenameIndex
      <4>2. LineOK' /\ pc' \in [Proc -> Label] /\ \A q \in Proc : pc'[q] # "idle" => pc[q] # "idle"
        BY <2>0, <4>1 DEF Goto, TypeInv, TypeOK, LineOK, Label
      <4> QED
        BY <1>11, <2>2, <3>1, <3>2, <3>3, <4>1, <4>2 DEF RenameIndex, TypeInv, TypeOK
    <3>5. CASE ~tracked
      <4>1. Finish(p)
        BY <1>11, <2>2, <3>5 DEF RenameIndex
      <4> QED
        BY <1>11, <2>0, <2>2, <3>1, <3>2, <3>3, <4>1, FinishType DEF RenameIndex, TypeInv, TypeOK
    <3> QED
      BY <3>4, <3>5
  <2> QED
    BY <2>1, <2>2
<1>12. ASSUME NEW p \in Proc, AddIndex(p) PROVE TypeOK' /\ LineOK'
  <2>1. staged' \in Tree
    BY <1>12 DEF AddIndex, TypeInv, TypeOK, Tree
  <2> QED
    BY <1>12, <2>1 DEF AddIndex, Goto, TypeInv, TypeOK, LineOK, Label
<1>13. ASSUME NEW p \in Proc, Commit(p) PROVE TypeOK' /\ LineOK'
  <2>0. pc[p] = "commit" /\ Cur(p).package \in Package /\ Cur(p).version \in Version /\ Cur(p).source \in Content
    BY <1>13, CurType DEF Commit, TypeInv
  <2>1. CASE staged = head
    BY <1>13, <2>1, StopType DEF Commit, TypeInv, TypeOK
  <2>2. CASE staged # head
    <3>1. acked' \subseteq [package : Package, version : Version, object : Content]
      BY <1>13, <2>0, <2>2 DEF Commit, Publication, TypeInv, TypeOK
    <3>2. Finish(p) /\ orphans' \subseteq Content /\ head' \in Tree
      BY <1>13, <2>2 DEF Commit, TypeInv, TypeOK
    <3> QED
      BY <1>13, <2>0, <3>1, <3>2, FinishType DEF Commit, TypeInv, TypeOK
  <2> QED
    BY <2>1, <2>2
<1>14. ASSUME NEW p \in Proc, Fail(p) PROVE TypeOK' /\ LineOK'
  <2>1. Stop(p) /\ Cur(p).source \in Content
    BY <1>14, CurType DEF Fail, TypeInv
  <2>2. orphans' \subseteq Content /\ fd' \in [Proc -> {"closed", "tmp", "file", "gone"}]
    BY <1>14, <2>1 DEF Fail, TypeInv, TypeOK
  <2> QED
    BY <1>14, <2>1, <2>2, StopType DEF Fail, TypeInv, TypeOK
<1>15. CASE UNCHANGED vars
  BY <1>15 DEF TypeInv, TypeOK, LineOK
<1> QED
  BY <1>1, <1>2, <1>3, <1>4, <1>5, <1>6, <1>7, <1>8, <1>9, <1>10, <1>11, <1>12, <1>13, <1>14, <1>15
     DEF Next, Step, Done

LEMMA OpenNext == TypeInv /\ [Next]_vars => OpenOK'
<1> SUFFICES ASSUME TypeInv, [Next]_vars PROVE OpenOK'
  OBVIOUS
<1> USE DEF vars, repo, git, proc, hist
<1>0. \A p \in Proc : pc[p] = "writeIndex" => Cur(p).package \in Package
  BY CurType DEF TypeInv
<1> DEFINE Frame ==
      /\ \A p \in Proc : pc'[p] = "writeIndex" =>
            pc[p] = "writeIndex" /\ todo'[p] = todo[p] /\ fd'[p] = fd[p]
      /\ \A k \in Package : metadataTmp[k] # NoFile => metadataTmp'[k] # NoFile
<1>1. Frame => OpenOK'
  BY <1>0, OpenFrame DEF TypeInv
\* Everything but the four steps that write the index or its descriptors.
<1>2. ASSUME NEW p \in Proc,
             \/ Begin(p) \/ Check(p) \/ PutObject(p) \/ AddObject(p)
             \/ PutVersion(p) \/ AddIndex(p) \/ Commit(p)
      PROVE Frame
  BY <1>2 DEF Begin, Check, PutObject, AddObject, PutVersion, AddIndex, Commit,
              Stop, Finish, Goto, TypeInv, TypeOK
<1>3. ASSUME NEW p \in Proc, CreateObject(p) \/ CopyObject(p) \/ Fail(p) PROVE Frame
  BY <1>3 DEF CreateObject, CopyObject, Fail, Stop, Goto, TypeInv, TypeOK
<1>4. ASSUME NEW p \in Proc, RenameObject(p) PROVE Frame
  BY <1>4 DEF RenameObject, Stop, Goto, TypeInv, TypeOK
<1>5. ASSUME NEW p \in Proc, CreateIndex(p) PROVE OpenOK'
  <2>1. <<>> # NoFile
    BY LineAssumption, <<>> \in Seq(Deployment \cup {Bad})
  <2>2. Cur(p).package \in Package
    BY <1>5, CurType DEF CreateIndex, TypeInv
  <2>3. /\ metadataTmp' = [metadataTmp EXCEPT ![Cur(p).package] = <<>>]
        /\ \A q \in Proc : q # p => pc'[q] = pc[q] /\ fd'[q] = fd[q]
        /\ todo' = todo
    BY <1>5 DEF CreateIndex, Goto, TypeInv, TypeOK
  <2>4. \A k \in Package : metadataTmp[k] # NoFile => metadataTmp'[k] # NoFile
    BY <2>1, <2>3 DEF TypeInv, TypeOK
  <2>5. metadataTmp'[Cur(p).package] # NoFile
    BY <2>1, <2>2, <2>3 DEF TypeInv, TypeOK
  <2> QED
    BY <1>0, <2>3, <2>4, <2>5 DEF OpenOK, Cur, TypeInv
<1>6. ASSUME NEW p \in Proc, WriteLine(p) PROVE Frame
  <2> DEFINE k == Cur(p).package
             n == line[p] + 1
             d == pending[p][n]
  <2>1. k \in Package /\ pc[p] = "writeIndex"
    BY <1>6, CurType DEF WriteLine, TypeInv
  <2>2. n \in Nat \ {0} /\ n <= Len(pending[p]) /\ d \in Line
    BY <2>1 DEF TypeInv, TypeOK, LineOK, Line
  <2>3. metadataTmp[k] # NoFile => PutLine(metadataTmp[k], n, d) # NoFile
    <3> SUFFICES ASSUME metadataTmp[k] # NoFile PROVE PutLine(metadataTmp[k], n, d) # NoFile
      OBVIOUS
    <3>1. metadataTmp[k] \in Seq(Line)
      BY <2>1 DEF TypeInv, TypeOK
    <3>2. PutLine(metadataTmp[k], n, d) \in Seq(Line)
      BY <2>2, <3>1, PutLineElements
    <3> QED
      BY <3>2, LineAssumption DEF Line
  <2>4. \A j \in Package : metadataTmp[j] # NoFile => metadataTmp'[j] # NoFile
    BY <1>6, <2>1, <2>3 DEF WriteLine, TypeInv, TypeOK
  <2>5. \A q \in Proc : pc'[q] = "writeIndex" =>
            pc[q] = "writeIndex" /\ todo'[q] = todo[q] /\ fd'[q] = fd[q]
    BY <1>6 DEF WriteLine, Goto, TypeInv, TypeOK
  <2> QED
    BY <2>4, <2>5
<1>7. ASSUME NEW p \in Proc, RenameIndex(p) PROVE OpenOK'
  <2> DEFINE k == Cur(p).package
  <2>1. CASE metadataTmp[k] = NoFile
    <3>1. Frame
      BY <1>7, <2>1 DEF RenameIndex, Stop, Goto, TypeInv, TypeOK
    <3> QED
      BY <1>1, <3>1
  <2>2. CASE metadataTmp[k] # NoFile
    <3>1. metadataTmp' = [metadataTmp EXCEPT ![k] = NoFile]
      BY <1>7, <2>2 DEF RenameIndex
    <3>2. \A q \in Proc : pc'[q] = "writeIndex" => pc[q] = "writeIndex" /\ todo'[q] = todo[q]
      BY <1>7, <2>2 DEF RenameIndex, Finish, Goto, TypeInv, TypeOK
    <3>3. \A q \in Proc : pc[q] = "writeIndex" =>
              IF Cur(q).package = k THEN fd'[q] # "tmp" ELSE fd'[q] = fd[q]
      BY <1>7, <2>2 DEF RenameIndex, Renamed, TypeInv, TypeOK
    <3> QED
      BY <1>0, <3>1, <3>2, <3>3 DEF OpenOK, Cur, TypeInv, TypeOK
  <2> QED
    BY <2>1, <2>2
<1>8. CASE UNCHANGED vars
  BY <1>8 DEF OpenOK, Cur, TypeInv
<1> QED
  BY <1>1, <1>2, <1>3, <1>4, <1>5, <1>6, <1>7, <1>8 DEF Next, Step, Done

(* Every variable keeps its type, whatever the publishers do.              *)
THEOREM TypeCorrect == Spec => []TypeOK
<1>1. TypeInv /\ [Next]_vars => TypeInv'
  BY TypeNext, OpenNext DEF TypeInv
<1>2. TypeInv => TypeOK
  BY DEF TypeInv
<1> QED
  BY <1>1, <1>2, TypeInit, PTL DEF Spec

-----------------------------------------------------------------------------
(* IndexedStored.  metadata.json gets its content from temporary files and *)
(* from what a publisher is about to write, through descriptors that may   *)
(* be on either; so all three must name stored objects only.  A publisher  *)
(* adds its own deployment after its object has been stored, and no object *)
(* file is ever removed.                                                   *)

\* Every deployment among the lines s names an object file of obj.
AllStored(obj, s) == \A i \in 1..Len(s) : s[i] # Bad => obj[s[i].object] # NoFile

AfterObject == {"addObject", "putVersion", "createIndex", "writeIndex", "renameIndex",
                "addIndex", "commit"}

StoredInv ==
    /\ \A k \in Package : AllStored(object, metadata[k])
    /\ \A k \in Package : metadataTmp[k] # NoFile => AllStored(object, metadataTmp[k])
    /\ \A p \in Proc : AllStored(object, pending[p])
    /\ \A p \in Proc : pc[p] \in AfterObject => object[Cur(p).source] # NoFile

(* No step removes an object file.                                         *)
LEMMA ObjectsStay ==
    ASSUME TypeInv, [Next]_vars
    PROVE  \A c \in Content : object[c] # NoFile => object'[c] # NoFile
<1> USE DEF vars, repo, git, proc, hist
<1>1. ASSUME NEW p \in Proc, CopyObject(p)
      PROVE  \A c \in Content : object[c] # NoFile => object'[c] # NoFile
  <2>1. Cur(p).source \in Content
    BY <1>1, CurType DEF CopyObject, TypeInv
  <2> QED
    BY <1>1, <2>1, FileAssumption DEF CopyObject, TypeInv, TypeOK
<1>2. ASSUME NEW p \in Proc, RenameObject(p)
      PROVE  \A c \in Content : object[c] # NoFile => object'[c] # NoFile
  BY <1>2 DEF RenameObject, TypeInv, TypeOK
<1>3. ASSUME NEW p \in Proc,
             \/ Begin(p) \/ Check(p) \/ PutObject(p) \/ CreateObject(p) \/ AddObject(p)
             \/ PutVersion(p) \/ CreateIndex(p) \/ WriteLine(p) \/ RenameIndex(p)
             \/ AddIndex(p) \/ Commit(p) \/ Fail(p)
      PROVE  object' = object
  BY <1>3 DEF Begin, Check, PutObject, CreateObject, AddObject, PutVersion, CreateIndex,
              WriteLine, RenameIndex, AddIndex, Commit, Fail
<1>4. CASE UNCHANGED vars
  BY <1>4
<1> QED
  BY <1>1, <1>2, <1>3, <1>4 DEF Next, Step, Done

(* Hence lines that were stored stay stored.                               *)
LEMMA AllStoredStays ==
    ASSUME TypeInv, [Next]_vars, NEW s \in Seq(Line), AllStored(object, s)
    PROVE  AllStored(object', s)
<1> SUFFICES ASSUME NEW i \in 1..Len(s), s[i] # Bad PROVE object'[s[i].object] # NoFile
  BY DEF AllStored
<1>1. s[i] \in Line
  OBVIOUS
<1>2. s[i].object \in Content
  BY <1>1 DEF Line, Deployment
<1> QED
  BY <1>2, ObjectsStay DEF AllStored

LEMMA PutLineStored ==
    ASSUME NEW obj, NEW s \in Seq(Line), NEW n \in Nat \ {0}, NEW d \in Line,
           AllStored(obj, s), d # Bad => obj[d.object] # NoFile
    PROVE  AllStored(obj, PutLine(s, n, d))
<1> DEFINE t == PutLine(s, n, d)
<1>1. \A i \in 1..Len(t) : t[i] \in {d, Bad} \/ \E j \in 1..Len(s) : t[i] = s[j]
  BY PutLineElements
<1> HIDE DEF t
<1>2. AllStored(obj, t)
  BY <1>1 DEF AllStored
<1> QED
  BY <1>2 DEF t

LEMMA StoredInit == Init => StoredInv
BY FileAssumption DEF Init, StoredInv, AllStored, AfterObject

LEMMA StoredNext == TypeInv /\ StoredInv /\ [Next]_vars => StoredInv'
<1> SUFFICES ASSUME TypeInv, StoredInv, [Next]_vars PROVE StoredInv'
  OBVIOUS
<1> USE DEF vars, repo, git, proc, hist
<1>1. /\ \A k \in Package : AllStored(object', metadata[k])
      /\ \A k \in Package : metadataTmp[k] # NoFile => AllStored(object', metadataTmp[k])
      /\ \A p \in Proc : AllStored(object', pending[p])
  <2>1. \A k \in Package : metadataTmp[k] # NoFile => metadataTmp[k] \in Seq(Line)
    BY DEF TypeInv, TypeOK
  <2>2. \A p \in Proc : pending[p] \in Seq(Line)
    BY DEF TypeInv, TypeOK, Line
  <2> QED
    BY <2>1, <2>2, AllStoredStays DEF StoredInv, TypeInv, TypeOK
<1>2. AllStored(object', <<>>)
  BY DEF AllStored
<1>3. \A p \in Proc : pc[p] \in AfterObject => object'[Cur(p).source] # NoFile
  BY CurType, ObjectsStay DEF StoredInv, TypeInv, AfterObject
\* The actions that leave the index and what is to be written to it alone.
<1> DEFINE Frame ==
      /\ metadata' = metadata /\ metadataTmp' = metadataTmp
      /\ \A p \in Proc : pending'[p] \in {pending[p], <<>>}
      /\ \A p \in Proc : pc'[p] \in AfterObject =>
            pc[p] \in AfterObject /\ todo'[p] = todo[p]
<1>4. Frame => StoredInv'
  BY <1>1, <1>2, <1>3 DEF StoredInv, Cur
<1>5. ASSUME NEW p \in Proc,
             Begin(p) \/ Check(p) \/ CreateObject(p) \/ CopyObject(p) \/ Fail(p)
      PROVE  Frame
  BY <1>5 DEF Begin, Check, CreateObject, CopyObject, Fail, Stop, Goto, TypeInv, TypeOK, AfterObject
<1>6. ASSUME NEW p \in Proc, AddObject(p) \/ AddIndex(p) \/ Commit(p) PROVE Frame
  BY <1>6 DEF AddObject, AddIndex, Commit, Stop, Finish, Goto, TypeInv, TypeOK, AfterObject
<1>7. ASSUME NEW p \in Proc, PutObject(p) PROVE StoredInv'
  <2>1. \A q \in Proc : pc'[q] \in AfterObject => object'[Cur(q).source] # NoFile
    BY <1>3, <1>7 DEF PutObject, Goto, TypeInv, TypeOK, AfterObject
  <2> QED
    BY <1>1, <1>7, <2>1 DEF PutObject, StoredInv, Cur
<1>8. ASSUME NEW p \in Proc, RenameObject(p) PROVE StoredInv'
  <2>1. CASE objectTmp[Cur(p).source] = NoFile
    <3>1. Frame
      BY <1>8, <2>1 DEF RenameObject, Stop, Goto, TypeInv, TypeOK, AfterObject
    <3> QED
      BY <1>4, <3>1
  <2>2. CASE objectTmp[Cur(p).source] # NoFile
    <3>1. Cur(p).source \in Content
      BY <1>8, CurType DEF RenameObject, TypeInv
    <3>2. object'[Cur(p).source] # NoFile
      BY <1>8, <2>2, <3>1 DEF RenameObject, TypeInv, TypeOK
    <3>3. \A q \in Proc : pc'[q] \in AfterObject => object'[Cur(q).source] # NoFile
      BY <1>3, <1>8, <2>2, <3>2 DEF RenameObject, Goto, TypeInv, TypeOK, AfterObject
    <3> QED
      BY <1>1, <1>8, <2>2, <3>3 DEF RenameObject, StoredInv, Cur
  <2> QED
    BY <2>1, <2>2
<1>9. ASSUME NEW p \in Proc, PutVersion(p) PROVE StoredInv'
  <2>1. CASE Stop(p)
    <3>1. Frame
      BY <1>9, <2>1 DEF PutVersion, Stop, Goto, TypeInv, TypeOK, AfterObject
    <3> QED
      BY <1>4, <3>1
  <2>2. CASE ~Stop(p)
    <3> DEFINE k == Cur(p).package
               new == [version |-> Cur(p).version, object |-> Cur(p).source]
    <3>1. k \in Package /\ new \in Deployment /\ pc[p] = "putVersion"
      BY <1>9, CurType DEF PutVersion, TypeInv, Deployment
    <3>2. Readable(k) /\ Goto(p, "createIndex") /\ UNCHANGED <<todo, force, line>>
      BY <1>9, <2>2 DEF PutVersion
    <3>3. PICK s \in Merged(metadata[k], new) : pending' = [pending EXCEPT ![p] = s]
      BY <1>9, <2>2 DEF PutVersion
    <3>4. metadata[k] \in Seq(Deployment)
      BY <3>1, <3>2, DeploymentsType DEF TypeInv
    <3>5. object'[new.object] # NoFile
      BY <1>3, <3>1 DEF AfterObject
    <3>6. AllStored(object', s)
      <4>1. /\ s \in Seq(Deployment)
            /\ \A i \in 1..Len(s) : s[i] = new \/ \E j \in 1..Len(metadata[k]) : s[i] = metadata[k][j]
        BY <3>1, <3>4, MergedElements
      <4>2. AllStored(object', metadata[k])
        BY <1>1, <3>1
      <4> HIDE DEF k, new
      <4> QED
        BY <3>5, <4>1, <4>2 DEF AllStored
    <3>7. \A q \in Proc : AllStored(object', pending'[q])
      BY <1>1, <3>3, <3>6 DEF TypeInv, TypeOK
    <3>8. \A q \in Proc : pc'[q] \in AfterObject => object'[Cur(q).source] # NoFile
      BY <1>3, <3>1, <3>2 DEF Goto, TypeInv, TypeOK, AfterObject
    <3> QED
      BY <1>1, <1>9, <3>2, <3>7, <3>8 DEF PutVersion, StoredInv, Cur
  <2> QED
    BY <2>1, <2>2
<1>10. ASSUME NEW p \in Proc, CreateIndex(p) PROVE StoredInv'
  <2>1. \A q \in Proc : pc'[q] \in AfterObject => object'[Cur(q).source] # NoFile
    BY <1>3, <1>10 DEF CreateIndex, Goto, TypeInv, TypeOK, AfterObject
  <2>2. \A k \in Package : metadataTmp'[k] # NoFile => AllStored(object', metadataTmp'[k])
    BY <1>1, <1>2, <1>10 DEF CreateIndex, TypeInv, TypeOK
  <2> QED
    BY <1>1, <1>10, <2>1, <2>2 DEF CreateIndex, StoredInv, Cur
<1>11. ASSUME NEW p \in Proc, WriteLine(p) PROVE StoredInv'
  <2> DEFINE k == Cur(p).package
             n == line[p] + 1
             d == pending[p][n]
  <2>1. k \in Package /\ pc[p] = "writeIndex"
    BY <1>11, CurType DEF WriteLine, TypeInv
  <2>2. n \in Nat \ {0} /\ n \in 1..Len(pending[p]) /\ d \in Line
    BY <2>1 DEF TypeInv, TypeOK, LineOK, Line
  <2>3. d # Bad => object'[d.object] # NoFile
    BY <1>1, <2>2 DEF AllStored
  <2>4. \A j \in Package : AllStored(object', metadata'[j])
    <3>1. AllStored(object', PutLine(metadata[k], n, d))
      BY <1>1, <2>1, <2>2, <2>3, PutLineStored DEF TypeInv, TypeOK
    <3> QED
      BY <1>1, <1>11, <3>1 DEF WriteLine, TypeInv, TypeOK
  <2>5. \A j \in Package : metadataTmp'[j] # NoFile => AllStored(object', metadataTmp'[j])
    <3>1. CASE fd[p] = "tmp"
      <4>1. metadataTmp[k] \in Seq(Line) /\ metadataTmp[k] # NoFile
        BY <2>1, <3>1 DEF TypeInv, TypeOK, OpenOK
      <4>2. AllStored(object', PutLine(metadataTmp[k], n, d))
        BY <1>1, <2>1, <2>2, <2>3, <4>1, PutLineStored
      <4> QED
        BY <1>1, <1>11, <3>1, <4>2 DEF WriteLine, TypeInv, TypeOK
    <3>2. CASE fd[p] # "tmp"
      BY <1>1, <1>11, <3>2 DEF WriteLine
    <3> QED
      BY <3>1, <3>2
  <2>6. \A q \in Proc : pc'[q] \in AfterObject => object'[Cur(q).source] # NoFile
    BY <1>3, <1>11 DEF WriteLine, Goto, TypeInv, TypeOK, AfterObject
  <2> HIDE DEF k, n, d
  <2> QED
    BY <1>1, <1>11, <2>4, <2>5, <2>6 DEF WriteLine, StoredInv, Cur
<1>12. ASSUME NEW p \in Proc, RenameIndex(p) PROVE StoredInv'
  <2> DEFINE k == Cur(p).package
  <2>1. CASE metadataTmp[k] = NoFile
    <3>1. Frame
      BY <1>12, <2>1 DEF RenameIndex, Stop, Goto, TypeInv, TypeOK, AfterObject
    <3> QED
      BY <1>4, <3>1
  <2>2. CASE metadataTmp[k] # NoFile
    <3>1. /\ metadata' = [metadata EXCEPT ![k] = metadataTmp[k]]
          /\ metadataTmp' = [metadataTmp EXCEPT ![k] = NoFile]
      BY <1>12, <2>2 DEF RenameIndex
    <3>2. k \in Package
      BY <1>12, CurType DEF RenameIndex, TypeInv
    <3>3. /\ \A j \in Package : AllStored(object', metadata'[j])
          /\ \A j \in Package : metadataTmp'[j] # NoFile => AllStored(object', metadataTmp'[j])
      BY <1>1, <2>2, <3>1, <3>2 DEF TypeInv, TypeOK
    <3>4. /\ \A q \in Proc : pending'[q] \in {pending[q], <<>>}
          /\ \A q \in Proc : pc'[q] \in AfterObject =>
                pc[q] \in AfterObject /\ todo'[q] = todo[q]
      BY <1>12, <2>2 DEF RenameIndex, Finish, Goto, TypeInv, TypeOK, AfterObject
    <3> QED
      BY <1>1, <1>2, <1>3, <3>3, <3>4 DEF StoredInv, Cur
  <2> QED
    BY <2>1, <2>2
<1>13. CASE UNCHANGED vars
  BY <1>1, <1>3, <1>13 DEF StoredInv, Cur
<1> QED
  BY <1>4, <1>5, <1>6, <1>7, <1>8, <1>9, <1>10, <1>11, <1>12, <1>13 DEF Next, Step, Done

(* No resolution ever finds a deployment whose object is missing: for any  *)
(* number of publishers, racing on the same package and dying anywhere.    *)
THEOREM NeverMissing == Spec => []IndexedStored
<1>1. Init => TypeInv /\ StoredInv
  BY TypeInit, StoredInit
<1>2. TypeInv /\ StoredInv /\ [Next]_vars => (TypeInv /\ StoredInv)'
  BY TypeNext, OpenNext, StoredNext DEF TypeInv
<1>3. TypeInv /\ StoredInv => IndexedStored
  BY DEF TypeInv, TypeOK, StoredInv, IndexedStored, AllStored, Published, Deployments, Indices
<1> QED
  BY <1>1, <1>2, <1>3, PTL DEF Spec

-----------------------------------------------------------------------------
(* CommittedStored.  What is committed was staged, what is staged was in   *)
(* the work tree, and there every line names a stored object; so it is     *)
(* enough to account for every object that is stored.                      *)

Adding(c) == \E p \in Proc : pc[p] = "addObject" /\ Cur(p).source = c
InGit == {"addObject", "addIndex", "commit"}

CommitInv ==
    /\ \A k \in Package : AllStored(object, staged.metadata[k]) /\ AllStored(object, head.metadata[k])
    /\ \A p \in Proc : pc[p] \in InGit => tracked
    /\ \A p \in Proc : pc[p] = "copyObject" /\ fd[p] = "file" => object[Cur(p).source] # NoFile
    /\ ~tracked => \A k \in Package : head.metadata[k] = <<>> /\ staged.metadata[k] = <<>>
    /\ tracked => \A c \in Content :
          object[c] # NoFile => staged.object[c] # NoFile \/ c \in orphans \/ Adding(c)

LEMMA CommitInit == Init => CommitInv
BY FileAssumption DEF Init, CommitInv, AllStored, InGit

LEMMA CommitNext == TypeInv /\ StoredInv /\ CommitInv /\ [Next]_vars => CommitInv'
<1> SUFFICES ASSUME TypeInv, StoredInv, CommitInv, [Next]_vars PROVE CommitInv'
  OBVIOUS
<1> USE DEF vars, repo, git, proc, hist
<1>1. \A k \in Package : /\ AllStored(object', staged.metadata[k])
                         /\ AllStored(object', head.metadata[k])
                         /\ AllStored(object', metadata[k])
  <2>1. \A k \in Package : /\ staged.metadata[k] \in Seq(Line) /\ head.metadata[k] \in Seq(Line)
                           /\ metadata[k] \in Seq(Line)
    BY DEF TypeInv, TypeOK, Tree
  <2> QED
    BY <2>1, AllStoredStays DEF CommitInv, StoredInv
<1>2. \A p \in Proc : pc[p] = "copyObject" /\ fd[p] = "file" => object'[Cur(p).source] # NoFile
  BY CurType, ObjectsStay DEF CommitInv, TypeInv
\* What only moves publishers, and none of them out of adding an object.
<1> DEFINE Moves ==
      /\ \A p \in Proc : pc'[p] \in InGit => tracked
      /\ \A p \in Proc : pc'[p] = "copyObject" /\ fd'[p] = "file" =>
            pc[p] = "copyObject" /\ fd[p] = "file" /\ todo'[p] = todo[p]
      /\ \A p \in Proc : pc[p] = "addObject" => pc'[p] = "addObject" /\ todo'[p] = todo[p]
           Rests == UNCHANGED <<git, orphans>> /\ object' = object
<1>3. Moves /\ Rests => CommitInv'
  BY <1>1, <1>2 DEF CommitInv, Adding, Cur
<1>4. ASSUME NEW p \in Proc,
             \/ Begin(p) \/ Check(p) \/ PutObject(p) \/ CreateObject(p) \/ PutVersion(p)
             \/ CreateIndex(p) \/ WriteLine(p) \/ RenameIndex(p)
      PROVE  Moves /\ Rests
  <2>1. Rests
    BY <1>4 DEF Begin, Check, PutObject, CreateObject, PutVersion, CreateIndex, WriteLine, RenameIndex
  <2>2. CASE \/ Begin(p) \/ Check(p) \/ PutObject(p) \/ CreateObject(p) \/ PutVersion(p)
    BY <2>2 DEF Begin, Check, PutObject, CreateObject, PutVersion, Stop, Goto, TypeInv, TypeOK,
                CommitInv, InGit
  <2>3. CASE CreateIndex(p) \/ WriteLine(p)
    BY <2>3 DEF CreateIndex, WriteLine, Goto, TypeInv, TypeOK, CommitInv, InGit
  <2>4. CASE RenameIndex(p)
    BY <2>4 DEF RenameIndex, Stop, Finish, Goto, Renamed, TypeInv, TypeOK, CommitInv, InGit
  <2> QED
    BY <1>4, <2>1, <2>2, <2>3, <2>4
<1>5. ASSUME NEW p \in Proc, CopyObject(p) PROVE CommitInv'
  <2>1. Moves
    BY <1>5 DEF CopyObject, Goto, TypeInv, TypeOK, CommitInv, InGit
  <2>2. UNCHANGED <<git, orphans>>
    BY <1>5 DEF CopyObject
  <2>3. \A c \in Content : object'[c] # NoFile => object[c] # NoFile
    BY <1>5 DEF CopyObject, CommitInv, TypeInv, TypeOK
  <2> QED
    BY <1>1, <1>2, <2>1, <2>2, <2>3 DEF CommitInv, Adding, Cur
<1>6. ASSUME NEW p \in Proc, RenameObject(p) PROVE CommitInv'
  <2> DEFINE c == Cur(p).source
  <2>1. CASE objectTmp[c] = NoFile
    <3>1. Moves /\ Rests
      BY <1>6, <2>1 DEF RenameObject, Stop, Goto, TypeInv, TypeOK, CommitInv, InGit
    <3> QED
      BY <1>3, <3>1
  <2>2. CASE objectTmp[c] # NoFile
    <3>1. /\ object' = [object EXCEPT ![c] = objectTmp[c]] /\ UNCHANGED <<todo, git, orphans>>
          /\ pc' = [pc EXCEPT ![p] = IF tracked THEN "addObject" ELSE "putVersion"]
          /\ pc[p] = "renameObject"
          /\ \A q \in Proc : fd'[q] = IF pc[q] = "copyObject" /\ Cur(q).source = c
                                      THEN Renamed(q) ELSE fd[q]
      BY <1>6, <2>2 DEF RenameObject, Goto
    <3>2. c \in Content
      BY <3>1, CurType DEF TypeInv
    <3>3. object'[c] # NoFile
      BY <2>2, <3>1, <3>2 DEF TypeInv, TypeOK
    <3>4. \A q \in Proc : pc'[q] = "copyObject" /\ fd'[q] = "file" => object'[Cur(q).source] # NoFile
      BY <1>2, <3>1, <3>3 DEF TypeInv, TypeOK
    <3>5. \A q \in Proc : pc'[q] \in InGit => tracked
      BY <3>1 DEF CommitInv, TypeInv, TypeOK, InGit
    <3>6. tracked => \A b \in Content : object'[b] # NoFile
                        => staged.object[b] # NoFile \/ b \in orphans \/ Adding(b)'
      <4> SUFFICES ASSUME tracked, NEW b \in Content, object'[b] # NoFile
                   PROVE  staged.object[b] # NoFile \/ b \in orphans \/ Adding(b)'
        OBVIOUS
      <4>1. CASE b = c
        BY <3>1, <4>1 DEF Adding, Cur, TypeInv, TypeOK
      <4>2. CASE b # c
        <5>1. object[b] # NoFile
          BY <3>1, <3>2, <4>2 DEF TypeInv, TypeOK
        <5> QED
          BY <3>1, <5>1 DEF CommitInv, Adding, Cur, TypeInv, TypeOK
      <4> QED
        BY <4>1, <4>2
    <3> HIDE DEF c
    <3> QED
      BY <1>1, <3>1, <3>4, <3>5, <3>6 DEF CommitInv, Cur
  <2> QED
    BY <2>1, <2>2
<1>7. ASSUME NEW p \in Proc, AddObject(p) PROVE CommitInv'
  <2> DEFINE c == Cur(p).source
  <2>1. /\ pc[p] = "addObject" /\ staged' = [staged EXCEPT !.object[c] = object[c]]
        /\ pc' = [pc EXCEPT ![p] = "putVersion"]
        /\ UNCHANGED <<object, metadata, tracked, head, todo, fd, orphans>>
    BY <1>7 DEF AddObject, Goto
  <2>2. c \in Content /\ object[c] # NoFile
    BY <2>1, CurType DEF TypeInv, StoredInv, AfterObject
  <2>3. /\ staged'.metadata = staged.metadata
        /\ \A b \in Content : staged'.object[b] = IF b = c THEN object[c] ELSE staged.object[b]
    BY <2>1, <2>2 DEF TypeInv, TypeOK, Tree
  <2>4. \A b \in Content : Adding(b) => b = c \/ Adding(b)'
    BY <2>1 DEF Adding, Cur, TypeInv, TypeOK
  <2> HIDE DEF c
  <2> QED
    BY <1>1, <1>2, <2>1, <2>2, <2>3, <2>4 DEF CommitInv, InGit, Cur, TypeInv, TypeOK
<1>8. ASSUME NEW p \in Proc, AddIndex(p) PROVE CommitInv'
  <2> DEFINE k == Cur(p).package
  <2>1. /\ pc[p] = "addIndex" /\ staged' = [staged EXCEPT !.metadata[k] = metadata[k]]
        /\ pc' = [pc EXCEPT ![p] = "commit"]
        /\ UNCHANGED <<object, metadata, tracked, head, todo, fd, orphans>>
    BY <1>8 DEF AddIndex, Goto
  <2>2. k \in Package /\ tracked
    BY <2>1, CurType DEF TypeInv, CommitInv, InGit
  <2>3. /\ staged'.object = staged.object
        /\ \A j \in Package : staged'.metadata[j] = IF j = k THEN metadata[k] ELSE staged.metadata[j]
    BY <2>1, <2>2 DEF TypeInv, TypeOK, Tree
  <2>4. \A b \in Content : Adding(b) => Adding(b)'
    BY <2>1 DEF Adding, Cur, TypeInv, TypeOK
  <2> HIDE DEF k
  <2> QED
    BY <1>1, <1>2, <2>1, <2>2, <2>3, <2>4 DEF CommitInv, InGit, Cur, TypeInv, TypeOK
<1>9. ASSUME NEW p \in Proc, Commit(p) PROVE CommitInv'
  <2>1. Moves /\ UNCHANGED <<object, staged, tracked>> /\ tracked
    BY <1>9 DEF Commit, Stop, Finish, Goto, TypeInv, TypeOK, CommitInv, InGit
  <2>2. \/ UNCHANGED <<head, orphans>>
        \/ head' = staged /\ orphans' = {c \in orphans : staged.object[c] = NoFile}
    BY <1>9 DEF Commit
  <2>3. \A b \in Content : Adding(b) => Adding(b)'
    BY <2>1 DEF Adding, Cur
  <2> QED
    BY <1>1, <1>2, <2>1, <2>2, <2>3 DEF CommitInv, Cur
<1>10. ASSUME NEW p \in Proc, Fail(p) PROVE CommitInv'
  <2>1. /\ pc' = [pc EXCEPT ![p] = "idle"] /\ fd' = [fd EXCEPT ![p] = "closed"]
        /\ \A q \in Proc : q # p => todo'[q] = todo[q]
        /\ UNCHANGED <<object, git>>
        /\ orphans' = IF pc[p] = "addObject" THEN orphans \cup {Cur(p).source} ELSE orphans
    BY <1>10 DEF Fail, Stop, Goto, TypeInv, TypeOK
  <2>2. \A b \in Content : Adding(b) => Adding(b)' \/ b \in orphans'
    BY <2>1 DEF Adding, Cur, TypeInv, TypeOK
  <2> QED
    BY <1>1, <1>2, <2>1, <2>2 DEF CommitInv, InGit, Cur, TypeInv, TypeOK
<1>11. CASE UNCHANGED vars
  BY <1>3, <1>11 DEF CommitInv
<1> QED
  BY <1>3, <1>4, <1>5, <1>6, <1>7, <1>8, <1>9, <1>10, <1>11 DEF Next, Step, Done

(* CommittedStored, of every behaviour: what is pushed from a repository     *)
(* that publishers share is closed, but for objects somebody is adding or    *)
(* was killed before adding.                                                 *)
THEOREM PushedClosed == Spec => []CommittedStored
<1>1. Init => TypeInv /\ StoredInv /\ CommitInv
  BY TypeInit, StoredInit, CommitInit
<1>2. TypeInv /\ StoredInv /\ CommitInv /\ [Next]_vars => (TypeInv /\ StoredInv /\ CommitInv)'
  BY TypeNext, OpenNext, StoredNext, CommitNext DEF TypeInv
<1>3. TypeInv /\ CommitInv => CommittedStored
  <2> SUFFICES ASSUME TypeInv, CommitInv, NEW k \in Package, NEW d \in Committed(k)
               PROVE  \/ head.object[d.object] # NoFile
                      \/ staged.object[d.object] # NoFile
                      \/ d.object \in orphans \cup BeingAdded
    BY DEF CommittedStored
  <2>1. PICK i \in 1..Len(head.metadata[k]) : d = head.metadata[k][i] /\ d # Bad
    BY DEF Committed, Indices
  <2>2. head.metadata[k] \in Seq(Line)
    BY DEF TypeInv, TypeOK, Tree
  <2>3. d.object \in Content
    BY <2>1, <2>2 DEF Line, Deployment
  <2>4. object[d.object] # NoFile /\ tracked
    BY <2>1, <2>2 DEF CommitInv, AllStored
  <2>5. Adding(d.object) => d.object \in BeingAdded
    BY DEF Adding, BeingAdded
  <2> QED
    BY <2>3, <2>4, <2>5 DEF CommitInv
<1> QED
  BY <1>1, <1>2, <1>3, PTL DEF Spec

(***************************************************************************)
(* What publishers that work apart (see Publish) keep, each from the least *)
(* that has to be excluded.  Any number of publishers may be active, die   *)
(* anywhere, and overlap wherever the theorem does not forbid it.          *)
(***************************************************************************)
Lines(s) == {s[i] : i \in Indices(s)}
\* The deployment a publisher is about to add.
New(p) == [version |-> Cur(p).version, object |-> Cur(p).source]

-----------------------------------------------------------------------------
(* Lemmas about the operators.                                             *)

LEMMA VersionType == \A d \in Deployment : d.version \in Int
BY VersionAssumption DEF Deployment

(* What put_version computes from a list in order: a list in order, of the *)
(* deployments of the other versions and the new one.                      *)
LEMMA MergedSorted ==
    ASSUME NEW s \in Seq(Deployment), StrictlySorted(s), NEW d \in Deployment,
           NEW t \in Merged(s, d)
    PROVE  /\ StrictlySorted(t)
           /\ Lines(t) = {x \in Lines(s) : x.version # d.version} \cup {d}
<1> DEFINE all == Append(s, d)
           K == Kept(s, d.version) \cup {Len(all)}
           n == Cardinality(K)
<1>1. /\ all \in Seq(Deployment) /\ Len(all) = Len(s) + 1 /\ Len(s) \in Nat
      /\ all[Len(all)] = d /\ \A i \in 1..Len(s) : all[i] = s[i]
  OBVIOUS
<1>2. /\ K \subseteq 1..Len(all)
      /\ \A i \in K : i # Len(all) => i \in 1..Len(s) /\ s[i].version # d.version
      /\ \A i \in 1..Len(s) : s[i].version # d.version => i \in K
      /\ Len(all) \in K
  BY <1>1 DEF Kept, Indices
<1>3. IsFiniteSet(K)
  <2>1. IsFiniteSet(1..Len(all))
    BY <1>1, FS_Interval
  <2> QED
    BY <1>2, <2>1, FS_Subset
<1>4. n \in Nat
  BY <1>3, FS_CardinalityType
<1>5. PICK f \in StableOrders(all, K) : t = [i \in 1..n |-> all[f[i]]]
  BY DEF Merged
<1>6. f \in [1..n -> K]
  BY <1>5 DEF StableOrders
<1>7. t \in Seq(Deployment) /\ Len(t) = n /\ \A i \in 1..n : t[i] = all[f[i]]
  <2> HIDE DEF n, K, all
  <2>1. \A i \in 1..n : f[i] \in 1..Len(all)
    BY <1>2, <1>6
  <2>2. \A i \in 1..n : all[f[i]] \in Deployment
    BY <1>1, <2>1
  <2>3. t \in [1..n -> Deployment]
    BY <1>5, <2>2
  <2> QED
    BY <1>4, <1>5, <2>3, IsASeq, LenProperties
<1>8. \A i, j \in 1..n : i < j => t[i].version < t[j].version
  <2> SUFFICES ASSUME NEW i \in 1..n, NEW j \in 1..n, i < j
               PROVE  t[i].version < t[j].version
    OBVIOUS
  <2> DEFINE a == f[i]
             b == f[j]
  <2>1. a \in K /\ b \in K /\ t[i] = all[a] /\ t[j] = all[b]
    BY <1>6, <1>7
  <2>2. \/ all[a].version < all[b].version
        \/ all[a].version = all[b].version /\ a < b
    BY <1>5 DEF StableOrders
  <2>3. ~(all[a].version = all[b].version /\ a < b)
    <3> HIDE DEF a, b, K
    <3> SUFFICES ASSUME all[a].version = all[b].version, a < b PROVE FALSE
      OBVIOUS
    <3>1. a \in 1..Len(s) /\ s[a].version # d.version /\ all[a] = s[a] /\ b \in 1..Len(all)
      BY <1>1, <1>2, <2>1
    <3>2. CASE b = Len(all)
      BY <1>1, <3>1, <3>2
    <3>3. CASE b # Len(all)
      <4>1. b \in 1..Len(s) /\ all[b] = s[b]
        BY <1>1, <1>2, <2>1, <3>3
      <4>2. s[a].version < s[b].version
        BY <3>1, <4>1 DEF StrictlySorted, Indices
      <4>3. s[a].version \in Int
        <5>1. s[a] \in Deployment
          BY <3>1
        <5> QED
          BY <5>1, VersionType
      <4> QED
        BY <3>1, <4>1, <4>2, <4>3
    <3> QED
      BY <3>2, <3>3
  <2> QED
    BY <2>1, <2>2, <2>3
<1>9. StrictlySorted(t)
  <2>1. \A i \in 1..n : t[i] # Bad
    BY <1>7, LineAssumption
  <2> QED
    BY <1>7, <1>8, <2>1 DEF StrictlySorted, Indices
\* The order hits every index that is kept: it never repeats one.
<1>10. \A k \in K : \E i \in 1..n : f[i] = k
  <2>1. f \in Injection(1..n, K)
    <3> HIDE DEF n, K, all
    <3>1. ASSUME NEW i \in 1..n, NEW j \in 1..n, i < j PROVE f[i] # f[j]
      <4>1. t[i].version < t[j].version
        BY <1>8, <3>1
      <4>2. t[i].version \in Int
        <5>1. t[i] \in Deployment
          BY <1>7
        <5> QED
          BY <5>1, VersionType
      <4> QED
        BY <1>7, <4>1, <4>2
    <3>2. \A i, j \in 1..n : f[i] = f[j] => i = j
      BY <1>4, <3>1
    <3> QED
      BY <1>6, <3>2 DEF Injection, IsInjective
  <2>2. IsFiniteSet(1..n) /\ Cardinality(1..n) = n
    BY <1>4, FS_Interval
  <2>3. f \in Surjection(1..n, K)
    BY <1>3, <2>1, <2>2, FS_Injection
  <2> QED
    BY <2>3 DEF Surjection
<1>11. Lines(t) = {x \in Lines(s) : x.version # d.version} \cup {d}
  <2> HIDE DEF n, K, all
  <2>1. ASSUME NEW x \in Lines(t)
        PROVE  x \in {y \in Lines(s) : y.version # d.version} \cup {d}
    <3>1. PICK i \in 1..n : x = all[f[i]]
      BY <1>7 DEF Lines, Indices
    <3>2. f[i] \in K
      BY <1>6
    <3> QED
      BY <1>1, <1>2, <3>1, <3>2 DEF Lines, Indices
  <2>2. ASSUME NEW x \in {y \in Lines(s) : y.version # d.version} \cup {d}
        PROVE  x \in Lines(t)
    <3>1. PICK k \in K : x = all[k]
      BY <1>1, <1>2 DEF Lines, Indices
    <3>2. PICK i \in 1..n : f[i] = k
      BY <1>10
    <3> QED
      BY <1>7, <3>1, <3>2 DEF Lines, Indices
  <2> QED
    BY <2>1, <2>2
<1> QED
  BY <1>9, <1>11

(* One line after the other, the file becomes the list.                    *)
LEMMA PutNextLine ==
    ASSUME NEW t \in Seq(Deployment), NEW n \in 1..Len(t)
    PROVE  PutLine(SubSeq(t, 1, n - 1), n, t[n]) = SubSeq(t, 1, n)
<1> DEFINE s == SubSeq(t, 1, n - 1)
           u == SubSeq(t, 1, n)
<1>1. /\ Len(s) = n - 1 /\ \A i \in 1..(n - 1) : s[i] = t[i]
      /\ Len(u) = n /\ \A i \in 1..n : u[i] = t[i]
  OBVIOUS
<1>2. u = [i \in 1..n |-> t[i]]
  BY <1>1
<1> HIDE DEF s, u
<1>3. PutLine(s, n, t[n]) = [i \in 1..n |-> IF i = n THEN t[n] ELSE IF i <= n - 1 THEN s[i] ELSE Bad]
  BY <1>1 DEF PutLine
<1>4. \A i \in 1..n : (IF i = n THEN t[n] ELSE IF i <= n - 1 THEN s[i] ELSE Bad) = t[i]
  BY <1>1
<1> QED
  BY <1>2, <1>3, <1>4 DEF s, u

(* A publisher moves nobody else, but for the file another one's descriptor *)
(* is on when a temporary file gets renamed.                               *)
LEMMA OthersRest ==
    ASSUME TypeInv, NEW p \in Proc, Begin(p) \/ Step(p) \/ Fail(p),
           NEW q \in Proc, q # p
    PROVE  /\ pc'[q] = pc[q] /\ todo'[q] = todo[q] /\ force'[q] = force[q]
           /\ pending'[q] = pending[q] /\ line'[q] = line[q]
           /\ \/ fd'[q] = fd[q]
              \/ RenameObject(p) /\ pc[q] = "copyObject" /\ Cur(q).source = Cur(p).source
              \/ RenameIndex(p) /\ pc[q] = "writeIndex" /\ Cur(q).package = Cur(p).package
<1> USE DEF repo, git, proc, hist, TypeInv, TypeOK, Goto, Stop, Finish
<1>1. CASE Begin(p)
  BY <1>1 DEF Begin
<1>2. CASE Check(p) \/ PutObject(p) \/ CreateObject(p) \/ CopyObject(p)
  BY <1>2 DEF Check, PutObject, CreateObject, CopyObject
<1>3. CASE RenameObject(p)
  BY <1>3 DEF RenameObject
<1>4. CASE AddObject(p) \/ PutVersion(p) \/ CreateIndex(p)
  BY <1>4 DEF AddObject, PutVersion, CreateIndex
<1>5. CASE WriteLine(p)
  BY <1>5 DEF WriteLine
<1>6. CASE RenameIndex(p)
  BY <1>6 DEF RenameIndex
<1>7. CASE AddIndex(p) \/ Commit(p) \/ Fail(p)
  BY <1>7 DEF AddIndex, Commit, Fail
<1> QED
  BY <1>1, <1>2, <1>3, <1>4, <1>5, <1>6, <1>7 DEF Step

-----------------------------------------------------------------------------
(* Ordered.  What a publisher is going to write is in order because it was *)
(* merged into a list in order; while nobody else writes the temporary     *)
(* file, that file holds the lines written so far, so that what gets       *)
(* renamed is the whole list.                                              *)

WriterOK(p) ==
    /\ StrictlySorted(pending[p])
    /\ pc[p] = "writeIndex" =>
          /\ fd[p] = "tmp"
          /\ metadataTmp[Cur(p).package] = SubSeq(pending[p], 1, line[p])
    /\ pc[p] = "renameIndex" => metadataTmp[Cur(p).package] = pending[p]

OrderInv ==
    /\ \A k \in Package : /\ StrictlySorted(metadata[k])
                          /\ StrictlySorted(staged.metadata[k])
                          /\ StrictlySorted(head.metadata[k])
    /\ \A p \in Proc : WriterOK(p)

LEMMA EmptySorted == StrictlySorted(<<>>)
BY DEF StrictlySorted, Indices

LEMMA OrderInit == Init => OrderInv
BY EmptySorted DEF Init, OrderInv, WriterOK

LEMMA WriterFrame ==
    ASSUME NEW q \in Proc, WriterOK(q), pending'[q] \in {pending[q], <<>>},
           pc'[q] \in Writing =>
              /\ pc'[q] = pc[q] /\ todo'[q] = todo[q] /\ pending'[q] = pending[q]
              /\ line'[q] = line[q] /\ fd'[q] = fd[q]
              /\ metadataTmp'[Cur(q).package] = metadataTmp[Cur(q).package]
    PROVE  WriterOK(q)'
BY EmptySorted DEF WriterOK, Writing, Cur

(* Nobody else disturbs a writer who is alone with its temporary file.     *)
LEMMA WriterAlone ==
    ASSUME TypeInv, PackageApart(Writing), NEW p \in Proc, Begin(p) \/ Step(p) \/ Fail(p),
           NEW q \in Proc, q # p, WriterOK(q),
           pc[q] \in Writing => metadataTmp'[Cur(q).package] = metadataTmp[Cur(q).package]
    PROVE  WriterOK(q)'
<1>1. /\ pc'[q] = pc[q] /\ todo'[q] = todo[q] /\ pending'[q] = pending[q] /\ line'[q] = line[q]
      /\ \/ fd'[q] = fd[q]
         \/ RenameObject(p) /\ pc[q] = "copyObject"
         \/ RenameIndex(p) /\ pc[q] = "writeIndex" /\ Cur(q).package = Cur(p).package
  BY OthersRest
<1>2. RenameIndex(p) /\ pc[q] \in Writing => Cur(q).package # Cur(p).package
  BY DEF RenameIndex, PackageApart, Writing
<1>3. pc[q] \in Writing => fd'[q] = fd[q]
  BY <1>1, <1>2 DEF Writing
<1> QED
  BY <1>1, <1>3, WriterFrame

LEMMA OrderNext ==
    TypeInv /\ OrderInv /\ PackageApart(Writing) /\ PackageApart(Writing)' /\ [Next]_vars
       => OrderInv'
<1> SUFFICES ASSUME TypeInv, OrderInv, PackageApart(Writing), PackageApart(Writing)', [Next]_vars
             PROVE  OrderInv'
  OBVIOUS
<1> USE DEF repo, git, proc, hist
<1>0. \A q \in Proc : WriterOK(q)
  BY DEF OrderInv
\* Steps that leave the files of the index and those who write them alone.
<1> DEFINE Quiet(p) ==
      /\ UNCHANGED <<metadata, staged, head, metadataTmp>>
      /\ pending'[p] \in {pending[p], <<>>}
      /\ pc'[p] \notin Writing
<1>1. ASSUME NEW p \in Proc, Begin(p) \/ Step(p) \/ Fail(p),
             UNCHANGED metadataTmp, pending'[p] \in {pending[p], <<>>}, pc'[p] \notin Writing
      PROVE  \A q \in Proc : WriterOK(q)'
  <2> SUFFICES ASSUME NEW q \in Proc PROVE WriterOK(q)'
    OBVIOUS
  <2>1. CASE q = p
    BY <1>0, <1>1, <2>1, WriterFrame
  <2>2. CASE q # p
    BY <1>0, <1>1, <2>2, WriterAlone
  <2> QED
    BY <2>1, <2>2
<1>2. ASSUME NEW p \in Proc, Begin(p) \/ Step(p) \/ Fail(p), Quiet(p)
      PROVE  OrderInv'
  BY <1>1, <1>2 DEF OrderInv
<1>3. ASSUME NEW p \in Proc,
             \/ Begin(p) \/ Check(p) \/ PutObject(p) \/ CreateObject(p) \/ CopyObject(p)
      PROVE  OrderInv'
  BY <1>2, <1>3 DEF Begin, Check, PutObject, CreateObject, CopyObject, Step, Stop, Goto, Writing,
                    TypeInv, TypeOK
<1>4. ASSUME NEW p \in Proc, RenameObject(p) PROVE OrderInv'
  BY <1>2, <1>4 DEF RenameObject, Step, Stop, Goto, Writing, TypeInv, TypeOK
<1>5. ASSUME NEW p \in Proc, Fail(p) PROVE OrderInv'
  BY <1>2, <1>5 DEF Fail, Stop, Goto, Writing, TypeInv, TypeOK
<1>6. ASSUME NEW p \in Proc, AddObject(p) PROVE OrderInv'
  <2>1. staged'.metadata = staged.metadata /\ UNCHANGED <<metadata, head, metadataTmp, pending>>
    BY <1>6 DEF AddObject, TypeInv, TypeOK, Tree
  <2>2. pc'[p] \notin Writing
    BY <1>6 DEF AddObject, Goto, Writing, TypeInv, TypeOK
  <2>3. \A q \in Proc : WriterOK(q)'
    BY <1>1, <1>6, <2>1, <2>2 DEF Step
  <2> QED
    BY <2>1, <2>3 DEF OrderInv
<1>7. ASSUME NEW p \in Proc, AddIndex(p) PROVE OrderInv'
  <2> DEFINE k == Cur(p).package
  <2>1. /\ \A j \in Package : staged'.metadata[j] = IF j = k THEN metadata[k] ELSE staged.metadata[j]
        /\ UNCHANGED <<metadata, head, metadataTmp, pending>>
    BY <1>7 DEF AddIndex, TypeInv, TypeOK, Tree
  <2>2. pc'[p] \notin Writing /\ k \in Package
    BY <1>7, CurType DEF AddIndex, Goto, Writing, TypeInv, TypeOK
  <2>3. \A q \in Proc : WriterOK(q)'
    BY <1>1, <1>7, <2>1, <2>2 DEF Step
  <2> HIDE DEF k
  <2> QED
    BY <2>1, <2>2, <2>3 DEF OrderInv
<1>8. ASSUME NEW p \in Proc, Commit(p) PROVE OrderInv'
  <2>1. head' \in {head, staged} /\ UNCHANGED <<metadata, staged, metadataTmp>>
    BY <1>8 DEF Commit
  <2>2. pc'[p] \notin Writing /\ pending'[p] = <<>>
    BY <1>8 DEF Commit, Stop, Finish, Goto, Writing, TypeInv, TypeOK
  <2>3. \A q \in Proc : WriterOK(q)'
    BY <1>1, <1>8, <2>1, <2>2 DEF Step
  <2> QED
    BY <2>1, <2>3 DEF OrderInv
<1>9. ASSUME NEW p \in Proc, PutVersion(p) PROVE OrderInv'
  <2>1. UNCHANGED <<metadata, staged, head, metadataTmp>> /\ pc'[p] \notin Writing
    BY <1>9 DEF PutVersion, Stop, Goto, Writing, TypeInv, TypeOK
  <2>2. CASE Stop(p)
    BY <1>2, <1>9, <2>1, <2>2 DEF Step, Stop, TypeInv, TypeOK
  <2>3. CASE ~Stop(p)
    <3> DEFINE k == Cur(p).package
               new == [version |-> Cur(p).version, object |-> Cur(p).source]
    <3>1. k \in Package /\ new \in Deployment
      BY <1>9, CurType DEF PutVersion, TypeInv, Deployment
    <3>2. Readable(k)
      BY <1>9, <2>3 DEF PutVersion
    <3>3. PICK s \in Merged(metadata[k], new) : pending' = [pending EXCEPT ![p] = s]
      BY <1>9, <2>3 DEF PutVersion
    <3>4. metadata[k] \in Seq(Deployment) /\ StrictlySorted(metadata[k])
      BY <3>1, <3>2, DeploymentsType DEF TypeInv, OrderInv
    <3>5. StrictlySorted(s)
      BY <3>1, <3>4, MergedSorted
    <3>6. StrictlySorted(pending'[p])
      BY <3>3, <3>5 DEF TypeInv, TypeOK
    <3>7. ASSUME NEW q \in Proc PROVE WriterOK(q)'
      <4>1. CASE q = p
        BY <2>1, <3>6, <4>1 DEF WriterOK, Writing
      <4>2. CASE q # p
        BY <1>0, <1>9, <2>1, <4>2, WriterAlone DEF Step
      <4> QED
        BY <4>1, <4>2
    <3> QED
      BY <2>1, <3>7 DEF OrderInv
  <2> QED
    BY <2>2, <2>3
<1>10. ASSUME NEW p \in Proc, CreateIndex(p) PROVE OrderInv'
  <2> DEFINE k == Cur(p).package
  <2>1. /\ metadataTmp' = [metadataTmp EXCEPT ![k] = <<>>]
        /\ UNCHANGED <<metadata, staged, head, pending, line, todo>>
        /\ fd'[p] = "tmp" /\ pc'[p] = "writeIndex" /\ k \in Package /\ line[p] = 0
    BY <1>10, CurType DEF CreateIndex, Goto, TypeInv, TypeOK, LineOK
  <2>2. metadataTmp'[k] = SubSeq(pending[p], 1, 0)
    BY <2>1 DEF TypeInv, TypeOK
  <2>3. ASSUME NEW q \in Proc PROVE WriterOK(q)'
    <3>1. CASE q = p
      BY <1>0, <2>1, <2>2, <3>1 DEF WriterOK, Cur
    <3>2. CASE q # p
      <4>1. pc'[q] = pc[q]
        BY <1>10, <3>2, OthersRest DEF Step
      <4>2. pc[q] \in Writing => Cur(q).package # k
        BY <2>1, <3>2, <4>1 DEF PackageApart, Writing, Cur
      <4>3. pc[q] \in Writing => metadataTmp'[Cur(q).package] = metadataTmp[Cur(q).package]
        BY <2>1, <4>2 DEF TypeInv, TypeOK
      <4> QED
        BY <1>0, <1>10, <3>2, <4>3, WriterAlone DEF Step
    <3> QED
      BY <3>1, <3>2
  <2> HIDE DEF k
  <2> QED
    BY <2>1, <2>3 DEF OrderInv
<1>11. ASSUME NEW p \in Proc, WriteLine(p) PROVE OrderInv'
  <2> DEFINE k == Cur(p).package
             n == line[p] + 1
             s == pending[p]
  <2>1. /\ pc[p] = "writeIndex" /\ k \in Package /\ fd[p] = "tmp" /\ s \in Seq(Deployment)
        /\ n \in 1..Len(s) /\ metadataTmp[k] = SubSeq(s, 1, n - 1)
    BY <1>0, <1>11, CurType DEF WriteLine, WriterOK, TypeInv, TypeOK, LineOK
  <2>2. /\ metadataTmp' = [metadataTmp EXCEPT ![k] = PutLine(metadataTmp[k], n, s[n])]
        /\ UNCHANGED <<metadata, staged, head, pending, todo>>
    BY <1>11, <2>1 DEF WriteLine
  <2>3. metadataTmp'[k] = SubSeq(s, 1, n)
    <3>1. PutLine(SubSeq(s, 1, n - 1), n, s[n]) = SubSeq(s, 1, n)
      BY <2>1, PutNextLine
    <3> QED
      BY <2>1, <2>2, <3>1 DEF TypeInv, TypeOK
  <2>4. WriterOK(p)'
    <3>1. CASE n < Len(s)
      <4>1. line'[p] = n /\ pc'[p] = "writeIndex" /\ fd'[p] = "tmp"
        BY <1>11, <2>1, <3>1 DEF WriteLine, TypeInv, TypeOK
      <4> QED
        BY <1>0, <2>2, <2>3, <4>1 DEF WriterOK, Cur
    <3>2. CASE ~(n < Len(s))
      <4>1. pc'[p] = "renameIndex" /\ n = Len(s)
        BY <1>11, <2>1, <3>2 DEF WriteLine, Goto, TypeInv, TypeOK
      <4>2. SubSeq(s, 1, n) = s
        BY <2>1, <4>1
      <4> QED
        BY <1>0, <2>2, <2>3, <4>1, <4>2 DEF WriterOK, Cur
    <3> QED
      BY <3>1, <3>2
  <2>5. ASSUME NEW q \in Proc, q # p PROVE WriterOK(q)'
    <3>1. pc[q] \in Writing => Cur(q).package # k
      BY <2>1, <2>5 DEF PackageApart, Writing
    <3>2. pc[q] \in Writing => metadataTmp'[Cur(q).package] = metadataTmp[Cur(q).package]
      BY <2>2, <3>1 DEF TypeInv, TypeOK
    <3> QED
      BY <1>0, <1>11, <2>5, <3>2, WriterAlone DEF Step
  <2> HIDE DEF k, n, s
  <2> QED
    BY <2>2, <2>4, <2>5 DEF OrderInv
<1>12. ASSUME NEW p \in Proc, RenameIndex(p) PROVE OrderInv'
  <2> DEFINE k == Cur(p).package
  <2>1. pc[p] = "renameIndex" /\ k \in Package /\ metadataTmp[k] = pending[p]
    BY <1>0, <1>12, CurType DEF RenameIndex, WriterOK, TypeInv
  <2>2. metadataTmp[k] # NoFile
    BY <2>1, LineAssumption DEF TypeInv, TypeOK
  <2>3. /\ metadata' = [metadata EXCEPT ![k] = pending[p]]
        /\ metadataTmp' = [metadataTmp EXCEPT ![k] = NoFile]
        /\ UNCHANGED <<staged, head>>
    BY <1>12, <2>1, <2>2 DEF RenameIndex
  <2>4. \A j \in Package : StrictlySorted(metadata'[j])
    BY <1>0, <2>1, <2>3 DEF OrderInv, WriterOK, TypeInv, TypeOK
  <2>5. pc'[p] \notin Writing /\ pending'[p] \in {pending[p], <<>>}
    BY <1>12, <2>1, <2>2 DEF RenameIndex, Finish, Goto, Writing, TypeInv, TypeOK
  <2>6. ASSUME NEW q \in Proc PROVE WriterOK(q)'
    <3>1. CASE q = p
      BY <1>0, <2>5, <3>1, WriterFrame
    <3>2. CASE q # p
      <4>1. pc[q] \in Writing => Cur(q).package # k
        BY <2>1, <3>2 DEF PackageApart, Writing
      <4>2. pc[q] \in Writing => metadataTmp'[Cur(q).package] = metadataTmp[Cur(q).package]
        BY <2>3, <4>1 DEF TypeInv, TypeOK
      <4> QED
        BY <1>0, <1>12, <3>2, <4>2, WriterAlone DEF Step
    <3> QED
      BY <3>1, <3>2
  <2> HIDE DEF k
  <2> QED
    BY <2>3, <2>4, <2>6 DEF OrderInv
<1>13. CASE UNCHANGED vars
  BY <1>13 DEF OrderInv, WriterOK, vars, Cur
<1> QED
  BY <1>3, <1>4, <1>5, <1>6, <1>7, <1>8, <1>9, <1>10, <1>11, <1>12, <1>13
     DEF Next, Step, Done, vars

(* Types without any condition, to build on.                               *)
LEMMA TypeAlways == Spec => []TypeInv
<1>1. TypeInv /\ [Next]_vars => TypeInv'
  BY TypeNext, OpenNext DEF TypeInv
<1> QED
  BY <1>1, TypeInit, PTL DEF Spec

(* metadata.json is in order, each version once, in the work tree and in   *)
(* git, whenever it is looked at, as long as no two publishers are between *)
(* creating and renaming the temporary file of the same package: whatever  *)
(* else they do at the same time, and wherever they die.                   *)
THEOREM OrderedApart == Spec /\ []PackageApart(Writing) => []Ordered
<1>1. OrderInv => Ordered
  BY DEF OrderInv, Ordered
<1> QED
  BY <1>1, OrderInit, OrderNext, TypeAlways, PTL DEF Spec

-----------------------------------------------------------------------------
(* OnlyForceReplaces.  From reading metadata.json to renaming its          *)
(* successor, a publisher holds the list as it is but for its own version; *)
(* and it has checked that nobody has published that version, or has been  *)
(* told to replace it.                                                     *)

Merging(p) ==
    pc[p] \in Indexing =>
       /\ Lines(pending[p]) =
             {d \in Lines(metadata[Cur(p).package]) : d.version # Cur(p).version} \cup {New(p)}
       /\ (\E d \in Lines(metadata[Cur(p).package]) : d.version = Cur(p).version) => force[p]

IndexInv == \A p \in Proc : Merging(p)

LEMMA PublishedLines ==
    ASSUME OrderInv, NEW k \in Package
    PROVE  Published(k) = Lines(metadata[k])
BY DEF OrderInv, StrictlySorted, Published, Deployments, Lines, Indices

(* metadata.json changes only by being replaced as a whole.                *)
LEMMA MetadataRests ==
    ASSUME TypeInv, OrderInv, NEW p \in Proc, Begin(p) \/ Step(p) \/ Fail(p), ~RenameIndex(p)
    PROVE  metadata' = metadata
<1> USE DEF repo
<1>1. CASE WriteLine(p)
  <2>1. fd[p] = "tmp"
    BY <1>1 DEF OrderInv, WriterOK, WriteLine
  <2> QED
    BY <1>1, <2>1 DEF WriteLine
<1>2. CASE \/ Begin(p) \/ Check(p) \/ PutObject(p) \/ CreateObject(p) \/ CopyObject(p)
           \/ RenameObject(p) \/ AddObject(p) \/ PutVersion(p) \/ CreateIndex(p)
           \/ AddIndex(p) \/ Commit(p) \/ Fail(p)
  BY <1>2 DEF Begin, Check, PutObject, CreateObject, CopyObject, RenameObject, AddObject,
              PutVersion, CreateIndex, AddIndex, Commit, Fail
<1> QED
  BY <1>1, <1>2 DEF Step

LEMMA MetadataReplaced ==
    ASSUME TypeInv, OrderInv, NEW p \in Proc, RenameIndex(p)
    PROVE  /\ pc[p] = "renameIndex" /\ Cur(p).package \in Package
           /\ metadata' = [metadata EXCEPT ![Cur(p).package] = pending[p]]
           /\ pc'[p] \notin Indexing
           /\ IF tracked THEN UNCHANGED <<todo, force>> /\ pc'[p] = "addIndex"
                              /\ acked' = acked \ Replaced(p)
              ELSE Finish(p) /\ acked' = (acked \ Replaced(p)) \cup {Publication(p)}
           /\ UNCHANGED <<object, objectTmp, tracked, staged, head, orphans>>
<1>1. /\ pc[p] = "renameIndex" /\ Cur(p).package \in Package
      /\ metadataTmp[Cur(p).package] = pending[p]
  BY CurType DEF RenameIndex, OrderInv, WriterOK, TypeInv
<1>2. metadataTmp[Cur(p).package] # NoFile
  BY <1>1, LineAssumption DEF TypeInv, TypeOK
<1> QED
  BY <1>1, <1>2 DEF RenameIndex, Finish, Goto, Indexing, Writing, TypeInv, TypeOK, git, proc

LEMMA IndexInit == Init => IndexInv
BY DEF Init, IndexInv, Merging, Indexing, Writing

LEMMA MergingFrame ==
    ASSUME NEW q \in Proc, Merging(q),
           pc'[q] \in Indexing =>
              /\ pc[q] \in Indexing /\ todo'[q] = todo[q] /\ pending'[q] = pending[q]
              /\ force'[q] = force[q]
              /\ metadata'[Cur(q).package] = metadata[Cur(q).package]
    PROVE  Merging(q)'
BY DEF Merging, New, Cur

(* Nobody replaces the list somebody is merging into.                      *)
LEMMA MergingAlone ==
    ASSUME TypeInv, OrderInv, PackageApart(Indexing),
           NEW p \in Proc, Begin(p) \/ Step(p) \/ Fail(p),
           NEW q \in Proc, q # p, Merging(q)
    PROVE  Merging(q)'
<1>1. /\ pc'[q] = pc[q] /\ todo'[q] = todo[q] /\ pending'[q] = pending[q]
      /\ force'[q] = force[q]
  BY OthersRest
<1>2. pc[q] \in Indexing => metadata'[Cur(q).package] = metadata[Cur(q).package]
  <2>1. CASE RenameIndex(p)
    <3>1. /\ pc[p] = "renameIndex"
          /\ metadata' = [metadata EXCEPT ![Cur(p).package] = pending[p]]
      BY <2>1, MetadataReplaced
    <3>2. pc[q] \in Indexing => Cur(q).package # Cur(p).package
      BY <3>1 DEF PackageApart, Indexing, Writing
    <3> QED
      BY <3>1, <3>2 DEF TypeInv, TypeOK
  <2>2. CASE ~RenameIndex(p)
    BY <2>2, MetadataRests
  <2> QED
    BY <2>1, <2>2
<1> QED
  BY <1>1, <1>2, MergingFrame

LEMMA IndexNext ==
    TypeInv /\ OrderInv /\ IndexInv /\ PackageApart(Indexing) /\ [Next]_vars => IndexInv'
<1> SUFFICES ASSUME TypeInv, OrderInv, IndexInv, PackageApart(Indexing), [Next]_vars
             PROVE  IndexInv'
  OBVIOUS
<1> USE DEF repo, git, proc, hist
<1>0. \A q \in Proc : Merging(q)
  BY DEF IndexInv
<1>1. ASSUME NEW p \in Proc, Begin(p) \/ Step(p) \/ Fail(p), Merging(p)' PROVE IndexInv'
  BY <1>0, <1>1, MergingAlone DEF IndexInv
<1>2. ASSUME NEW p \in Proc, Begin(p) \/ Step(p) \/ Fail(p), pc'[p] \notin Indexing
      PROVE  IndexInv'
  BY <1>1, <1>2 DEF Merging
<1>3. ASSUME NEW p \in Proc,
             \/ Begin(p) \/ Check(p) \/ PutObject(p) \/ CreateObject(p) \/ CopyObject(p)
      PROVE  IndexInv'
  BY <1>2, <1>3 DEF Begin, Check, PutObject, CreateObject, CopyObject, Step, Stop, Goto, Indexing,
                    Writing, TypeInv, TypeOK
<1>4. ASSUME NEW p \in Proc, RenameObject(p) \/ AddObject(p) \/ AddIndex(p) PROVE IndexInv'
  BY <1>2, <1>4 DEF RenameObject, AddObject, AddIndex, Step, Stop, Goto, Indexing, Writing,
                    TypeInv, TypeOK
<1>5. ASSUME NEW p \in Proc, Commit(p) \/ Fail(p) PROVE IndexInv'
  BY <1>2, <1>5 DEF Commit, Fail, Step, Stop, Finish, Goto, Indexing, Writing, TypeInv, TypeOK
<1>6. ASSUME NEW p \in Proc, RenameIndex(p) PROVE IndexInv'
  BY <1>2, <1>6, MetadataReplaced DEF Step
<1>7. ASSUME NEW p \in Proc, CreateIndex(p) \/ WriteLine(p) PROVE IndexInv'
  <2>1. ~RenameIndex(p) /\ pc[p] \in Indexing /\ UNCHANGED <<todo, pending, force>>
    BY <1>7 DEF CreateIndex, WriteLine, RenameIndex, Indexing, Writing
  <2>2. metadata' = metadata
    BY <1>7, <2>1, MetadataRests DEF Step
  <2>3. Merging(p)'
    BY <1>0, <2>1, <2>2, MergingFrame
  <2> QED
    BY <1>1, <1>7, <2>3 DEF Step
<1>8. ASSUME NEW p \in Proc, PutVersion(p) PROVE IndexInv'
  <2>1. CASE Stop(p)
    BY <1>2, <1>8, <2>1 DEF Step, Stop, Goto, Indexing, Writing, TypeInv, TypeOK
  <2>2. CASE ~Stop(p)
    <3> DEFINE k == Cur(p).package
               new == [version |-> Cur(p).version, object |-> Cur(p).source]
    <3>1. k \in Package /\ new \in Deployment
      BY <1>8, CurType DEF PutVersion, TypeInv, Deployment
    <3>2. /\ Readable(k) /\ UNCHANGED <<metadata, todo, force>>
          /\ (\E d \in Published(k) : d.version = new.version) => force[p]
      BY <1>8, <2>2 DEF PutVersion
    <3>3. PICK s \in Merged(metadata[k], new) : pending' = [pending EXCEPT ![p] = s]
      BY <1>8, <2>2 DEF PutVersion
    <3>4. metadata[k] \in Seq(Deployment) /\ StrictlySorted(metadata[k])
      BY <3>1, <3>2, DeploymentsType DEF TypeInv, OrderInv
    <3>5. Lines(s) = {x \in Lines(metadata[k]) : x.version # new.version} \cup {new}
      BY <3>1, <3>4, MergedSorted
    <3>6. (\E d \in Lines(metadata[k]) : d.version = Cur(p).version) => force[p]
      BY <3>1, <3>2, PublishedLines
    <3>7. pending'[p] = s
      BY <3>3 DEF TypeInv, TypeOK
    <3>8. Merging(p)'
      BY <3>2, <3>5, <3>6, <3>7 DEF Merging, New, Cur
    <3> QED
      BY <1>1, <1>8, <3>8 DEF Step
  <2> QED
    BY <2>1, <2>2
<1>9. CASE UNCHANGED vars
  BY <1>9 DEF IndexInv, Merging, New, vars, Cur
<1> QED
  BY <1>3, <1>4, <1>5, <1>6, <1>7, <1>8, <1>9 DEF Next, Step, Done, vars

(* What one step makes of the published deployments.                       *)
LEMMA PublishedNext ==
    ASSUME TypeInv, OrderInv, OrderInv', IndexInv, [Next]_vars
    PROVE  \/ \A k \in Package : Published(k)' = Published(k)
           \/ \E p \in Proc, k \in Package :
                 /\ RenameIndex(p) /\ k = Cur(p).package
                 /\ \A j \in Package \ {k} : Published(j)' = Published(j)
                 /\ Published(k)' = {d \in Published(k) : d.version # Cur(p).version} \cup {New(p)}
                 /\ (\E d \in Published(k) : d.version = Cur(p).version) => force[p]
<1>1. \A k \in Package : /\ Published(k) = Lines(metadata[k])
                         /\ Published(k)' = Lines(metadata'[k])
  <2>1. \A k \in Package : Published(k) = Lines(metadata[k])
    BY PublishedLines
  <2>2. \A k \in Package : Published(k)' = Lines(metadata'[k])
    BY DEF OrderInv, StrictlySorted, Published, Deployments, Lines, Indices
  <2> QED
    BY <2>1, <2>2
<1>2. CASE \E p \in Proc : RenameIndex(p)
  <2>1. PICK p \in Proc : RenameIndex(p)
    BY <1>2
  <2>0. PICK k \in Package : k = Cur(p).package
    BY <2>1, MetadataReplaced
  <2>2. /\ pc[p] = "renameIndex"
        /\ metadata' = [metadata EXCEPT ![k] = pending[p]]
    BY <2>0, <2>1, MetadataReplaced
  <2>3. /\ Lines(pending[p]) = {d \in Lines(metadata[k]) : d.version # Cur(p).version} \cup {New(p)}
        /\ (\E d \in Lines(metadata[k]) : d.version = Cur(p).version) => force[p]
    BY <2>0, <2>2 DEF IndexInv, Merging, Indexing, Writing
  <2>4. metadata'[k] = pending[p] /\ \A j \in Package \ {k} : metadata'[j] = metadata[j]
    BY <2>2 DEF TypeInv, TypeOK
  <2>5. /\ \A j \in Package \ {k} : Published(j)' = Published(j)
        /\ Published(k)' = {d \in Published(k) : d.version # Cur(p).version} \cup {New(p)}
        /\ (\E d \in Published(k) : d.version = Cur(p).version) => force[p]
    BY <1>1, <2>2, <2>3, <2>4
  <2> QED
    BY <2>0, <2>1, <2>5
<1>3. CASE ~ \E p \in Proc : RenameIndex(p)
  <2>1. metadata' = metadata
    BY <1>3, MetadataRests DEF Next, Done, vars, repo
  <2> QED
    BY <1>1, <2>1
<1> QED
  BY <1>2, <1>3

LEMMA ApartWeaker ==
    /\ PackageApart(Indexing) => PackageApart(Writing)
    /\ PackageApart(Committing) => PackageApart(Indexing)
BY DEF PackageApart, Committing, Indexing, Writing

(* No version is replaced, nor does it disappear, but by a publication of  *)
(* it that was forced: as long as nobody reads metadata.json while another *)
(* publisher of the package is between reading it and renaming the next.   *)
THEOREM ReplacedByForce == Spec /\ []PackageApart(Indexing) => OnlyForceReplaces
<1>1. TypeInv /\ OrderInv /\ OrderInv' /\ IndexInv /\ [Next]_vars
         => [\A k \in Package : \A d \in Published(k) :
               \/ d \in Published(k)'
               \/ \E p \in Proc : /\ pc[p] = "renameIndex" /\ force[p]
                                  /\ Cur(p).package = k /\ Cur(p).version = d.version]_vars
  <2> SUFFICES ASSUME TypeInv, OrderInv, OrderInv', IndexInv, [Next]_vars,
                      NEW k \in Package, NEW d \in Published(k), ~(d \in Published(k)')
               PROVE  \E p \in Proc : /\ pc[p] = "renameIndex" /\ force[p]
                                      /\ Cur(p).package = k /\ Cur(p).version = d.version
    OBVIOUS
  <2> QED
    BY PublishedNext DEF RenameIndex
<1> QED
  BY <1>1, ApartWeaker, OrderInit, OrderNext, IndexInit, IndexNext, TypeAlways, PTL
     DEF Spec, OnlyForceReplaces

-----------------------------------------------------------------------------
(* Intact.  A publisher that is alone with the temporary file of an object *)
(* renames what it copied itself, which is the source of that checksum     *)
(* unless it was edited meanwhile.                                         *)

StorerOK(p) ==
    /\ pc[p] = "copyObject" => fd[p] = "tmp"
    /\ pc[p] = "renameObject" => objectTmp[Cur(p).source] = Cur(p).source

IntactInv ==
    /\ \A c \in Content : object[c] \in {NoFile, c} /\ staged.object[c] \in {NoFile, c}
                          /\ head.object[c] \in {NoFile, c}
    /\ \A p \in Proc : StorerOK(p)

LEMMA IntactInit == Init => IntactInv
BY DEF Init, IntactInv, StorerOK

LEMMA StorerFrame ==
    ASSUME NEW q \in Proc, StorerOK(q),
           pc'[q] \in Storing =>
              /\ pc'[q] = pc[q] /\ todo'[q] = todo[q] /\ fd'[q] = fd[q]
              /\ objectTmp'[Cur(q).source] = objectTmp[Cur(q).source]
    PROVE  StorerOK(q)'
BY DEF StorerOK, Storing, Cur

LEMMA StorerAlone ==
    ASSUME TypeInv, SourceApart(Storing), NEW p \in Proc, Begin(p) \/ Step(p) \/ Fail(p),
           NEW q \in Proc, q # p, StorerOK(q),
           pc[q] \in Storing => objectTmp'[Cur(q).source] = objectTmp[Cur(q).source]
    PROVE  StorerOK(q)'
<1>1. /\ pc'[q] = pc[q] /\ todo'[q] = todo[q]
      /\ \/ fd'[q] = fd[q]
         \/ RenameObject(p) /\ pc[q] = "copyObject" /\ Cur(q).source = Cur(p).source
         \/ RenameIndex(p) /\ pc[q] = "writeIndex"
  BY OthersRest
<1>2. RenameObject(p) /\ pc[q] \in Storing => Cur(q).source # Cur(p).source
  BY DEF RenameObject, SourceApart, Storing
<1>3. pc[q] \in Storing => fd'[q] = fd[q]
  BY <1>1, <1>2 DEF Storing
<1> QED
  BY <1>1, <1>3, StorerFrame

LEMMA IntactNext ==
    ASSUME ~Edits
    PROVE  TypeInv /\ IntactInv /\ SourceApart(Storing) /\ SourceApart(Storing)' /\ [Next]_vars
              => IntactInv'
<1> SUFFICES ASSUME TypeInv, IntactInv, SourceApart(Storing), SourceApart(Storing)', [Next]_vars
             PROVE  IntactInv'
  OBVIOUS
<1> USE DEF repo, git, proc, hist
<1>0. \A q \in Proc : StorerOK(q)
  BY DEF IntactInv
<1>1. ASSUME NEW p \in Proc, Begin(p) \/ Step(p) \/ Fail(p), objectTmp' = objectTmp,
             pc'[p] \notin Storing
      PROVE  \A q \in Proc : StorerOK(q)'
  <2> SUFFICES ASSUME NEW q \in Proc PROVE StorerOK(q)'
    OBVIOUS
  <2>1. CASE q = p
    BY <1>0, <1>1, <2>1, StorerFrame
  <2>2. CASE q # p
    BY <1>0, <1>1, <2>2, StorerAlone
  <2> QED
    BY <2>1, <2>2
<1>2. ASSUME NEW p \in Proc, Begin(p) \/ Step(p) \/ Fail(p),
             UNCHANGED <<object, objectTmp, staged, head>>, pc'[p] \notin Storing
      PROVE  IntactInv'
  BY <1>1, <1>2 DEF IntactInv
<1>3. ASSUME NEW p \in Proc, Begin(p) \/ Check(p) \/ PutObject(p) \/ PutVersion(p)
      PROVE  IntactInv'
  BY <1>2, <1>3 DEF Begin, Check, PutObject, PutVersion, Step, Stop, Goto, Storing, TypeInv, TypeOK
<1>4. ASSUME NEW p \in Proc, CreateIndex(p) \/ WriteLine(p) \/ Fail(p) PROVE IntactInv'
  BY <1>2, <1>4 DEF CreateIndex, WriteLine, Fail, Step, Stop, Goto, Storing, TypeInv, TypeOK
<1>5. ASSUME NEW p \in Proc, RenameIndex(p) PROVE IntactInv'
  BY <1>2, <1>5 DEF RenameIndex, Step, Stop, Finish, Goto, Storing, TypeInv, TypeOK
<1>6. ASSUME NEW p \in Proc, CreateObject(p) PROVE IntactInv'
  <2>1. /\ objectTmp' = [objectTmp EXCEPT ![Cur(p).source] = Partial]
        /\ UNCHANGED <<object, staged, head, todo>>
        /\ fd'[p] = "tmp" /\ pc'[p] = "copyObject"
    BY <1>6 DEF CreateObject, Goto, TypeInv, TypeOK
  <2>2. ASSUME NEW q \in Proc PROVE StorerOK(q)'
    <3>1. CASE q = p
      BY <2>1, <3>1 DEF StorerOK
    <3>2. CASE q # p
      <4>1. pc'[q] = pc[q]
        BY <1>6, <3>2, OthersRest DEF Step
      <4>2. pc[q] \in Storing => Cur(q).source # Cur(p).source
        BY <2>1, <3>2, <4>1 DEF SourceApart, Storing, Cur
      <4>3. pc[q] \in Storing => objectTmp'[Cur(q).source] = objectTmp[Cur(q).source]
        BY <2>1, <4>2 DEF TypeInv, TypeOK
      <4> QED
        BY <1>0, <1>6, <3>2, <4>3, StorerAlone DEF Step
    <3> QED
      BY <3>1, <3>2
  <2> QED
    BY <2>1, <2>2 DEF IntactInv
<1>7. ASSUME NEW p \in Proc, CopyObject(p) PROVE IntactInv'
  <2>1. pc[p] = "copyObject" /\ fd[p] = "tmp" /\ Cur(p).source \in Content
    BY <1>0, <1>7, CurType DEF CopyObject, StorerOK, TypeInv
  <2>2. /\ objectTmp' = [objectTmp EXCEPT ![Cur(p).source] = Cur(p).source]
        /\ UNCHANGED <<object, staged, head, todo>>
        /\ pc'[p] = "renameObject"
    BY <1>7, <2>1 DEF CopyObject, Goto, TypeInv, TypeOK
  <2>3. ASSUME NEW q \in Proc PROVE StorerOK(q)'
    <3>1. CASE q = p
      BY <2>1, <2>2, <3>1 DEF StorerOK, Cur, TypeInv, TypeOK
    <3>2. CASE q # p
      <4>1. pc[q] \in Storing => Cur(q).source # Cur(p).source
        BY <2>1, <3>2 DEF SourceApart, Storing
      <4>2. pc[q] \in Storing => objectTmp'[Cur(q).source] = objectTmp[Cur(q).source]
        BY <2>2, <4>1 DEF TypeInv, TypeOK
      <4> QED
        BY <1>0, <1>7, <3>2, <4>2, StorerAlone DEF Step
    <3> QED
      BY <3>1, <3>2
  <2> QED
    BY <2>2, <2>3 DEF IntactInv
<1>8. ASSUME NEW p \in Proc, RenameObject(p) PROVE IntactInv'
  <2>0. pc'[p] \notin Storing
    BY <1>8 DEF RenameObject, Stop, Goto, Storing, TypeInv, TypeOK
  <2>1. CASE objectTmp[Cur(p).source] = NoFile
    BY <1>2, <1>8, <2>0, <2>1 DEF RenameObject, Step
  <2>2. CASE objectTmp[Cur(p).source] # NoFile
    <3>1. /\ pc[p] = "renameObject" /\ Cur(p).source \in Content
          /\ objectTmp[Cur(p).source] = Cur(p).source
      BY <1>0, <1>8, CurType DEF RenameObject, StorerOK, TypeInv
    <3>2. /\ object' = [object EXCEPT ![Cur(p).source] = Cur(p).source]
          /\ objectTmp' = [objectTmp EXCEPT ![Cur(p).source] = NoFile]
          /\ UNCHANGED <<staged, head, todo>>
      BY <1>8, <2>2, <3>1 DEF RenameObject
    <3>3. ASSUME NEW q \in Proc PROVE StorerOK(q)'
      <4>1. CASE q = p
        BY <2>0, <4>1 DEF StorerOK, Storing
      <4>2. CASE q # p
        <5>1. pc[q] \in Storing => Cur(q).source # Cur(p).source
          BY <3>1, <4>2 DEF SourceApart, Storing
        <5>2. pc[q] \in Storing => objectTmp'[Cur(q).source] = objectTmp[Cur(q).source]
          BY <3>2, <5>1 DEF TypeInv, TypeOK
        <5> QED
          BY <1>0, <1>8, <4>2, <5>2, StorerAlone DEF Step
      <4> QED
        BY <4>1, <4>2
    <3>4. \A c \in Content : object'[c] \in {NoFile, c}
      BY <3>1, <3>2 DEF IntactInv, TypeInv, TypeOK
    <3> QED
      BY <3>2, <3>3, <3>4 DEF IntactInv
  <2> QED
    BY <2>1, <2>2
<1>9. ASSUME NEW p \in Proc, AddObject(p) PROVE IntactInv'
  <2>1. /\ \A c \in Content : staged'.object[c] \in {staged.object[c], object[c]}
        /\ UNCHANGED <<object, objectTmp, head>> /\ pc'[p] \notin Storing
    BY <1>9 DEF AddObject, Goto, Storing, TypeInv, TypeOK, Tree
  <2>2. \A q \in Proc : StorerOK(q)'
    BY <1>1, <1>9, <2>1 DEF Step
  <2> QED
    BY <2>1, <2>2 DEF IntactInv
<1>10. ASSUME NEW p \in Proc, AddIndex(p) PROVE IntactInv'
  <2>1. /\ staged'.object = staged.object
        /\ UNCHANGED <<object, objectTmp, head>> /\ pc'[p] \notin Storing
    BY <1>10 DEF AddIndex, Goto, Storing, TypeInv, TypeOK, Tree
  <2>2. \A q \in Proc : StorerOK(q)'
    BY <1>1, <1>10, <2>1 DEF Step
  <2> QED
    BY <2>1, <2>2 DEF IntactInv
<1>11. ASSUME NEW p \in Proc, Commit(p) PROVE IntactInv'
  <2>1. head' \in {head, staged} /\ UNCHANGED <<object, objectTmp, staged>>
    BY <1>11 DEF Commit
  <2>2. pc'[p] \notin Storing
    BY <1>11 DEF Commit, Stop, Finish, Goto, Storing, TypeInv, TypeOK
  <2>3. \A q \in Proc : StorerOK(q)'
    BY <1>1, <1>11, <2>1, <2>2 DEF Step
  <2> QED
    BY <2>1, <2>3 DEF IntactInv
<1>12. CASE UNCHANGED vars
  BY <1>12 DEF IntactInv, StorerOK, vars, Cur
<1> QED
  BY <1>3, <1>4, <1>5, <1>6, <1>7, <1>8, <1>9, <1>10, <1>11, <1>12 DEF Next, Step, Done, vars

(* An object that exists is whole and has the content its name promises,   *)
(* in the work tree and in git, as long as sources are not edited while    *)
(* they are published and no two publishers write the same one at once.    *)
THEOREM IntactApart ==
    ASSUME ~Edits
    PROVE  Spec /\ []SourceApart(Storing) => []Intact
<1>1. IntactInv => Intact
  BY DEF IntactInv, Intact
<1> QED
  BY <1>1, IntactInit, IntactNext, TypeAlways, PTL DEF Spec

-----------------------------------------------------------------------------
(* AckedHeld.  A publisher keeps the lock on its package up to the commit: *)
(* what it renamed is what it stages and what it commits.  That its object *)
(* is committed with it needs more: nobody else may be about to add it.    *)

Dep(a) == [version |-> a.version, object |-> a.object]

Held(a) ==
    /\ Dep(a) \in Lines(metadata[a.package])
    /\ tracked => /\ Dep(a) \in Lines(staged.metadata[a.package])
                  /\ Dep(a) \in Lines(head.metadata[a.package])
                  /\ head.object[a.object] = a.object \/ a.object \in orphans

AddedOK(p) ==
    /\ pc[p] \in {"addIndex", "commit"} => New(p) \in Lines(metadata[Cur(p).package])
    /\ pc[p] = "commit" => New(p) \in Lines(staged.metadata[Cur(p).package])

HeldInv ==
    /\ \A a \in acked : Held(a)
    /\ \A p \in Proc : AddedOK(p)
    /\ \A c \in Content : head.object[c] # NoFile => staged.object[c] # NoFile

LEMMA HeldInit == Init => HeldInv
BY DEF Init, HeldInv, AddedOK

LEMMA AddedFrame ==
    ASSUME NEW q \in Proc, AddedOK(q),
           pc'[q] \in {"addIndex", "commit"} =>
              /\ pc'[q] = pc[q] /\ todo'[q] = todo[q]
              /\ metadata'[Cur(q).package] = metadata[Cur(q).package]
              /\ staged'.metadata[Cur(q).package] = staged.metadata[Cur(q).package]
    PROVE  AddedOK(q)'
BY DEF AddedOK, New, Cur

LEMMA HeldNext ==
    /\ TypeInv /\ StoredInv /\ CommitInv /\ OrderInv /\ OrderInv' /\ IndexInv /\ IntactInv
    /\ Apart /\ HeldInv /\ [Next]_vars
    => HeldInv'
<1> SUFFICES ASSUME TypeInv, StoredInv, CommitInv, OrderInv, OrderInv', IndexInv, IntactInv,
                    Apart, HeldInv, [Next]_vars
             PROVE  HeldInv'
  OBVIOUS
<1> USE DEF repo, git, proc, hist
<1>0. /\ \A a \in acked : Held(a)
      /\ \A q \in Proc : AddedOK(q)
      /\ \A c \in Content : head.object[c] # NoFile => staged.object[c] # NoFile
      /\ PackageApart(Committing)
      /\ SourceApart(Storing \cup {"addObject", "commit"})
  BY DEF HeldInv, Apart
<1>1. \A a \in acked : a.package \in Package /\ a.version \in Version /\ a.object \in Content
  BY DEF TypeInv, TypeOK
\* Publishers other than the one that moves.
<1>2. ASSUME NEW p \in Proc, Begin(p) \/ Step(p) \/ Fail(p), NEW q \in Proc, q # p,
             pc[q] \in {"addIndex", "commit"} =>
                /\ metadata'[Cur(q).package] = metadata[Cur(q).package]
                /\ staged'.metadata[Cur(q).package] = staged.metadata[Cur(q).package]
      PROVE  AddedOK(q)'
  BY <1>0, <1>2, OthersRest, AddedFrame
\* Steps that leave the repository and git alone.
<1>3. ASSUME NEW p \in Proc, Begin(p) \/ Step(p) \/ Fail(p),
             UNCHANGED <<metadata, git, acked>>, orphans \subseteq orphans',
             pc'[p] \notin {"addIndex", "commit"}
      PROVE  HeldInv'
  <2>1. \A q \in Proc : AddedOK(q)'
    BY <1>0, <1>2, <1>3, AddedFrame
  <2>2. \A a \in acked : Held(a)'
    BY <1>0, <1>3 DEF Held
  <2> QED
    BY <1>0, <1>3, <2>1, <2>2 DEF HeldInv
<1>4. ASSUME NEW p \in Proc,
             \/ Begin(p) \/ Check(p) \/ PutObject(p) \/ CreateObject(p) \/ CopyObject(p)
             \/ PutVersion(p)
      PROVE  HeldInv'
  BY <1>3, <1>4 DEF Begin, Check, PutObject, CreateObject, CopyObject, PutVersion, Step, Stop,
                    Goto, TypeInv, TypeOK
<1>5. ASSUME NEW p \in Proc, RenameObject(p) \/ CreateIndex(p) \/ Fail(p) PROVE HeldInv'
  BY <1>3, <1>5 DEF RenameObject, CreateIndex, Fail, Step, Stop, Goto, TypeInv, TypeOK
<1>6. ASSUME NEW p \in Proc, WriteLine(p) PROVE HeldInv'
  <2>1. metadata' = metadata
    BY <1>6, MetadataRests DEF Step, WriteLine, RenameIndex
  <2>2. UNCHANGED <<git, hist>> /\ pc'[p] \notin {"addIndex", "commit"}
    BY <1>6 DEF WriteLine, Goto, TypeInv, TypeOK
  <2> QED
    BY <1>3, <1>6, <2>1, <2>2 DEF Step
<1>7. ASSUME NEW p \in Proc, AddObject(p) PROVE HeldInv'
  <2>1. /\ pc[p] = "addObject" /\ staged' = [staged EXCEPT !.object[Cur(p).source] = object[Cur(p).source]]
        /\ pc' = [pc EXCEPT ![p] = "putVersion"]
        /\ UNCHANGED <<metadata, tracked, head, hist>>
    BY <1>7 DEF AddObject, Goto
  <2>2. Cur(p).source \in Content /\ object[Cur(p).source] # NoFile
    BY <2>1, CurType DEF TypeInv, StoredInv, AfterObject
  <2>3. /\ staged'.metadata = staged.metadata
        /\ \A c \in Content : staged.object[c] # NoFile => staged'.object[c] # NoFile
    BY <2>1, <2>2 DEF TypeInv, TypeOK, Tree
  <2>4. \A q \in Proc : AddedOK(q)'
    <3>1. AddedOK(p)'
      BY <2>1 DEF AddedOK, TypeInv, TypeOK
    <3> QED
      BY <1>2, <1>7, <2>1, <2>3, <3>1 DEF Step
  <2>5. \A a \in acked : Held(a)'
    BY <1>0, <2>1, <2>3 DEF Held
  <2> QED
    BY <1>0, <2>1, <2>3, <2>4, <2>5 DEF HeldInv
<1>8. ASSUME NEW p \in Proc, AddIndex(p) PROVE HeldInv'
  <2> DEFINE k == Cur(p).package
  <2>1. /\ pc[p] = "addIndex" /\ staged' = [staged EXCEPT !.metadata[k] = metadata[k]]
        /\ pc' = [pc EXCEPT ![p] = "commit"] /\ k \in Package
        /\ UNCHANGED <<metadata, tracked, head, todo, hist>>
    BY <1>8, CurType DEF AddIndex, Goto, TypeInv
  <2>2. /\ staged'.object = staged.object
        /\ \A j \in Package : staged'.metadata[j] = IF j = k THEN metadata[k] ELSE staged.metadata[j]
    BY <2>1 DEF TypeInv, TypeOK, Tree
  <2>3. AddedOK(p)'
    BY <1>0, <2>1, <2>2 DEF AddedOK, New, Cur
  <2>4. ASSUME NEW q \in Proc, q # p PROVE AddedOK(q)'
    <3>1. pc[q] \in {"addIndex", "commit"} => Cur(q).package \in Package \ {k}
      BY <1>0, <2>1, <2>4, CurType DEF PackageApart, Committing, TypeInv
    <3> QED
      BY <1>2, <1>8, <2>1, <2>2, <2>4, <3>1 DEF Step
  <2>5. \A a \in acked : Held(a)'
    BY <1>0, <1>1, <2>1, <2>2 DEF Held
  <2> HIDE DEF k
  <2> QED
    BY <1>0, <2>1, <2>2, <2>3, <2>4, <2>5 DEF HeldInv
<1>9. ASSUME NEW p \in Proc, Commit(p) PROVE HeldInv'
  <2>0. pc'[p] \notin {"addIndex", "commit"}
    BY <1>9 DEF Commit, Stop, Finish, Goto, TypeInv, TypeOK
  <2>1. CASE staged = head
    BY <1>3, <1>9, <2>0, <2>1 DEF Commit, Step
  <2>2. CASE staged # head
    <3>1. /\ pc[p] = "commit" /\ head' = staged /\ acked' = acked \cup {Publication(p)}
          /\ orphans' = {c \in orphans : staged.object[c] = NoFile}
          /\ UNCHANGED <<metadata, tracked, staged>>
      BY <1>9, <2>2 DEF Commit
    <3>2. \A q \in Proc : AddedOK(q)'
      BY <1>0, <1>2, <1>9, <2>0, <3>1, AddedFrame DEF Step
    <3>3. ASSUME NEW a \in acked PROVE Held(a)'
      <4>1. a.object \in Content /\ Held(a)
        BY <1>0, <1>1
      <4>2. head.object[a.object] = a.object => staged.object[a.object] = a.object
        BY <1>0, <4>1, FileAssumption DEF IntactInv
      <4>3. a.object \in orphans => staged.object[a.object] = a.object \/ a.object \in orphans'
        BY <3>1, <4>1 DEF IntactInv
      <4> QED
        BY <3>1, <4>1, <4>2, <4>3 DEF Held
    <3>4. ASSUME NEW a, a = Publication(p) PROVE Held(a)'
      <4> DEFINE c == Cur(p).source
      <4>1. c \in Content /\ object[c] # NoFile /\ tracked
        BY <3>1, CurType DEF TypeInv, StoredInv, AfterObject, CommitInv, InGit
      <4>2. ~Adding(c)
        BY <1>0, <3>1 DEF Adding, SourceApart
      <4>3. staged.object[c] = c \/ c \in orphans'
        BY <3>1, <4>1, <4>2 DEF CommitInv, IntactInv
      <4>4. a.package = Cur(p).package /\ a.object = c /\ Dep(a) = New(p)
        BY <3>4 DEF Publication, Dep, New
      <4> HIDE DEF c
      <4> QED
        BY <1>0, <3>1, <4>3, <4>4 DEF Held, AddedOK
    <3> QED
      BY <1>0, <3>1, <3>2, <3>3, <3>4 DEF HeldInv
  <2> QED
    BY <2>1, <2>2
<1>10. ASSUME NEW p \in Proc, RenameIndex(p) PROVE HeldInv'
  <2>0. PICK k \in Package : k = Cur(p).package
    BY <1>10, MetadataReplaced
  <2>1. /\ pc[p] = "renameIndex" /\ metadata' = [metadata EXCEPT ![k] = pending[p]]
        /\ IF tracked THEN UNCHANGED <<todo, force>> /\ pc'[p] = "addIndex"
                           /\ acked' = acked \ Replaced(p)
           ELSE Finish(p) /\ acked' = (acked \ Replaced(p)) \cup {Publication(p)}
        /\ UNCHANGED <<tracked, staged, head, orphans>>
    BY <1>10, <2>0, MetadataReplaced
  <2>2. /\ Lines(pending[p]) = {d \in Lines(metadata[k]) : d.version # Cur(p).version} \cup {New(p)}
        /\ (\E d \in Lines(metadata[k]) : d.version = Cur(p).version) => force[p]
    BY <2>0, <2>1 DEF IndexInv, Merging, Indexing, Writing
  <2>3. metadata'[k] = pending[p] /\ \A j \in Package \ {k} : metadata'[j] = metadata[j]
    BY <2>1 DEF TypeInv, TypeOK
  <2>4. New(p) \in Lines(metadata'[k])
    BY <2>2, <2>3
  <2>5. AddedOK(p)'
    <3>1. CASE tracked
      BY <2>0, <2>1, <2>4, <3>1 DEF AddedOK, New, Cur
    <3>2. CASE ~tracked
      <4>1. pc'[p] \notin {"addIndex", "commit"}
        BY <2>1, <3>2 DEF Finish, Goto, TypeInv, TypeOK
      <4> QED
        BY <4>1 DEF AddedOK
    <3> QED
      BY <3>1, <3>2
  <2>6. ASSUME NEW q \in Proc, q # p PROVE AddedOK(q)'
    <3>1. pc[q] \in {"addIndex", "commit"} => Cur(q).package \in Package \ {k}
      BY <1>0, <2>0, <2>1, <2>6, CurType DEF PackageApart, Committing, Indexing, Writing, TypeInv
    <3> QED
      BY <1>2, <1>10, <2>1, <2>3, <2>6, <3>1 DEF Step
  <2>7. ASSUME NEW a \in acked \ Replaced(p) PROVE Held(a)'
    <3>1. a.package \in Package /\ Held(a)
      BY <1>0, <1>1
    <3>2. CASE a.package # k
      BY <2>1, <2>3, <3>1, <3>2 DEF Held
    <3>3. CASE a.package = k
      <4>1. Dep(a) \in Lines(metadata[k])
        BY <3>1, <3>3 DEF Held
      <4>2. a.version # Cur(p).version
        BY <2>0, <2>2, <3>3, <4>1 DEF Replaced, Dep
      <4>3. Dep(a) \in Lines(metadata'[k])
        BY <2>2, <2>3, <4>1, <4>2 DEF Dep
      <4> QED
        BY <2>1, <3>1, <3>3, <4>3 DEF Held
    <3> QED
      BY <3>2, <3>3
  <2>8. ASSUME ~tracked, NEW a, a = Publication(p) PROVE Held(a)'
    <3>1. a.package = k /\ Dep(a) = New(p)
      BY <2>0, <2>8 DEF Publication, Dep, New
    <3> QED
      BY <2>1, <2>4, <2>8, <3>1 DEF Held
  <2>9. \A a \in acked' : Held(a)'
    BY <2>1, <2>7, <2>8
  <2> QED
    BY <1>0, <2>1, <2>5, <2>6, <2>9 DEF HeldInv
<1>11. CASE UNCHANGED vars
  BY <1>0, <1>11 DEF HeldInv, Held, AddedOK, New, vars, Cur
<1> QED
  BY <1>4, <1>5, <1>6, <1>7, <1>8, <1>9, <1>10, <1>11 DEF Next, Step, Done, vars

LEMMA ApartParts ==
    Apart => /\ PackageApart(Writing) /\ PackageApart(Indexing)
             /\ SourceApart(Storing)
BY DEF Apart, PackageApart, SourceApart, Committing, Indexing, Writing, Storing

(* What is known of publishers that work apart.                            *)
ApartInv ==
    TypeInv /\ StoredInv /\ CommitInv /\ OrderInv /\ IndexInv /\ IntactInv /\ HeldInv

LEMMA ApartInvariant ==
    ASSUME ~Edits
    PROVE  Spec /\ []Apart => []ApartInv
<1>1. Init => ApartInv
  BY TypeInit, StoredInit, CommitInit, OrderInit, IndexInit, IntactInit, HeldInit DEF ApartInv
<1>2. ApartInv /\ Apart /\ Apart' /\ [Next]_vars => ApartInv'
  <2> SUFFICES ASSUME ApartInv, Apart, Apart', [Next]_vars PROVE ApartInv'
    OBVIOUS
  <2>1. /\ PackageApart(Writing) /\ PackageApart(Indexing) /\ SourceApart(Storing)
        /\ PackageApart(Writing)' /\ SourceApart(Storing)'
    BY ApartParts DEF Apart, PackageApart, SourceApart, Committing, Indexing, Writing, Storing
  <2>2. TypeInv' /\ StoredInv' /\ CommitInv'
    BY TypeNext, OpenNext, StoredNext, CommitNext DEF ApartInv, TypeInv
  <2>3. OrderInv' /\ IndexInv' /\ IntactInv'
    BY <2>1, OrderNext, IndexNext, IntactNext DEF ApartInv
  <2>4. HeldInv'
    BY <2>3, HeldNext DEF ApartInv
  <2> QED
    BY <2>2, <2>3, <2>4 DEF ApartInv
<1> QED
  BY <1>1, <1>2, PTL DEF Spec

(* What publish reported as done can be resolved and is committed, until a *)
(* forced publication replaces it: provided that the publishers of one     *)
(* package exclude each other from reading metadata.json to the commit,    *)
(* and that nobody commits while another one writes or adds its object.    *)
THEOREM AckedApart ==
    ASSUME ~Edits
    PROVE  Spec /\ []Apart => []AckedHeld
<1>1. ApartInv => AckedHeld
  <2> SUFFICES ASSUME ApartInv, NEW a \in acked
               PROVE  /\ Dep(a) \in Published(a.package) /\ object[a.object] = a.object
                      /\ tracked => /\ Dep(a) \in Committed(a.package)
                                    /\ head.object[a.object] = a.object \/ a.object \in orphans
    BY DEF AckedHeld, Dep
  <2>1. /\ a.package \in Package /\ a.object \in Content /\ Dep(a) \in Deployment /\ Held(a)
        /\ Dep(a).object = a.object
    BY DEF ApartInv, TypeInv, TypeOK, HeldInv, Dep, Deployment
  <2>2. Dep(a) \in Published(a.package)
    BY <2>1, PublishedLines DEF Held, ApartInv
  <2>3. object[a.object] = a.object
    <3>1. object[Dep(a).object] # NoFile
      BY <2>1, LineAssumption DEF Held, Lines, Indices, ApartInv, StoredInv, AllStored
    <3> QED
      BY <2>1, <3>1 DEF ApartInv, IntactInv
  <2>4. tracked => Dep(a) \in Committed(a.package)
    BY <2>1, LineAssumption DEF Held, Committed, Lines
  <2> QED
    BY <2>1, <2>2, <2>3, <2>4 DEF Held
<1> QED
  BY <1>1, ApartInvariant, PTL

-----------------------------------------------------------------------------
(* The registry.  Storing an object is the renaming of its file, publishing *)
(* a version the renaming of metadata.json; no other step is visible.      *)

registry == [k \in Package |-> Published(k)]
store == {c \in Content : object[c] = c}

LEMMA RegistryInit == Init => R!Init
<1> SUFFICES ASSUME Init PROVE R!Init
  OBVIOUS
<1>1. \A k \in Package : Published(k) = {}
  BY DEF Init, Published, Deployments, Indices
<1>2. {c \in Content : object[c] = c} = {}
  BY FileAssumption DEF Init
<1> QED
  BY <1>1, <1>2 DEF R!Init

(* Only the renaming of its file makes an object appear.                   *)
LEMMA StoreNext ==
    ASSUME TypeInv, IntactInv, [Next]_vars
    PROVE  \/ store' = store
           \/ /\ \E c \in Content : store' = store \cup {c}
              /\ metadata' = metadata
<1>1. ASSUME NEW p \in Proc, RenameObject(p)
      PROVE  \/ store' = store
             \/ (\E c \in Content : store' = store \cup {c}) /\ metadata' = metadata
  <2>1. PICK c \in Content : c = Cur(p).source
    BY <1>1, CurType DEF RenameObject, TypeInv
  <2>2. objectTmp[c] = c
    BY <1>1, <2>1 DEF RenameObject, IntactInv, StorerOK
  <2>3. object' = [object EXCEPT ![c] = c] /\ metadata' = metadata
    BY <1>1, <2>1, <2>2, FileAssumption DEF RenameObject
  <2>4. store' = store \cup {c}
    BY <2>3 DEF store, TypeInv, TypeOK
  <2> QED
    BY <2>3, <2>4
<1>2. ASSUME NEW p \in Proc, CopyObject(p) PROVE object' = object
  BY <1>2 DEF CopyObject, IntactInv, StorerOK
<1>3. ASSUME NEW p \in Proc,
             \/ Begin(p) \/ Check(p) \/ PutObject(p) \/ CreateObject(p) \/ AddObject(p)
             \/ PutVersion(p) \/ CreateIndex(p) \/ WriteLine(p) \/ RenameIndex(p)
             \/ AddIndex(p) \/ Commit(p) \/ Fail(p)
      PROVE  object' = object
  BY <1>3 DEF Begin, Check, PutObject, CreateObject, AddObject, PutVersion, CreateIndex,
              WriteLine, RenameIndex, AddIndex, Commit, Fail, repo
<1>4. CASE UNCHANGED vars
  BY <1>4 DEF store, vars, repo
<1>5. object' = object => store' = store
  BY DEF store
<1> QED
  BY <1>1, <1>2, <1>3, <1>4, <1>5 DEF Next, Step, Done

LEMMA RegistryNext ==
    TypeInv /\ StoredInv /\ OrderInv /\ OrderInv' /\ IndexInv /\ IntactInv /\ [Next]_vars
       => [R!Next]_(R!vars)
<1> SUFFICES ASSUME TypeInv, StoredInv, OrderInv, OrderInv', IndexInv, IntactInv, [Next]_vars
             PROVE  R!Next \/ UNCHANGED R!vars
  OBVIOUS
<1>1. CASE \A k \in Package : Published(k)' = Published(k)
  <2>1. registry' = registry
    BY <1>1 DEF registry
  <2>2. CASE store' = store
    BY <2>1, <2>2 DEF R!vars, registry, store
  <2>3. CASE \E c \in Content : store' = store \cup {c}
    BY <2>1, <2>3 DEF R!Next, R!Store, registry, store
  <2> QED
    BY <2>2, <2>3, StoreNext
<1>2. ASSUME NEW p \in Proc, NEW k \in Package,
             RenameIndex(p), k = Cur(p).package,
             \A j \in Package \ {k} : Published(j)' = Published(j),
             Published(k)' = {d \in Published(k) : d.version # Cur(p).version} \cup {New(p)}
      PROVE  R!Next
  <2>1. PICK v \in Version, c \in Content : v = Cur(p).version /\ c = Cur(p).source
    BY <1>2, CurType DEF RenameIndex, TypeInv
  <2> DEFINE d == [version |-> v, object |-> c]
  <2>2. Published(k)' = {e \in Published(k) : e.version # v} \cup {d}
    BY <1>2, <2>1 DEF New
  <2>3. c \in store
    BY <1>2, <2>1 DEF RenameIndex, StoredInv, AfterObject, IntactInv, store
  <2>4. store' = store
    BY <1>2 DEF RenameIndex, store
  <2>5. registry' = [registry EXCEPT ![k] = {e \in @ : e.version # v} \cup {d}]
    BY <1>2, <2>2 DEF registry
  <2>6. R!Versions(k) = {e.version : e \in registry[k]}
    BY DEF R!Versions, registry
  <2>7. CASE v \in R!Versions(k)
    BY <2>3, <2>4, <2>5, <2>7 DEF R!Next, R!Replace, registry, store
  <2>8. CASE v \notin R!Versions(k)
    <3>1. {e \in registry[k] : e.version # v} = registry[k]
      BY <2>6, <2>8
    <3>2. registry' = [registry EXCEPT ![k] = @ \cup {d}]
      BY <2>5, <3>1
    <3> QED
      BY <2>3, <2>4, <2>8, <3>2 DEF R!Next, R!Publish, registry, store
  <2> QED
    BY <2>7, <2>8
<1> QED
  BY <1>1, <1>2, PublishedNext

(* Publishers that work apart implement the registry of everybody who      *)
(* resolves from the repository: objects first, then versions, each version *)
(* once, and none that disappears.  It needs no lock over git.             *)
THEOREM ImplementsRegistry ==
    ASSUME ~Edits
    PROVE  Spec /\ []PackageApart(Indexing) /\ []SourceApart(Storing) => RegistrySpec
<1>1. TypeInv /\ StoredInv /\ [Next]_vars => StoredInv'
  BY StoredNext
<1> QED
  BY <1>1, StoredInit, TypeAlways, ApartWeaker, OrderInit, OrderNext, IndexInit, IndexNext,
     IntactInit, IntactNext, RegistryInit, RegistryNext, PTL
     DEF Spec, RegistrySpec, R!Spec

(* Everything that is checked of publishers that work apart, for any number *)
(* of them.                                                                *)
THEOREM WorkingApart ==
    ASSUME ~Edits
    PROVE  ApartSpec => []Ordered /\ []Intact /\ []AckedHeld /\ OnlyForceReplaces /\ RegistrySpec
<1>1. Init => Apart
  BY DEF Init, Apart, PackageApart, SourceApart, Committing, Indexing, Writing, Storing
<1>2. [Next /\ Apart']_vars => [Next]_vars
  OBVIOUS
<1>3. Apart /\ [Next /\ Apart']_vars => Apart'
  BY DEF Apart, PackageApart, SourceApart, vars, proc, Cur
<1>4. ApartSpec => Spec /\ []Apart
  BY <1>1, <1>2, <1>3, PTL DEF ApartSpec, Spec
<1> QED
  BY <1>4, ApartParts, OrderedApart, IntactApart, AckedApart, ReplacedByForce,
     ImplementsRegistry, PTL
=============================================================================
