------------------------- MODULE RemoteObjectsProofs -------------------------
(***************************************************************************)
(* Proofs about the object server by itself and about the objects read     *)
(* through it and the cache in front of it, for any number of requests,    *)
(* clients, objects, faults and length of missing_cache_time.              *)
(***************************************************************************)
EXTENDS RemoteObjects, TLAPS

-----------------------------------------------------------------------------
(* The server by itself: it stores nothing but what it was told to, it     *)
(* keeps what it acknowledged, and it delivers what was asked for.         *)

(* What holds between the steps of an upload: the body has been compared   *)
(* with the checksum before the mutex is asked for, the temporary file is  *)
(* complete before it is renamed, and an object that was looked up is there *)
(* when its file is opened.                                                *)
InUpload(r) ==
    /\ at[r] \in Locked \cup {"lock"} => body[r] = id[r]
    /\ at[r] = "rename" => storedTmp[id[r]] = id[r]

InDownload(r) == at[r] = "open" => stored[id[r]] = id[r]

Answered(r) ==
    at[r] = "done" /\ reply[r] = "ok" => body[r] = id[r] /\ stored[id[r]] = id[r]

Inv ==
    /\ ServerTypeOK
    /\ StoreMatches
    /\ \A r \in Req : InUpload(r) /\ InDownload(r) /\ Answered(r)

(* The mutex at work: two uploads are never both inside it.                *)
LEMMA Exclusion ==
    ASSUME ServerTypeOK, NEW r \in Req, NEW s \in Req,
           at[r] \in Locked, at[s] \in Locked
    PROVE  r = s
BY DEF ServerTypeOK

LEMMA InitInv == ServerInit => Inv
BY ReqAssumption, ObjectAssumption, UploadsAssumption
   DEF ServerInit, Inv, ServerTypeOK, StoreMatches, InUpload, InDownload, Answered,
       File, Places, Locked, Status

LEMMA TypeStep == ServerTypeOK /\ [ServerNext]_serverVars => ServerTypeOK'
<1> USE ReqAssumption, UploadsAssumption DEF File, Places, Locked, Status, GoTo, Answer, files, request
<1> SUFFICES ASSUME ServerTypeOK, [ServerNext]_serverVars
             PROVE  ServerTypeOK'
  OBVIOUS
<1>1. ASSUME NEW r \in Req, NEW c \in Content, NEW parses \in BOOLEAN, Get(r, c, parses)
      PROVE  ServerTypeOK'
  BY <1>1 DEF ServerTypeOK, Get, Receive
<1>2. ASSUME NEW r \in Req, NEW c \in Content, NEW b \in Content, NEW h \in Headers,
             Put(r, c, b, h)
      PROVE  ServerTypeOK'
  <2>1. CASE h = "wellFormed"
    BY <1>2, <2>1 DEF ServerTypeOK, Put, Receive
  <2>2. CASE h \in {"badChecksum", "cutShort"}
    BY <1>2, <2>2 DEF ServerTypeOK, Put, Receive
  <2>3. CASE h \in {"noLength", "tooLarge"}
    BY <1>2, <2>3 DEF ServerTypeOK, Put, Receive
  <2> QED
    BY <2>1, <2>2, <2>3 DEF Headers
<1>3. ASSUME NEW r \in Req, Checksum(r) PROVE ServerTypeOK'
  BY <1>3 DEF ServerTypeOK, Checksum
<1>4. ASSUME NEW r \in Req, Lock(r) PROVE ServerTypeOK'
  BY <1>4 DEF ServerTypeOK, Lock
<1>5. ASSUME NEW r \in Req, Store(r) PROVE ServerTypeOK'
  BY <1>5 DEF ServerTypeOK, Store, Unlock
<1>6. ASSUME NEW r \in Req, Create(r) PROVE ServerTypeOK'
  BY <1>6 DEF ServerTypeOK, Create
<1>7. ASSUME NEW r \in Req, Copy(r) PROVE ServerTypeOK'
  BY <1>7 DEF ServerTypeOK, Copy
<1>8. ASSUME NEW r \in Req, Rename(r) PROVE ServerTypeOK'
  BY <1>8 DEF ServerTypeOK, Rename, Unlock
<1>9. ASSUME NEW r \in Req, StoreError(r) PROVE ServerTypeOK'
  BY <1>9 DEF ServerTypeOK, StoreError, Failing
<1>10. ASSUME NEW r \in Req, Lookup(r) PROVE ServerTypeOK'
  BY <1>10 DEF ServerTypeOK, Lookup
<1>11. ASSUME NEW r \in Req, Open(r) PROVE ServerTypeOK'
  BY <1>11 DEF ServerTypeOK, Open
<1>12. ASSUME NEW r \in Req, at[r] = "done", Finished(r),
              UNCHANGED <<files, lock, id, uploads>>
       PROVE ServerTypeOK'
  BY <1>12 DEF ServerTypeOK, Finished
<1>13. CASE Restart
  BY <1>13 DEF ServerTypeOK, Restart, Unlock
<1>14. CASE UNCHANGED serverVars
  BY <1>14 DEF ServerTypeOK, serverVars
<1> QED
  BY <1>1, <1>2, <1>3, <1>4, <1>5, <1>6, <1>7, <1>8, <1>9, <1>10, <1>11, <1>12, <1>13,
     <1>14 DEF ServerNext, Handler

LEMMA Step == Inv /\ [ServerNext]_serverVars => Inv'
<1> USE ReqAssumption, ObjectAssumption DEF Inv, GoTo, Answer, files, request
<1> SUFFICES ASSUME Inv, [ServerNext]_serverVars
             PROVE  Inv'
  OBVIOUS
<1>0. ServerTypeOK /\ ServerTypeOK'
  BY TypeStep
<1> USE <1>0 DEF StoreMatches, InUpload, InDownload, Answered
<1>1. ASSUME NEW r \in Req, NEW c \in Content, NEW parses \in BOOLEAN, Get(r, c, parses)
      PROVE  Inv'
  BY <1>1 DEF Get, Receive, Locked, ServerTypeOK
<1>2. ASSUME NEW r \in Req, NEW c \in Content, NEW b \in Content, NEW h \in Headers,
             Put(r, c, b, h)
      PROVE  Inv'
  <2>1. CASE h = "wellFormed"
    BY <1>2, <2>1 DEF Put, Receive, Locked, ServerTypeOK
  <2>2. CASE h \in {"badChecksum", "cutShort"}
    BY <1>2, <2>2 DEF Put, Receive, Locked, ServerTypeOK
  <2>3. CASE h \in {"noLength", "tooLarge"}
    BY <1>2, <2>3 DEF Put, Receive, Locked, ServerTypeOK
  <2> QED
    BY <2>1, <2>2, <2>3 DEF Headers
<1>3. ASSUME NEW r \in Req, Checksum(r) PROVE Inv'
  BY <1>3 DEF Checksum, Locked, ServerTypeOK
<1>4. ASSUME NEW r \in Req, Lock(r) PROVE Inv'
  BY <1>4 DEF Lock, Locked, ServerTypeOK
<1>5. ASSUME NEW r \in Req, Store(r) PROVE Inv'
  BY <1>5 DEF Store, Unlock, Locked, ServerTypeOK
<1>6. ASSUME NEW r \in Req, Create(r) PROVE Inv'
  <2>1. \A s \in Req : s # r => at[s] \notin Locked
    BY <1>6, Exclusion DEF Create, Locked
  <2> QED
    BY <1>6, <2>1 DEF Create, Locked, ServerTypeOK
<1>7. ASSUME NEW r \in Req, Copy(r) PROVE Inv'
  <2>1. \A s \in Req : s # r => at[s] \notin Locked
    BY <1>7, Exclusion DEF Copy, Locked
  <2> QED
    BY <1>7, <2>1 DEF Copy, Locked, ServerTypeOK
<1>8. ASSUME NEW r \in Req, Rename(r) PROVE Inv'
  <2>1. \A s \in Req : s # r => at[s] \notin Locked
    BY <1>8, Exclusion DEF Rename, Locked
  <2>2. stored' = [stored EXCEPT ![id[r]] = id[r]]
    BY <1>8 DEF Rename
  <2> QED
    BY <1>8, <2>1, <2>2 DEF Rename, Locked, ServerTypeOK
<1>9. ASSUME NEW r \in Req, StoreError(r) PROVE Inv'
  BY <1>9 DEF StoreError, Failing, Locked, ServerTypeOK
<1>10. ASSUME NEW r \in Req, Lookup(r) PROVE Inv'
  BY <1>10 DEF Lookup, Locked, ServerTypeOK
<1>11. ASSUME NEW r \in Req, Open(r) PROVE Inv'
  BY <1>11 DEF Open, Locked, ServerTypeOK
<1>12. ASSUME NEW r \in Req, at[r] = "done", Finished(r),
              UNCHANGED <<files, lock, id, uploads>>
       PROVE Inv'
  BY <1>12 DEF Finished, Locked, ServerTypeOK
<1>13. CASE Restart
  BY <1>13 DEF Restart, Unlock, Locked, ServerTypeOK
<1>14. CASE UNCHANGED serverVars
  BY <1>14 DEF serverVars
<1> QED
  BY <1>1, <1>2, <1>3, <1>4, <1>5, <1>6, <1>7, <1>8, <1>9, <1>10, <1>11, <1>12, <1>13,
     <1>14 DEF ServerNext, Handler

LEMMA AlwaysInv == ServerSpec => []Inv
BY InitInv, Step, PTL DEF ServerSpec

(* The mutex of reproto_service.rs is held exactly by the handler between   *)
(* locking it and answering, however many requests there are.               *)
THEOREM MutexHeld == ServerSpec => []ServerTypeOK
<1>1. Inv => ServerTypeOK
  BY DEF Inv
<1> QED
  BY <1>1, AlwaysInv, PTL

(* Nothing becomes visible under a checksum but the object that has it:      *)
(* the temporary file a handler renames is the one it wrote.                 *)
THEOREM OnlyMatching == ServerSpec => []StoreMatches
<1>1. Inv => StoreMatches
  BY DEF Inv
<1> QED
  BY <1>1, AlwaysInv, PTL

(* A successful download delivers the object asked for.                      *)
THEOREM Delivered == ServerSpec => []DownloadMatches
<1>1. Inv => DownloadMatches
  BY DEF Inv, DownloadMatches, Answered
<1> QED
  BY <1>1, AlwaysInv, PTL

(* A successful upload is in the store, and stays there while it is answered. *)
THEOREM Acknowledged == ServerSpec => []UploadStored
<1>1. Inv => UploadStored
  BY DEF Inv, UploadStored, Answered
<1> QED
  BY <1>1, AlwaysInv, PTL

(* A handler renames only over a name that was free, or over the same object. *)
LEMMA StoredStays ==
    ASSUME Inv, [ServerNext]_serverVars, NEW c \in Content, stored[c] # NoFile
    PROVE  stored'[c] = stored[c]
<1>1. stored' = stored \/ \E r \in Req : Rename(r)
  BY DEF ServerNext, Handler, Get, Put, Checksum, Lock, Store, Create, Copy,
         StoreError, Lookup, Open, Restart, files, serverVars
<1>2. ASSUME NEW r \in Req, Rename(r) PROVE stored'[c] = stored[c]
  BY <1>2 DEF Inv, Rename, InUpload, StoreMatches, ServerTypeOK
<1> QED
  BY <1>1, <1>2

(* Objects are written once: no step takes a stored object away.             *)
THEOREM ForGood == ServerSpec => StoredForGood
<1>1. Inv /\ [ServerNext]_serverVars
      => [\A c \in Content : stored[c] # NoFile => stored'[c] = stored[c]]_serverVars
  BY StoredStays
<1> QED
  BY <1>1, AlwaysInv, PTL DEF ServerSpec, StoredForGood

-----------------------------------------------------------------------------
(* The server behind the cache: what it keeps for itself it keeps there    *)
(* too, for in front of it clients only send requests and take answers.    *)

WantOK == want \in [Req -> Content]

LEMMA WantStep == WantOK /\ [Next]_vars => WantOK'
BY DEF WantOK, Next, Proceed, GetObject, PutObject, Call, Read, CheckMissing, RemoveMissing,
       Request, GetAnswered, CreateCached, CopyCached, CreateMissing, PutAnswered, Abandoned,
       ServerSide, Fail, Tick, SetBack, vars, client, local

LEMMA ServerSteps == WantOK /\ [Next]_vars => [ServerNext]_serverVars
<1> SUFFICES ASSUME WantOK, [Next]_vars
             PROVE  [ServerNext]_serverVars
  OBVIOUS
<1> USE DEF ServerNext
<1>1. ASSUME NEW p \in Req, NEW c \in Content, GetObject(p, c)
      PROVE  [ServerNext]_serverVars
  BY <1>1 DEF GetObject
<1>2. ASSUME NEW p \in Req, NEW c \in Content, NEW b \in Content,
             NEW h \in {"wellFormed", "tooLarge"}, PutObject(p, c, b, h)
      PROVE  [ServerNext]_serverVars
  BY <1>2 DEF PutObject, Headers
<1>3. ASSUME NEW p \in Req, Proceed(p)
      PROVE  [ServerNext]_serverVars
  <2>1. CASE Read(p) \/ CheckMissing(p) \/ RemoveMissing(p) \/ CreateCached(p) \/ CopyCached(p)
             \/ CreateMissing(p)
    BY <2>1 DEF Read, CheckMissing, RemoveMissing, CreateCached, CopyCached, CreateMissing
  <2>2. CASE Request(p)
    BY <2>2 DEF Request, WantOK
  <2>3. CASE GetAnswered(p) \/ PutAnswered(p) \/ Abandoned(p)
    BY <2>3 DEF GetAnswered, PutAnswered, Abandoned
  <2> QED
    BY <1>3, <2>1, <2>2, <2>3 DEF Proceed
<1>4. ASSUME NEW p \in Req, ServerSide(p)
      PROVE  [ServerNext]_serverVars
  BY <1>4 DEF ServerSide
<1>5. ASSUME NEW p \in Req, Fail(p)
      PROVE  [ServerNext]_serverVars
  BY <1>5 DEF Fail
<1>6. CASE Tick \/ SetBack
  BY <1>6 DEF Tick, SetBack
<1>7. CASE Restart \/ \E p \in Req : StoreError(p)
  BY <1>7
<1>8. CASE UNCHANGED vars
  BY <1>8 DEF vars
<1> QED
  BY <1>1, <1>2, <1>3, <1>4, <1>5, <1>6, <1>7, <1>8 DEF Next

(* What clients do with the answers leaves the server's promises alone.      *)
THEOREM BehindTheCache == Spec => ServerSpec
<1>1. Init => WantOK /\ ServerInit
  BY DEF Init, ServerInit, WantOK
<1> QED
  BY <1>1, WantStep, ServerSteps, PTL DEF Spec, ServerSpec

-----------------------------------------------------------------------------
(* The clients.  One that waits for an answer has not been forgotten, one    *)
(* that has got the object asked for keeps it until it is in the cache, and  *)
(* one about to read a cached object will find some file.                    *)
Serving(p) ==
    /\ pc[p] \in {"wait", "waitPut"} => at[p] # "free" /\ id[p] = want[p]
    /\ pc[p] \in {"create", "copy"} => data[p] = want[p]
    /\ pc[p] = "read" => cache[want[p]] # NoFile
    /\ pc[p] # "idle" => answer[p] = "none"

ClientTypeOK ==
    /\ cache \in [Content -> File]
    /\ pc \in [Req -> {"idle", "read", "checkMissing", "removeMissing", "request", "wait",
                       "create", "copy", "createMissing", "waitPut"}]
    /\ data \in [Req -> File]
    /\ answer \in [Req -> {"none", "found", "missing", "updated", "error"}]

RemoteInv ==
    /\ WantOK /\ ClientTypeOK
    /\ \A p \in Req : Serving(p)
    /\ CacheAccounted
    /\ PutStored

LEMMA RemoteInitial == Init => RemoteInv
BY ObjectAssumption
   DEF Init, ServerInit, RemoteInv, WantOK, ClientTypeOK, Serving, CacheAccounted, PutStored, File

(* The server moves requests along, and takes none of them back. *)
LEMMA ServerMoves ==
    ASSUME ServerTypeOK, Restart \/ \E r \in Req : Handler(r) \/ StoreError(r)
    PROVE  id' = id /\ \A r \in Req : at[r] # "free" => at'[r] # "free"
BY DEF ServerTypeOK, Handler, StoreError, Restart, Checksum, Lock, Store, Create, Copy, Rename,
       Lookup, Open, GoTo, Answer, request, files

LEMMA RemoteStep == Inv /\ Inv' /\ RemoteInv /\ [Next]_vars => RemoteInv'
<1> SUFFICES ASSUME Inv, Inv', RemoteInv, [Next]_vars
             PROVE  RemoteInv'
  OBVIOUS
<1> USE ObjectAssumption DEF RemoteInv
<1>0. WantOK'
  BY WantStep
<1>1. ASSUME NEW p \in Req, NEW c \in Content, GetObject(p, c)
     PROVE  RemoteInv'
  <2> USE <1>1 DEF GetObject, Call, To, serverVars, request, files, local, client
  <2>1. ClientTypeOK'
    BY DEF ClientTypeOK, WantOK, Inv, ServerTypeOK, File
  <2>2. \A q \in Req : Serving(q)'
    BY DEF ClientTypeOK, WantOK, Serving, Inv, ServerTypeOK, Answered, File
  <2>3. CacheAccounted'
    BY DEF ClientTypeOK, WantOK, Serving, CacheAccounted, Copying
  <2>4. PutStored'
    BY DEF ClientTypeOK, WantOK, Serving, PutStored, Inv, ServerTypeOK, Answered
  <2> QED
    BY <1>0, <2>1, <2>2, <2>3, <2>4
<1>2. ASSUME NEW p \in Req, NEW c \in Content, NEW b \in Content,
             NEW h \in {"wellFormed", "tooLarge"}, PutObject(p, c, b, h)
     PROVE  RemoteInv'
  <2> USE <1>2 DEF PutObject, Call, To, Put, Receive, GoTo, Answer, serverVars, request, files, local, client
  <2>1. ClientTypeOK'
    BY DEF ClientTypeOK, WantOK, Inv, ServerTypeOK, File
  <2>2. \A q \in Req : Serving(q)'
    BY DEF ClientTypeOK, WantOK, Serving, Inv, ServerTypeOK, Answered, File
  <2>3. CacheAccounted'
    BY DEF ClientTypeOK, WantOK, Serving, CacheAccounted, Copying
  <2>4. PutStored'
    BY DEF ClientTypeOK, WantOK, Serving, PutStored, Inv, ServerTypeOK, Answered
  <2> QED
    BY <1>0, <2>1, <2>2, <2>3, <2>4
<1>3. ASSUME NEW p \in Req, Read(p)
     PROVE  RemoteInv'
  <2> USE <1>3 DEF Read, Return, To, serverVars, request, files, local, client
  <2>1. ClientTypeOK'
    BY DEF ClientTypeOK, WantOK, Inv, ServerTypeOK, File
  <2>2. \A q \in Req : Serving(q)'
    BY DEF ClientTypeOK, WantOK, Serving, Inv, ServerTypeOK, Answered, File
  <2>3. CacheAccounted'
    BY DEF ClientTypeOK, WantOK, Serving, CacheAccounted, Copying
  <2>4. PutStored'
    BY DEF ClientTypeOK, WantOK, Serving, PutStored, Inv, ServerTypeOK, Answered
  <2> QED
    BY <1>0, <2>1, <2>2, <2>3, <2>4
<1>4. ASSUME NEW p \in Req, CheckMissing(p)
     PROVE  RemoteInv'
  <2> USE <1>4 DEF CheckMissing, Return, To, serverVars, request, files, local, client
  <2>1. ClientTypeOK'
    BY DEF ClientTypeOK, WantOK, Inv, ServerTypeOK, File
  <2>2. \A q \in Req : Serving(q)'
    BY DEF ClientTypeOK, WantOK, Serving, Inv, ServerTypeOK, Answered, File
  <2>3. CacheAccounted'
    BY DEF ClientTypeOK, WantOK, Serving, CacheAccounted, Copying
  <2>4. PutStored'
    BY DEF ClientTypeOK, WantOK, Serving, PutStored, Inv, ServerTypeOK, Answered
  <2> QED
    BY <1>0, <2>1, <2>2, <2>3, <2>4
<1>5. ASSUME NEW p \in Req, RemoveMissing(p)
     PROVE  RemoteInv'
  <2> USE <1>5 DEF RemoveMissing, Return, To, serverVars, request, files, local, client
  <2>1. ClientTypeOK'
    BY DEF ClientTypeOK, WantOK, Inv, ServerTypeOK, File
  <2>2. \A q \in Req : Serving(q)'
    BY DEF ClientTypeOK, WantOK, Serving, Inv, ServerTypeOK, Answered, File
  <2>3. CacheAccounted'
    BY DEF ClientTypeOK, WantOK, Serving, CacheAccounted, Copying
  <2>4. PutStored'
    BY DEF ClientTypeOK, WantOK, Serving, PutStored, Inv, ServerTypeOK, Answered
  <2> QED
    BY <1>0, <2>1, <2>2, <2>3, <2>4
<1>6. ASSUME NEW p \in Req, Request(p)
     PROVE  RemoteInv'
  <2> USE <1>6 DEF Request, To, Get, Receive, GoTo, Answer, serverVars, request, files, local, client
  <2>1. ClientTypeOK'
    BY DEF ClientTypeOK, WantOK, Inv, ServerTypeOK, File
  <2>2. \A q \in Req : Serving(q)'
    BY DEF ClientTypeOK, WantOK, Serving, Inv, ServerTypeOK, Answered, File
  <2>3. CacheAccounted'
    BY DEF ClientTypeOK, WantOK, Serving, CacheAccounted, Copying
  <2>4. PutStored'
    BY DEF ClientTypeOK, WantOK, Serving, PutStored, Inv, ServerTypeOK, Answered
  <2> QED
    BY <1>0, <2>1, <2>2, <2>3, <2>4
<1>7. ASSUME NEW p \in Req, GetAnswered(p)
     PROVE  RemoteInv'
  <2> USE <1>7 DEF GetAnswered, Finished, GoTo, Return, To, serverVars, request, files, local, client
  <2>1. ClientTypeOK'
    BY DEF ClientTypeOK, WantOK, Inv, ServerTypeOK, File
  <2>2. \A q \in Req : Serving(q)'
    BY DEF ClientTypeOK, WantOK, Serving, Inv, ServerTypeOK, Answered, File
  <2>3. CacheAccounted'
    BY DEF ClientTypeOK, WantOK, Serving, CacheAccounted, Copying
  <2>4. PutStored'
    BY DEF ClientTypeOK, WantOK, Serving, PutStored, Inv, ServerTypeOK, Answered
  <2> QED
    BY <1>0, <2>1, <2>2, <2>3, <2>4
<1>8. ASSUME NEW p \in Req, CreateCached(p)
     PROVE  RemoteInv'
  <2> USE <1>8 DEF CreateCached, To, serverVars, request, files, local, client
  <2>1. ClientTypeOK'
    BY DEF ClientTypeOK, WantOK, Inv, ServerTypeOK, File
  <2>2. \A q \in Req : Serving(q)'
    BY DEF ClientTypeOK, WantOK, Serving, Inv, ServerTypeOK, Answered, File
  <2>3. CacheAccounted'
    BY DEF ClientTypeOK, WantOK, Serving, CacheAccounted, Copying
  <2>4. PutStored'
    BY DEF ClientTypeOK, WantOK, Serving, PutStored, Inv, ServerTypeOK, Answered
  <2> QED
    BY <1>0, <2>1, <2>2, <2>3, <2>4
<1>9. ASSUME NEW p \in Req, CopyCached(p)
     PROVE  RemoteInv'
  <2> USE <1>9 DEF CopyCached, Return, To, serverVars, request, files, local, client
  <2>1. ClientTypeOK'
    BY DEF ClientTypeOK, WantOK, Inv, ServerTypeOK, File
  <2>2. \A q \in Req : Serving(q)'
    BY DEF ClientTypeOK, WantOK, Serving, Inv, ServerTypeOK, Answered, File
  <2>3. CacheAccounted'
    BY DEF ClientTypeOK, WantOK, Serving, CacheAccounted, Copying
  <2>4. PutStored'
    BY DEF ClientTypeOK, WantOK, Serving, PutStored, Inv, ServerTypeOK, Answered
  <2> QED
    BY <1>0, <2>1, <2>2, <2>3, <2>4
<1>10. ASSUME NEW p \in Req, CreateMissing(p)
     PROVE  RemoteInv'
  <2> USE <1>10 DEF CreateMissing, Return, To, serverVars, request, files, local, client
  <2>1. ClientTypeOK'
    BY DEF ClientTypeOK, WantOK, Inv, ServerTypeOK, File
  <2>2. \A q \in Req : Serving(q)'
    BY DEF ClientTypeOK, WantOK, Serving, Inv, ServerTypeOK, Answered, File
  <2>3. CacheAccounted'
    BY DEF ClientTypeOK, WantOK, Serving, CacheAccounted, Copying
  <2>4. PutStored'
    BY DEF ClientTypeOK, WantOK, Serving, PutStored, Inv, ServerTypeOK, Answered
  <2> QED
    BY <1>0, <2>1, <2>2, <2>3, <2>4
<1>11. ASSUME NEW p \in Req, PutAnswered(p)
     PROVE  RemoteInv'
  <2> USE <1>11 DEF PutAnswered, Finished, GoTo, Return, To, serverVars, request, files, local, client
  <2>1. ClientTypeOK'
    BY DEF ClientTypeOK, WantOK, Inv, ServerTypeOK, File
  <2>2. \A q \in Req : Serving(q)'
    BY DEF ClientTypeOK, WantOK, Serving, Inv, ServerTypeOK, Answered, File
  <2>3. CacheAccounted'
    BY DEF ClientTypeOK, WantOK, Serving, CacheAccounted, Copying
  <2>4. PutStored'
    BY DEF ClientTypeOK, WantOK, Serving, PutStored, Inv, ServerTypeOK, Answered
  <2> QED
    BY <1>0, <2>1, <2>2, <2>3, <2>4
<1>12. ASSUME NEW p \in Req, Abandoned(p)
     PROVE  RemoteInv'
  <2> USE <1>12 DEF Abandoned, Finished, GoTo, serverVars, request, files, local, client
  <2>1. ClientTypeOK'
    BY DEF ClientTypeOK, WantOK, Inv, ServerTypeOK, File
  <2>2. \A q \in Req : Serving(q)'
    BY DEF ClientTypeOK, WantOK, Serving, Inv, ServerTypeOK, Answered, File
  <2>3. CacheAccounted'
    BY DEF ClientTypeOK, WantOK, Serving, CacheAccounted, Copying
  <2>4. PutStored'
    BY DEF ClientTypeOK, WantOK, Serving, PutStored, Inv, ServerTypeOK, Answered
  <2> QED
    BY <1>0, <2>1, <2>2, <2>3, <2>4
<1>13. ASSUME NEW p \in Req, Fail(p)
     PROVE  RemoteInv'
  <2> USE <1>13 DEF Fail, Return, To, serverVars, request, files, local, client
  <2>1. ClientTypeOK'
    BY DEF ClientTypeOK, WantOK, Inv, ServerTypeOK, File
  <2>2. \A q \in Req : Serving(q)'
    BY DEF ClientTypeOK, WantOK, Serving, Inv, ServerTypeOK, Answered, File
  <2>3. CacheAccounted'
    BY DEF ClientTypeOK, WantOK, Serving, CacheAccounted, Copying
  <2>4. PutStored'
    BY DEF ClientTypeOK, WantOK, Serving, PutStored, Inv, ServerTypeOK, Answered
  <2> QED
    BY <1>0, <2>1, <2>2, <2>3, <2>4
<1>14. CASE Tick \/ SetBack
  <2> USE <1>14 DEF Tick, SetBack, serverVars, request, files, local, client
  <2>1. ClientTypeOK'
    BY DEF ClientTypeOK, WantOK, Inv, ServerTypeOK, File
  <2>2. \A q \in Req : Serving(q)'
    BY DEF ClientTypeOK, WantOK, Serving, Inv, ServerTypeOK, Answered, File
  <2>3. CacheAccounted'
    BY DEF ClientTypeOK, WantOK, Serving, CacheAccounted, Copying
  <2>4. PutStored'
    BY DEF ClientTypeOK, WantOK, Serving, PutStored, Inv, ServerTypeOK, Answered
  <2> QED
    BY <1>0, <2>1, <2>2, <2>3, <2>4
<1>15. CASE UNCHANGED vars
  <2> USE <1>15 DEF vars, serverVars, request, files, local, client
  <2>1. ClientTypeOK'
    BY DEF ClientTypeOK, WantOK, Inv, ServerTypeOK, File
  <2>2. \A q \in Req : Serving(q)'
    BY DEF ClientTypeOK, WantOK, Serving, Inv, ServerTypeOK, Answered, File
  <2>3. CacheAccounted'
    BY DEF ClientTypeOK, WantOK, Serving, CacheAccounted, Copying
  <2>4. PutStored'
    BY DEF ClientTypeOK, WantOK, Serving, PutStored, Inv, ServerTypeOK, Answered
  <2> QED
    BY <1>0, <2>1, <2>2, <2>3, <2>4
<1>16. CASE /\ Restart \/ \E r \in Req : Handler(r) \/ StoreError(r)
        /\ UNCHANGED <<local, pc, client, torn>>
  <2>1. id' = id /\ \A r \in Req : at[r] # "free" => at'[r] # "free"
    BY <1>16, ServerMoves DEF Inv
  <2>2. \A c \in Content : stored[c] = c => stored'[c] = c
    BY StoredStays, ServerSteps
  <2> QED
    BY <1>0, <1>16, <2>1, <2>2 DEF ClientTypeOK, WantOK, Serving, CacheAccounted, Copying,
       PutStored, local, client
<1> QED
  BY <1>1, <1>2, <1>3, <1>4, <1>5, <1>6, <1>7, <1>8, <1>9, <1>10, <1>11, <1>12, <1>13, <1>14, <1>15, <1>16 DEF Next, Proceed, ServerSide

LEMMA AlwaysRemoteInv == Spec => [](Inv /\ RemoteInv)
<1>1. Init => Inv /\ RemoteInv
  BY InitInv, RemoteInitial DEF Init
<1>2. Inv /\ RemoteInv /\ [Next]_vars => Inv' /\ RemoteInv'
  <2> SUFFICES ASSUME Inv, RemoteInv, [Next]_vars
               PROVE  Inv' /\ RemoteInv'
    OBVIOUS
  <2>1. Inv'
    BY ServerSteps, Step DEF RemoteInv
  <2> QED
    BY <2>1, RemoteStep
<1> QED
  BY <1>1, <1>2, PTL DEF Spec

(* CacheAccounted, of every behaviour: the cache that clients share without a *)
(* lock has objects under their own names, or a file that is being copied or  *)
(* was cut short.                                                             *)
THEOREM CacheTrue == Spec => []CacheAccounted
<1>1. RemoteInv => CacheAccounted
  BY DEF RemoteInv
<1> QED
  BY <1>1, AlwaysRemoteInv, PTL

(* PutStored, of every behaviour: what put_object reported as stored stays.   *)
THEOREM PutKept == Spec => []PutStored
<1>1. RemoteInv => PutStored
  BY DEF RemoteInv
<1> QED
  BY <1>1, AlwaysRemoteInv, PTL

-----------------------------------------------------------------------------
(* A client with the cache for itself. *)
Alone == \A p, q \in Req : p = q

LEMMA ServedStep ==
    ASSUME Alone, Inv, RemoteInv, ServedWhole, [Next]_vars
    PROVE  ServedWhole'
<1> USE DEF RemoteInv, ServedWhole
<1>1. ASSUME NEW p \in Req, Read(p)
      PROVE  ServedWhole'
  <2>1. \A q \in Req : pc[q] # "copy"
    BY <1>1 DEF Alone, Read
  <2>2. want[p] \notin torn => cache[want[p]] = want[p]
    BY <1>1, <2>1 DEF CacheAccounted, Copying, Read, Serving, WantOK
  <2> QED
    BY <1>1, <2>2 DEF Read, Return, To, ClientTypeOK, WantOK
<1>2. ASSUME NEW p \in Req, CopyCached(p)
      PROVE  ServedWhole'
  BY <1>2 DEF CopyCached, Return, To, ClientTypeOK, Serving
<1>3. ASSUME NEW p \in Req,
             (\E c \in Content : GetObject(p, c))
                \/ \E c, b \in Content, h \in {"wellFormed", "tooLarge"} : PutObject(p, c, b, h)
      PROVE  ServedWhole'
  BY <1>3 DEF GetObject, PutObject, Call, ClientTypeOK, WantOK
<1>4. ASSUME NEW p \in Req,
             CheckMissing(p) \/ RemoveMissing(p) \/ CreateMissing(p) \/ CreateCached(p)
                \/ Request(p) \/ PutAnswered(p) \/ Abandoned(p)
      PROVE  ServedWhole'
  BY <1>4 DEF CheckMissing, RemoveMissing, CreateMissing, CreateCached, Request, PutAnswered,
              Abandoned, Return, client, ClientTypeOK
<1>5. ASSUME NEW p \in Req, GetAnswered(p)
      PROVE  ServedWhole'
  <2>1. answer[p] # "found"
    BY <1>5 DEF GetAnswered, Serving
  <2> QED
    BY <1>5, <2>1 DEF GetAnswered, Return, ClientTypeOK
<1>6. ASSUME NEW p \in Req, Fail(p)
      PROVE  ServedWhole'
  BY <1>6 DEF Fail, Return, ClientTypeOK
<1>7. CASE UNCHANGED <<client, torn>>
  BY <1>7 DEF client
<1> QED
  BY <1>1, <1>2, <1>3, <1>4, <1>5, <1>6, <1>7
     DEF Next, Proceed, ServerSide, Tick, SetBack, vars

(* ServedWhole, of every behaviour of one client: through the store, the      *)
(* answer, the cache and restarts, it is given what it asked for, but for     *)
(* cache files it was killed over.                                            *)
THEOREM Served == Alone /\ Spec => []ServedWhole
<1>1. Init => ServedWhole
  BY DEF Init, ServedWhole
<1>2. Alone /\ Inv /\ RemoteInv /\ ServedWhole /\ [Next]_vars => ServedWhole'
  BY ServedStep
<1>3. ASSUME Alone
      PROVE  Spec => []ServedWhole
  <2>1. Inv /\ RemoteInv /\ ServedWhole /\ [Next]_vars => ServedWhole'
    BY <1>2, <1>3
  <2> QED
    BY <1>1, <2>1, AlwaysRemoteInv, PTL DEF Spec
<1> QED
  BY <1>3
=============================================================================
