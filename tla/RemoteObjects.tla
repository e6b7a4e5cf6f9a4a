---------------------------- MODULE RemoteObjects ----------------------------
(***************************************************************************)
(* Objects behind HTTP: CachedObjects over HttpObjects in the client       *)
(* (lib/repository, lib/repository-http), the server of ObjectServer at    *)
(* the other end.  The cache is a directory that outlives the processes    *)
(* and that those of one user share: a file per object that was found, and *)
(* a marker per object that was not, whose age decides for how long it     *)
(* stands in for a request.  Nothing locks the directory, and files are    *)
(* written in place.                                                       *)
(*                                                                         *)
(* A client blocks on its request, so a client is the request it has in    *)
(* flight; a client that dies leaves the request behind.                   *)
(***************************************************************************)
EXTENDS ObjectServer, Integers

CONSTANTS
    MissingTime, \* ticks for which a marker stands for an absent object
    MaxFaults    \* bound: failures of clients, restarts, clocks set back

ASSUME BoundAssumption == MissingTime \in Nat /\ MaxFaults \in Nat

VARIABLES
    cache,   \* the cached objects
    marker,  \* the age of each marker, NoFile when there is none, -1 when
             \*   its time lies in the future
    pc,      \* where each client is
    want,    \* the object it is about
    data,    \* the data it got
    answer,  \* the result of its last call
    torn,    \* history: objects whose caching was cut short
    faults

local == <<cache, marker>>
client == <<want, data, answer>>
vars == <<serverVars, local, pc, client, torn, faults>>

Init ==
    /\ ServerInit
    /\ cache = [c \in Content |-> NoFile]
    /\ marker = [c \in Content |-> NoFile]
    /\ pc = [p \in Req |-> "idle"]
    /\ want = id
    /\ data = [p \in Req |-> NoFile]
    /\ answer = [p \in Req |-> "none"]
    /\ torn = {}
    /\ faults = 0

To(p, label) == pc' = [pc EXCEPT ![p] = label]
Return(p, result) ==
    /\ To(p, "idle")
    /\ answer' = [answer EXCEPT ![p] = result]
Fault == faults < MaxFaults /\ faults' = faults + 1

Call(p, c) ==
    /\ pc[p] = "idle"
    /\ want' = [want EXCEPT ![p] = c]
    /\ data' = [data EXCEPT ![p] = NoFile]
    /\ answer' = [answer EXCEPT ![p] = "none"]

(* CachedObjects::get_object: a cached file is returned as a path. *)
GetObject(p, c) ==
    /\ Call(p, c)
    /\ To(p, IF cache[c] # NoFile THEN "read" ELSE "checkMissing")
    /\ UNCHANGED <<serverVars, local, torn, faults>>

(* Who asked for the object opens the path later. *)
Read(p) ==
    /\ pc[p] = "read"
    /\ data' = [data EXCEPT ![p] = cache[want[p]]]
    /\ Return(p, "found")
    /\ UNCHANGED <<serverVars, local, want, torn, faults>>

CheckMissing_NeverExpires(p) ==
    /\ pc[p] = "checkMissing"
    /\ IF marker[want[p]] = NoFile
       THEN To(p, "request") /\ UNCHANGED answer
       ELSE Return(p, "missing")
    /\ UNCHANGED <<serverVars, local, want, data, torn, faults>>

(* The age of a marker from the future is an error of duration_since. *)
CheckMissing(p) ==
    /\ pc[p] = "checkMissing"
    /\ LET age == marker[want[p]]
       IN  CASE age = NoFile      -> To(p, "request") /\ UNCHANGED answer
             [] age = -1          -> Return(p, "error")
             [] age = MissingTime -> To(p, "removeMissing") /\ UNCHANGED answer
             [] OTHER             -> Return(p, "missing")
    /\ UNCHANGED <<serverVars, local, want, data, torn, faults>>

(* remove_file fails when another client has removed the marker meanwhile. *)
RemoveMissing(p) ==
    /\ pc[p] = "removeMissing"
    /\ marker' = [marker EXCEPT ![want[p]] = NoFile]
    /\ IF marker[want[p]] = NoFile
       THEN Return(p, "error")
       ELSE To(p, "request") /\ UNCHANGED answer
    /\ UNCHANGED <<serverVars, cache, want, data, torn, faults>>

(* HttpObjects::get_object. *)
Request(p) ==
    /\ pc[p] = "request"
    /\ Get(p, want[p], TRUE)
    /\ To(p, "wait")
    /\ UNCHANGED <<local, client, torn, faults>>

GetAnswered_AnyStatus(p) ==
    /\ pc[p] = "wait" /\ at[p] = "done"
    /\ data' = [data EXCEPT ![p] = body[p]]
    /\ To(p, "create") /\ UNCHANGED answer
    /\ Finished(p)
    /\ UNCHANGED <<files, lock, id, uploads, local, want, torn, faults>>

GetAnswered(p) ==
    /\ pc[p] = "wait" /\ at[p] = "done"
    /\ CASE reply[p] = "ok" ->
              /\ data' = [data EXCEPT ![p] = body[p]]
              /\ To(p, "create") /\ UNCHANGED answer
         [] reply[p] = "notFound" ->
              To(p, "createMissing") /\ UNCHANGED <<data, answer>>
         [] OTHER ->
              Return(p, "error") /\ UNCHANGED data
    /\ Finished(p)
    /\ UNCHANGED <<files, lock, id, uploads, local, want, torn, faults>>

(* File::create of the cached file itself ... *)
CreateCached(p) ==
    /\ pc[p] = "create"
    /\ cache' = [cache EXCEPT ![want[p]] = Partial]
    /\ To(p, "copy")
    /\ UNCHANGED <<serverVars, marker, client, torn, faults>>

(* ... and io::copy into it; the caller gets the data from memory. *)
CopyCached(p) ==
    /\ pc[p] = "copy"
    /\ cache' = [cache EXCEPT ![want[p]] = data[p]]
    /\ Return(p, "found")
    /\ UNCHANGED <<serverVars, marker, want, data, torn, faults>>

(* The new marker; one that is there already gets the present as its time. *)
CreateMissing(p) ==
    /\ pc[p] = "createMissing"
    /\ marker' = [marker EXCEPT ![want[p]] = 0]
    /\ Return(p, "missing")
    /\ UNCHANGED <<serverVars, cache, want, data, torn, faults>>

(* put_object goes straight through to HttpObjects.  The source may have been *)
(* edited since its checksum was taken, and may be too large for the server.  *)
PutObject(p, c, b, header) ==
    /\ Call(p, c)
    /\ Put(p, c, b, header)
    /\ To(p, "waitPut")
    /\ UNCHANGED <<local, torn, faults>>

PutAnswered_AnyStatus(p) ==
    /\ pc[p] = "waitPut" /\ at[p] = "done"
    /\ Return(p, "updated")
    /\ Finished(p)
    /\ UNCHANGED <<files, lock, id, uploads, local, want, data, torn, faults>>

PutAnswered(p) ==
    /\ pc[p] = "waitPut" /\ at[p] = "done"
    /\ Return(p, IF reply[p] = "ok" THEN "updated" ELSE "error")
    /\ Finished(p)
    /\ UNCHANGED <<files, lock, id, uploads, local, want, data, torn, faults>>

(* The client is killed, loses its connection, or meets an I/O error. *)
Fail(p) ==
    /\ pc[p] # "idle" /\ Fault
    /\ Return(p, "error")
    /\ torn' = IF pc[p] = "copy" THEN torn \cup {want[p]} ELSE torn
    /\ UNCHANGED <<serverVars, local, want, data>>

(* The answer to a client that is gone. *)
Abandoned(p) ==
    /\ at[p] = "done" /\ pc[p] \notin {"wait", "waitPut"}
    /\ Finished(p)
    /\ UNCHANGED <<files, lock, id, uploads, local, pc, client, torn, faults>>

(* Time, in fractions of missing_cache_time; a marker past it is just old. *)
Tick ==
    /\ marker' = [c \in Content |-> IF marker[c] \in {NoFile, MissingTime} THEN marker[c]
                                                                         ELSE marker[c] + 1]
    /\ UNCHANGED <<serverVars, cache, pc, client, torn, faults>>

(* The clock is set back to before every marker. *)
SetBack ==
    /\ Fault
    /\ marker' = [c \in Content |-> IF marker[c] = NoFile THEN NoFile ELSE -1]
    /\ UNCHANGED <<serverVars, cache, pc, client, torn>>

ServerSide(p) == Handler(p) /\ UNCHANGED <<local, pc, client, torn, faults>>

Proceed(p) ==
    \/ Read(p) \/ CheckMissing(p) \/ RemoveMissing(p) \/ Request(p) \/ GetAnswered(p)
    \/ CreateCached(p) \/ CopyCached(p) \/ CreateMissing(p) \/ PutAnswered(p)
    \/ Abandoned(p)

Next ==
    \/ \E p \in Req :
          \/ \E c \in Content : GetObject(p, c)
          \/ \E c, b \in Content, h \in {"wellFormed", "tooLarge"} : PutObject(p, c, b, h)
          \/ Proceed(p)
          \/ ServerSide(p)
          \/ Fail(p)
    \/ Tick
    \/ SetBack
    \/ /\ Restart \/ \E p \in Req : StoreError(p)
       /\ Fault
       /\ UNCHANGED <<local, pc, client, torn>>

Spec == Init /\ [][Next]_vars

(* Clients and handlers run, time passes, and whoever needs an object asks   *)
(* for it again and again, whatever else the client does in between.         *)
Fairness ==
    /\ \A p \in Req : WF_vars(Proceed(p)) /\ WF_vars(ServerSide(p))
    /\ \A p \in Req, c \in Content : SF_vars(GetObject(p, c))
    /\ WF_vars(Tick)
FairSpec == Spec /\ Fairness
-----------------------------------------------------------------------------
Copying(c) == \E p \in Req : pc[p] = "copy" /\ want[p] = c

(* A cached object is the one the name promises.  It is anything else only  *)
(* while some client copies it, or after one was cut short doing so:        *)
(* neither errors nor bodies of failed requests end up in the cache.        *)
CacheAccounted ==
    \A c \in Content : \/ cache[c] \in {NoFile, c}
                       \/ cache[c] = Partial /\ (Copying(c) \/ c \in torn)

(* What a lone client is given as an object is that object, through the      *)
(* server's store, the answer and the cache, unless its cache file is torn.  *)
ServedWhole ==
    \A p \in Req : answer[p] = "found" /\ want[p] \notin torn => data[p] = want[p]

(* put_object reports success only for what the server holds from then on,   *)
(* whatever restarts and other clients do in between.                        *)
PutStored ==
    \A p \in Req : answer[p] = "updated" => stored[want[p]] = want[p]

(* An object the server holds ends up in the cache of a client that keeps    *)
(* asking for it: no marker, no clock and no lost request keeps it out for   *)
(* good, only a copy that was cut short.                                     *)
EventuallyCached ==
    \A c \in Content : stored[c] = c ~> (cache[c] = c \/ c \in torn)
=============================================================================
