---------------------------- MODULE ObjectServer ----------------------------
(***************************************************************************)
(* The HTTP object server (server/src/reproto_service.rs).  Requests are   *)
(* served concurrently by a tokio runtime; the object store behind them is *)
(* one FileObjects in a mutex.  An upload is accepted when the checksum of *)
(* its decoded body is the object's name; a download looks the object up   *)
(* under the mutex and reads the file after releasing it.                  *)
(***************************************************************************)
EXTENDS Naturals, FiniteSets

CONSTANTS
    Req,         \* requests that may be in flight at the same time
    Content,     \* object contents; a checksum is identified with its content
    NoFile,      \* no file of that name
    Partial,     \* a file created but not completely written
    NoReq,       \* the mutex is free
    MaxUploads   \* bound: uploads received in all

ASSUME ReqAssumption == NoReq \notin Req
ASSUME ObjectAssumption == /\ NoFile \notin Content /\ Partial \notin Content
                           /\ NoFile # Partial
ASSUME UploadsAssumption == MaxUploads \in Nat

VARIABLES
    stored,     \* the object files
    storedTmp,  \* their temporary files
    lock,       \* who holds the mutex around the objects
    at,         \* where the handler of each request is
    id,         \* the object a request is about
    body,       \* the decoded body uploaded, or the data to be downloaded
    reply,      \* the answer, once there is one
    uploads     \* uploads received so far

files == <<stored, storedTmp>>
request == <<id, body>>
serverVars == <<files, lock, at, request, reply, uploads>>

ServerInit ==
    /\ stored = [c \in Content |-> NoFile]
    /\ storedTmp = [c \in Content |-> NoFile]
    /\ lock = NoReq
    /\ at = [r \in Req |-> "free"]
    /\ id \in [Req -> Content]
    /\ body = [r \in Req |-> NoFile]
    /\ reply = [r \in Req |-> "none"]
    /\ uploads = 0

GoTo(r, label) == at' = [at EXCEPT ![r] = label]
Answer(r, status) ==
    /\ GoTo(r, "done")
    /\ reply' = [reply EXCEPT ![r] = status]

Receive(r, c) ==
    /\ at[r] = "free"
    /\ id' = [id EXCEPT ![r] = c]

(* What put_objects meets before it looks at the data: whether the checksum *)
(* in the path parses, the declared length, and a body cut short.           *)
Headers == {"wellFormed", "badChecksum", "noLength", "tooLarge", "cutShort"}

(* PUT objects/<c>. *)
Put(r, c, b, header) ==
    /\ Receive(r, c)
    /\ uploads < MaxUploads /\ uploads' = uploads + 1
    /\ body' = [body EXCEPT ![r] = b]
    /\ CASE header = "wellFormed" -> GoTo(r, "checksum") /\ UNCHANGED reply
         [] header \in {"badChecksum", "cutShort"} -> Answer(r, "serverError")
         [] OTHER -> Answer(r, "badRequest")
    /\ UNCHANGED <<files, lock>>

Checksum_Ignored(r) ==
    /\ at[r] = "checksum"
    /\ GoTo(r, "lock") /\ UNCHANGED reply
    /\ UNCHANGED <<files, lock, request, uploads>>

(* put_uploaded_object, on a thread of its own. *)
Checksum(r) ==
    /\ at[r] = "checksum"
    /\ IF body[r] # id[r]
       THEN Answer(r, "badRequest")
       ELSE GoTo(r, "lock") /\ UNCHANGED reply
    /\ UNCHANGED <<files, lock, request, uploads>>

Lock_NotTaken(r) ==
    /\ at[r] = "lock"
    /\ GoTo(r, "store")
    /\ UNCHANGED <<files, lock, request, reply, uploads>>

Lock(r) ==
    /\ at[r] = "lock" /\ lock = NoReq
    /\ lock' = r
    /\ GoTo(r, "store")
    /\ UNCHANGED <<files, request, reply, uploads>>

Unlock == lock' = NoReq

(* FileObjects::put_object, without force. *)
Store(r) ==
    /\ at[r] = "store"
    /\ IF stored[id[r]] # NoFile
       THEN Answer(r, "ok") /\ Unlock
       ELSE GoTo(r, "create") /\ UNCHANGED <<reply, lock>>
    /\ UNCHANGED <<files, request, uploads>>

Create(r) ==
    /\ at[r] = "create"
    /\ storedTmp' = [storedTmp EXCEPT ![id[r]] = Partial]
    /\ GoTo(r, "copy")
    /\ UNCHANGED <<stored, lock, request, reply, uploads>>

Copy(r) ==
    /\ at[r] = "copy"
    /\ storedTmp' = [storedTmp EXCEPT ![id[r]] = body[r]]
    /\ GoTo(r, "rename")
    /\ UNCHANGED <<stored, lock, request, reply, uploads>>

Rename(r) ==
    /\ at[r] = "rename"
    /\ stored' = [stored EXCEPT ![id[r]] = storedTmp[id[r]]]
    /\ storedTmp' = [storedTmp EXCEPT ![id[r]] = NoFile]
    /\ Answer(r, "ok") /\ Unlock
    /\ UNCHANGED <<request, uploads>>

Failing == {"checksum", "create", "copy", "rename", "open"}

StoreError_KeepsLock(r) ==
    /\ at[r] \in Failing
    /\ Answer(r, "serverError")
    /\ UNCHANGED <<files, lock, request, uploads>>

(* The body cannot be decoded, or an I/O error: the guard of the mutex is *)
(* dropped with the closure that returns the error.                       *)
StoreError(r) ==
    /\ at[r] \in Failing
    /\ Answer(r, "serverError")
    /\ lock' = IF lock = r THEN NoReq ELSE lock
    /\ UNCHANGED <<files, request, uploads>>

(* GET objects/<c>. *)
Get(r, c, parses) ==
    /\ Receive(r, c)
    /\ IF parses THEN GoTo(r, "lookup") /\ UNCHANGED reply
                 ELSE Answer(r, "badRequest")
    /\ UNCHANGED <<files, lock, body, uploads>>

Lookup(r) ==
    /\ at[r] = "lookup" /\ lock = NoReq
    /\ IF stored[id[r]] = NoFile
       THEN Answer(r, "notFound")
       ELSE GoTo(r, "open") /\ UNCHANGED reply
    /\ UNCHANGED <<files, lock, request, uploads>>

(* The file is opened and read after the mutex was released. *)
Open(r) ==
    /\ at[r] = "open"
    /\ body' = [body EXCEPT ![r] = stored[id[r]]]
    /\ Answer(r, IF stored[id[r]] = NoFile THEN "notFound" ELSE "ok")
    /\ UNCHANGED <<files, lock, id, uploads>>

(* The answer has been sent; the slot can serve another request. *)
Finished(r) ==
    /\ GoTo(r, "free")
    /\ reply' = [reply EXCEPT ![r] = "none"]
    /\ body' = [body EXCEPT ![r] = NoFile]

(* The process dies and is started again: requests and mutex are gone. *)
Restart ==
    /\ at' = [r \in Req |-> IF at[r] = "free" THEN "free" ELSE "done"]
    /\ reply' = [r \in Req |-> IF at[r] \in {"free", "done"} THEN reply[r] ELSE "lost"]
    /\ Unlock
    /\ UNCHANGED <<files, request, uploads>>

Handler(r) ==
    \/ Checksum(r) \/ Lock(r) \/ Store(r) \/ Create(r) \/ Copy(r) \/ Rename(r)
    \/ Lookup(r) \/ Open(r)

ServerNext ==
    \/ \E r \in Req, c \in Content, parses \in BOOLEAN : Get(r, c, parses)
    \/ \E r \in Req, c, b \in Content, h \in Headers : Put(r, c, b, h)
    \/ \E r \in Req : Handler(r) \/ StoreError(r)
    \/ \E r \in Req : at[r] = "done" /\ Finished(r) /\ UNCHANGED <<files, lock, id, uploads>>
    \/ Restart

ServerSpec == ServerInit /\ [][ServerNext]_serverVars

(* A thread of the runtime takes every step of a handler.  The mutex is weak *)
(* in that nothing is said of whom it goes to: a handler gets it in the end  *)
(* because the uploads that compete for it come to an end (MaxUploads).      *)
ServerFairness == \A r \in Req : WF_serverVars(Handler(r))
FairServerSpec == ServerSpec /\ ServerFairness

-----------------------------------------------------------------------------
Status == {"none", "ok", "badRequest", "notFound", "serverError", "lost"}
Locked == {"store", "create", "copy", "rename"}
Places == Locked \cup {"free", "checksum", "lock", "lookup", "open", "done"}
File == Content \cup {NoFile, Partial}

(* Every variable has its type, and the mutex is held by the one handler     *)
(* that is between locking it and answering.                                 *)
ServerTypeOK ==
    /\ stored \in [Content -> File] /\ storedTmp \in [Content -> File]
    /\ lock \in Req \cup {NoReq}
    /\ at \in [Req -> Places]
    /\ id \in [Req -> Content] /\ body \in [Req -> File]
    /\ reply \in [Req -> Status]
    /\ uploads \in Nat
    /\ \A r \in Req : lock = r <=> at[r] \in Locked

(* What is stored under a checksum has that checksum, and is whole: no race  *)
(* of uploads of one object, no error and no restart while one is written    *)
(* makes any other data visible under the name.                              *)
StoreMatches == \A c \in Content : stored[c] \in {NoFile, c}

(* A download that succeeds delivers the object asked for, although the file *)
(* is read when the mutex may already be held by somebody else.              *)
DownloadMatches ==
    \A r \in Req : at[r] = "done" /\ reply[r] = "ok" => body[r] = id[r]

(* An upload answered with success is in the store, also when the answer     *)
(* came from the check that it was there already.                            *)
UploadStored ==
    \A r \in Req : at[r] = "done" /\ reply[r] = "ok" => stored[id[r]] = id[r]

(* An object once stored is neither removed nor rewritten.                   *)
StoredForGood ==
    [][\A c \in Content : stored[c] # NoFile => stored'[c] = stored[c]]_serverVars

(* Every request is answered: whichever way an upload ends, it releases the  *)
(* mutex that all the others are waiting for.                                *)
AllAnswered == \A r \in Req : at[r] # "free" ~> at[r] \in {"done", "free"}
=============================================================================
