----------------------------- MODULE SelfUpdate -----------------------------
(***************************************************************************)
(* `reproto self-update` (cli/src/ops/self_update.rs): asks a server for   *)
(* its releases, unpacks the newest one that will do next to the earlier   *)
(* ones, and points a link at it.  An unpacked release is taken as         *)
(* complete when its file is there.                                        *)
(***************************************************************************)
EXTENDS Versions, FiniteSets

CONSTANTS
    Updater,    \* commands that may run at the same time
    Published,  \* versions that the server may have
    Installed,  \* the version installed by other means
    NoVersion,
    MaxUpdates, \* bound: commands in all
    MaxCrashes  \* bound: commands killed or without disk space

ASSUME UpdateAssumption == NoVersion \notin Published

VARIABLES
    server,    \* versions on the server
    archived,  \* for each version: "none", "partial" or "whole"
    link,      \* what the link in the user's path names, NoVersion for no link
    upc,       \* where each command is
    running,   \* the version it is
    force, pre, \* its options
    candidate, \* the version it has chosen
    hollow,    \* history: versions whose archive had no binary in it
    torn,      \* history: versions whose unpacking was cut short
    updates, crashes

options == <<running, force, pre>>
disk == <<archived, link>>
updateVars == <<server, disk, upc, options, candidate, hollow, torn, updates, crashes>>

UpdateInit ==
    /\ server = {}
    /\ archived = [v \in Published |-> "none"] /\ link = NoVersion
    /\ upc = [u \in Updater |-> "idle"]
    /\ running = [u \in Updater |-> Installed]
    /\ force = [u \in Updater |-> FALSE] /\ pre = [u \in Updater |-> FALSE]
    /\ candidate = [u \in Updater |-> NoVersion]
    /\ hollow = {} /\ torn = {} /\ updates = 0 /\ crashes = 0

Goto(u, label) == upc' = [upc EXCEPT ![u] = label]

(* Someone runs the binary the link names, or the one installed first. *)
Runs(v) == v = Installed \/ (link = v /\ archived[v] = "whole")
Invoke(u, v, f, p) ==
    /\ upc[u] = "idle" /\ updates < MaxUpdates /\ updates' = updates + 1
    /\ v \in Published \cup {Installed} /\ Runs(v)
    /\ running' = [running EXCEPT ![u] = v]
    /\ force' = [force EXCEPT ![u] = f] /\ pre' = [pre EXCEPT ![u] = p]
    /\ Goto(u, "list")
    /\ UNCHANGED <<server, disk, candidate, hollow, torn, crashes>>

(* UpdateClient::request: an answer counts when its status is a success, and *)
(* only when it has a Location header, redirect or not.                      *)
Succeeds(status, location) == location /\ status = "ok"
Answer == [status : {"ok", "failed"}, location : BOOLEAN]

Newest(V) == {v \in V : \A w \in V : ~Less(v, w)}
Allowed(u) ==
    {v \in server : /\ pre[u] \/ ~IsPrerelease(v)
                    /\ force[u] \/ Less(running[u], v)}

Choose(u, answer) ==
    /\ upc[u] = "list"
    /\ IF Succeeds(answer.status, answer.location) /\ Allowed(u) # {}
       THEN /\ \E v \in Newest(Allowed(u)) : candidate' = [candidate EXCEPT ![u] = v]
            /\ Goto(u, "check")
       ELSE Goto(u, "idle") /\ UNCHANGED candidate
    /\ UNCHANGED <<server, disk, options, hollow, torn, updates, crashes>>

CheckArchived_OnlyForce(u) ==
    /\ upc[u] = "check"
    /\ Goto(u, IF force[u] THEN "download" ELSE "unlink")
    /\ UNCHANGED <<server, disk, options, candidate, hollow, torn, updates, crashes>>
CheckArchived(u) ==
    /\ upc[u] = "check"
    /\ Goto(u, IF archived[candidate[u]] = "none" \/ force[u] THEN "download" ELSE "unlink")
    /\ UNCHANGED <<server, disk, options, candidate, hollow, torn, updates, crashes>>

(* get_release, and the start of download_archive: the entry named like the  *)
(* binary is unpacked in place, and it is no error when there is none.       *)
Download(u, answer, entry) ==
    /\ upc[u] = "download"
    /\ LET c == candidate[u]
       IN  IF ~Succeeds(answer.status, answer.location)
           THEN Goto(u, "idle") /\ UNCHANGED <<archived, hollow>>
           ELSE IF ~entry
           THEN Goto(u, "unlink") /\ hollow' = hollow \cup {c} /\ UNCHANGED archived
           ELSE /\ Goto(u, "copy") /\ UNCHANGED hollow
                /\ archived' = [archived EXCEPT ![c] = "partial"]
    /\ UNCHANGED <<server, link, options, candidate, torn, updates, crashes>>

Copy(u) ==
    /\ upc[u] = "copy"
    /\ archived' = [archived EXCEPT ![candidate[u]] = "whole"]
    /\ Goto(u, "unlink")
    /\ UNCHANGED <<server, link, options, candidate, hollow, torn, updates, crashes>>

(* setup_symlink: what the link names has to be a file for it to be removed, *)
(* and a link that is there makes the new one fail.                          *)
Unlink(u) ==
    /\ upc[u] = "unlink"
    /\ link' = IF link # NoVersion /\ archived[link] # "none" THEN NoVersion ELSE link
    /\ Goto(u, "symlink")
    /\ UNCHANGED <<server, archived, options, candidate, hollow, torn, updates, crashes>>

Symlink(u) ==
    /\ upc[u] = "symlink"
    /\ link' = IF link = NoVersion THEN candidate[u] ELSE link
    /\ Goto(u, "idle")
    /\ UNCHANGED <<server, archived, options, candidate, hollow, torn, updates, crashes>>

Crash(u) ==
    /\ upc[u] # "idle" /\ crashes < MaxCrashes /\ crashes' = crashes + 1
    /\ torn' = IF upc[u] = "copy" THEN torn \cup {candidate[u]} ELSE torn
    /\ Goto(u, "idle")
    /\ UNCHANGED <<server, disk, options, candidate, hollow, updates>>

Publication(v) ==
    /\ v \notin server /\ server' = server \cup {v}
    /\ UNCHANGED <<disk, upc, options, candidate, hollow, torn, updates, crashes>>

UpdateNext ==
    \/ \E u \in Updater :
          \/ \E v \in Published \cup {Installed}, f, p \in BOOLEAN : Invoke(u, v, f, p)
          \/ \E a \in Answer : Choose(u, a) \/ \E e \in BOOLEAN : Download(u, a, e)
          \/ CheckArchived(u) \/ Copy(u) \/ Unlink(u) \/ Symlink(u) \/ Crash(u)
    \/ \E v \in Published : Publication(v)

UpdateSpec == UpdateInit /\ [][UpdateNext]_updateVars
-----------------------------------------------------------------------------
(* The link names a whole binary, unless the unpacking of that version was   *)
(* cut short, is under way in another command, or had nothing to unpack,     *)
(* whichever commands run and die in between.                                *)
Linked ==
    link # NoVersion =>
        \/ archived[link] = "whole" \/ link \in torn \cup hollow
        \/ \E u \in Updater : upc[u] = "copy" /\ candidate[u] = link
=============================================================================
