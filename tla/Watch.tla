-------------------------------- MODULE Watch --------------------------------
(***************************************************************************)
(* `reproto watch` (cli/src/ops/watch.rs): builds a project, waits for one *)
(* of the files it read to change, and builds it again.  It keeps track of *)
(* what it wrote, to delete what a later build no longer writes.           *)
(***************************************************************************)
EXTENDS Naturals, FiniteSets

CONSTANTS
    Project,    \* states of the project on disk: the paths that are present, those
                \*   that a build reads, what it writes, and whether it succeeds;
                \*   one that fails has read and written a part
    ParentOf,   \* the directory of each path
    MaxEdits,   \* bound: edits
    MaxStarts   \* bound: runs of the command

ASSUME WatchAssumption == \A p \in Project : p.present \subseteq DOMAIN ParentOf

VARIABLES
    project,    \* the project as it is
    phase,      \* "off", "load", "update" or "wait"
    seen,       \* the project as the last build read it
    paths,      \* paths read that are not watched yet
    watching,   \* paths whose events count
    watched,    \* paths and directories the watcher was asked to watch
    queue,      \* paths of events not received yet
    files,      \* what earlier builds wrote and is still there
    written,    \* what was written since the last success
    output,     \* generated files on disk
    deleting,   \* --delete
    inherited,  \* history: generated files there when the command started
    recent,     \* history: what was written since the last success,
    due,        \* history: ... and between that one and the one before, or by it
    edited,     \* history: paths edited since the last build read them ...
    silent,     \* ... and those of them of which no event was sent
    edits, starts

outputs == <<files, written, output, deleting, inherited, recent, due>>
listening == <<paths, watching, watched>>
edition == <<edited, silent, edits>>
watchVars == <<project, phase, seen, listening, queue, outputs, edition, starts>>

Parents(P) == {ParentOf[p] : p \in P}

WatchInit ==
    /\ project \in Project /\ seen = project
    /\ phase = "off" /\ deleting = FALSE
    /\ paths = {} /\ watching = {} /\ watched = {} /\ queue = {}
    /\ files = {} /\ written = {} /\ output = {} /\ inherited = {}
    /\ recent = {} /\ due = {}
    /\ edited = {} /\ silent = {} /\ edits = 0 /\ starts = 0

Start ==
    /\ phase = "off" /\ starts < MaxStarts /\ starts' = starts + 1
    /\ phase' = "load"
    /\ deleting' \in BOOLEAN
    /\ paths' = {} /\ watching' = {} /\ watched' = {} /\ queue' = {}
    /\ files' = {} /\ written' = {} /\ inherited' = output
    /\ recent' = {} /\ due' = {}
    /\ UNCHANGED <<project, seen, output, edition>>

(* Someone changes the file at `path`, or moves some; events are about what is watched, or  *)
(* in a directory that is.                                                   *)
Edit(next, path) ==
    LET moved == (next.present \ project.present) \cup (project.present \ next.present)
        touched == IF moved = {} THEN {path} ELSE moved
        heard == {p \in touched : phase # "off" /\ {p, ParentOf[p]} \cap watched # {}}
    IN  /\ edits < MaxEdits /\ edits' = edits + 1
        /\ next # project /\ path \in next.present
        /\ project' = next
        /\ edited' = edited \cup touched
        /\ queue' = queue \cup heard
        /\ silent' = silent \cup (touched \ heard)
        /\ UNCHANGED <<phase, seen, listening, outputs, starts>>

(* try_compile up to the translated session: the hook collects every path    *)
(* that is loaded, of a build that fails as well.                            *)
Load ==
    /\ phase = "load"
    /\ seen' = project
    /\ paths' = paths \cup project.reads
    /\ edited' = {} /\ silent' = {}
    /\ phase' = "update"
    /\ UNCHANGED <<project, watching, watched, queue, outputs, edits, starts>>

(* The rest of it writes files; of a build that succeeds, those known before *)
(* that were not written again are deleted.                                  *)
Sweep_Forgets ==
    LET all == written \cup seen.writes
    IN  /\ written' = {}
        /\ files' = IF seen.ok THEN all ELSE files
        /\ output' = (output \cup all) \ (IF seen.ok /\ deleting THEN files \ all ELSE {})
Sweep ==
    LET all == written \cup seen.writes
    IN  /\ written' = IF seen.ok THEN {} ELSE all
        /\ files' = IF seen.ok THEN all ELSE files
        /\ output' = (output \cup all) \ (IF seen.ok /\ deleting THEN files \ all ELSE {})

(* Watching what was read: a path that is no longer there can not be         *)
(* watched, not even one that is about to be unwatched, and a directory can  *)
(* be unwatched only once.  Either ends the command.                         *)
Rewatch ==
    LET changed == (watching \ paths) \cup (paths \ watching)
        removed == watching \ paths
        broken == \/ ~(changed \subseteq project.present)
                  \/ Cardinality(Parents(removed)) < Cardinality(removed)
        nothing == paths = {}
    IN  IF broken
        THEN phase' = "off" /\ UNCHANGED listening
        ELSE /\ phase' = IF nothing THEN "off" ELSE "wait"
             /\ watched' = (watched \cup changed \cup Parents(changed))
                           \ (removed \cup Parents(removed))
             /\ watching' = paths /\ paths' = {}

Update_Drains ==
    /\ phase = "update"
    /\ Sweep
    /\ IF seen.ok THEN Rewatch
       ELSE phase' = (IF watching = {} THEN "off" ELSE "wait") /\ UNCHANGED listening
    /\ recent' = (IF seen.ok THEN {} ELSE recent \cup seen.writes)
    /\ due' = IF seen.ok THEN recent \cup seen.writes ELSE due
    /\ queue' = {}
    /\ UNCHANGED <<project, seen, deleting, inherited, edition, starts>>
Update ==
    /\ phase = "update"
    /\ Sweep
    /\ IF seen.ok THEN Rewatch
       ELSE phase' = (IF watching = {} THEN "off" ELSE "wait") /\ UNCHANGED listening
    /\ recent' = (IF seen.ok THEN {} ELSE recent \cup seen.writes)
    /\ due' = IF seen.ok THEN recent \cup seen.writes ELSE due
    /\ UNCHANGED <<project, seen, queue, deleting, inherited, edition, starts>>

(* An event of a path that counts; all that came with it are dropped, since  *)
(* the build that follows reads everything.                                  *)
Wake(p) ==
    /\ phase = "wait" /\ p \in queue \cap watching
    /\ queue' = {} /\ phase' = "load"
    /\ UNCHANGED <<project, seen, listening, outputs, edition, starts>>

Ignore(p) ==
    /\ phase = "wait" /\ p \in queue \ watching
    /\ queue' = queue \ {p}
    /\ UNCHANGED <<project, phase, seen, listening, outputs, edition, starts>>

(* Interrupted while it waits. *)
Stop ==
    /\ phase = "wait" /\ phase' = "off"
    /\ UNCHANGED <<project, seen, listening, queue, outputs, edition, starts>>

WatchNext ==
    \/ Start \/ Load \/ Update \/ Stop
    \/ \E p \in DOMAIN ParentOf : Wake(p) \/ Ignore(p)
    \/ \E next \in Project, path \in DOMAIN ParentOf : Edit(next, path)

WatchSpec == WatchInit /\ [][WatchNext]_watchVars
-----------------------------------------------------------------------------
(* With --delete, what there is after a successful build is what it wrote,   *)
(* what the failed ones just before it left, and what was there before the   *)
(* command: no older build leaves anything behind, and nothing that belongs  *)
(* there is deleted.                                                         *)
Swept ==
    phase = "wait" /\ seen.ok =>
        /\ seen.writes \subseteq output
        /\ deleting => output \subseteq (due \cup inherited)

(* No edit of a watched path is slept over, in whatever step of a build it   *)
(* comes: one that is was of a path that counted for nothing, or made before *)
(* the path was watched.                                                     *)
Noticed ==
    phase = "wait" /\ queue \cap watching = {} /\ project # seen =>
        edited \subseteq (silent \cup (DOMAIN ParentOf \ watching))
=============================================================================
