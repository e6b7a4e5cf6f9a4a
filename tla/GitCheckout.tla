----------------------------- MODULE GitCheckout -----------------------------
(***************************************************************************)
(* An index that is kept in git (lib/repository/src/git): the checkout of  *)
(* it that the commands of one user share, set up by whoever finds no      *)
(* directory, brought up to date by `reproto update`, and published to     *)
(* (index/git_index.rs).  Nothing locks the checkout from one call of git  *)
(* to the next, nor metadata.json between its reading and its writing.     *)
(***************************************************************************)
EXTENDS Naturals, Sequences, FiniteSets

CONSTANTS
    User,      \* commands that may run at the same time
    Release,   \* versions of a package
    NoTree,    \* in place of a set: nothing was checked out, or nobody knows
    MaxRuns,   \* bound: commands in all
    MaxBroken  \* bound: calls of git that fail, and commands that are killed

ASSUME CheckoutAssumption == \A T \in SUBSET Release : NoTree # T

VARIABLES
    origin,    \* the index upstream: the releases in each of its commits
    exists,    \* the directory of the checkout is there
    tree,      \* the releases in the working tree
    staged,    \* ... in what git has staged
    trunk,     \* the commit upstream that the checkout is on, 0 for none, and ...
    local,     \* ... the releases in what was committed on top of it
    fetchHead, \* the commit upstream that was fetched last
    pc,        \* where each command is
    command,   \* what it is: "resolve", "update" or "publish"
    setting,   \* it found no directory and sets the checkout up
    commit,    \* the commit upstream that it fetches, or resets to
    list,      \* the releases it writes to metadata.json, NoTree when several
               \*   write the temporary file at a time
    since,     \* history: the commit upstream when an update started
    updated,   \* history: updates that succeeded, and that nothing stale undid
    stale,     \* history: commands that go on from what others changed since
    cut,       \* history: the setting up of the checkout failed
    runs, broken

checkout == <<tree, staged, trunk, local>>
ongoing == <<command, setting, commit, list>>
history == <<since, updated, stale, cut>>
bounds == <<runs, broken>>
gitVars == <<origin, exists, checkout, fetchHead, pc, ongoing, history, bounds>>

GitInit ==
    /\ origin = <<{}>> /\ exists = FALSE
    /\ tree = NoTree /\ staged = {} /\ trunk = 0 /\ local = <<>> /\ fetchHead = 1
    /\ pc = [u \in User |-> "idle"] /\ command = [u \in User |-> "none"]
    /\ setting = [u \in User |-> FALSE]
    /\ commit = [u \in User |-> 1] /\ list = [u \in User |-> {}]
    /\ since = [u \in User |-> 1] /\ updated = {} /\ stale = {} /\ cut = FALSE
    /\ runs = 0 /\ broken = 0

UsersAt(label) == {v \in User : pc[v] = label}

To(u, label) == pc' = [pc EXCEPT ![u] = label]
End(u) ==
    /\ To(u, "idle")
    /\ command' = [command EXCEPT ![u] = "none"] /\ setting' = [setting EXCEPT ![u] = FALSE]
    /\ commit' = [commit EXCEPT ![u] = 1] /\ list' = [list EXCEPT ![u] = {}]
Continue(u, label) == To(u, label) /\ UNCHANGED ongoing

Begin(u, c) ==
    /\ pc[u] = "idle" /\ runs < MaxRuns /\ runs' = runs + 1
    /\ To(u, "open")
    /\ command' = [command EXCEPT ![u] = c]
    /\ since' = [since EXCEPT ![u] = IF c = "update" THEN Len(origin) ELSE 1]
    /\ updated' = updated \ {u}
    /\ UNCHANGED <<origin, exists, checkout, fetchHead, setting, commit, list, stale, cut, broken>>

(* GitRepo::with_remote: whether there is anything to set up is decided      *)
(* before the directory is made.                                             *)
WithRemote(u) ==
    /\ pc[u] = "open"
    /\ setting' = [setting EXCEPT ![u] = ~exists]
    /\ To(u, IF exists THEN "index" ELSE "init")
    /\ UNCHANGED <<origin, exists, checkout, fetchHead, command, commit, list, history, bounds>>

Initialize(u) ==
    /\ pc[u] = "init"
    /\ exists' = TRUE
    /\ Continue(u, "fetch")
    /\ UNCHANGED <<origin, checkout, fetchHead, history, bounds>>

(* FileIndex::new reads config.json from the working tree, where the first   *)
(* reset may have put it before the rest; then the command does what it is   *)
(* for.                                                                      *)
OpenIndex(u) ==
    /\ pc[u] = "index"
    /\ \/ (tree = NoTree \/ command[u] = "resolve") /\ End(u)
       \/ /\ tree # NoTree \/ UsersAt("checkout") # {}
          /\ \/ command[u] = "update" /\ Continue(u, "fetch")
             \/ command[u] = "publish" /\ Continue(u, "put")
    /\ UNCHANGED <<origin, exists, checkout, fetchHead, history, bounds>>

(* GitRepo::update.  A fetch empties FETCH_HEAD, learns what is upstream,    *)
(* and appends it to FETCH_HEAD when it is there; of what several append     *)
(* the first counts.                                                         *)
Fetch(u) ==
    /\ pc[u] = "fetch"
    /\ commit' = [commit EXCEPT ![u] = Len(origin)]
    /\ To(u, "fetched")
    /\ UNCHANGED <<origin, exists, checkout, fetchHead, command, setting, list, history, bounds>>

Fetched(u) ==
    /\ pc[u] = "fetched"
    /\ fetchHead' \in {commit[u]} \cup (IF u \in stale THEN {fetchHead} ELSE {})
    /\ IF u \in stale /\ commit[u] # fetchHead
       THEN /\ updated' = {}
            /\ stale' = stale \cup {v \in User : pc[v] \in {"fetched", "reset", "checkout"}}
       ELSE UNCHANGED updated /\ stale' = (stale \cup UsersAt("fetched")) \ {u}
    /\ Continue(u, "reset")
    /\ UNCHANGED <<origin, exists, checkout, since, cut, bounds>>

(* The reset learns what was fetched, unless another command is just         *)
(* fetching, ...                                                             *)
ResetTo(u, c) ==
    /\ pc[u] = "reset"
    /\ \/ /\ commit' = [commit EXCEPT ![u] = c]
          /\ To(u, "checkout")
          /\ UNCHANGED <<command, setting, list, stale, cut>>
       \/ /\ UsersAt("fetched") # {}
          /\ End(u) /\ stale' = stale \ {u} /\ cut' = (cut \/ setting[u])
    /\ UNCHANGED <<origin, exists, checkout, fetchHead, since, updated, bounds>>
Reset_Head(u) == ResetTo(u, IF trunk = 0 THEN fetchHead ELSE trunk)
Reset(u) == ResetTo(u, fetchHead)

(* ... and puts the files there.                                             *)
Overtaken(u) == UsersAt("rename") \cup {v \in UsersAt("checkout") : commit[v] < commit[u]}

Checkout(u) ==
    /\ pc[u] = "checkout"
    /\ tree' = origin[commit[u]] /\ staged' = tree' /\ trunk' = commit[u] /\ local' = <<>>
    /\ stale' = (stale \cup Overtaken(u)) \ {u}
    /\ updated' = IF u \in stale THEN {} ELSE updated \cup (IF setting[u] THEN {} ELSE {u})
    /\ IF setting[u]
       THEN /\ To(u, "index") /\ setting' = [setting EXCEPT ![u] = FALSE]
            /\ UNCHANGED <<command, commit, list>>
       ELSE End(u)
    /\ UNCHANGED <<origin, exists, fetchHead, since, cut, bounds>>

(* GitIndex::put_version reads metadata.json, of which a reset may just have *)
(* written a part; with --force it goes on when the release is there.  The   *)
(* temporary file has one name for all who publish.                          *)
Readings ==
    {IF tree = NoTree THEN {} ELSE tree}
        \cup UNION {SUBSET origin[commit[v]] : v \in UsersAt("checkout")}

PutVersion(u, r) ==
    /\ pc[u] = "put"
    /\ \E S \in Readings :
          \/ r \in S /\ End(u) /\ UNCHANGED stale
          \/ /\ To(u, "rename")
             /\ list' = [v \in User |->
                            IF v \notin UsersAt("rename") \cup {u} THEN list[v]
                            ELSE IF UsersAt("rename") = {} THEN S \cup {r} ELSE NoTree]
             /\ stale' = IF UsersAt("rename") \cup UsersAt("checkout") = {} THEN stale
                         ELSE stale \cup UsersAt("rename") \cup {u}
             /\ UNCHANGED <<command, setting, commit>>
    /\ UNCHANGED <<origin, exists, checkout, fetchHead, since, updated, cut, bounds>>

Rename(u) ==
    /\ pc[u] = "rename"
    /\ \/ list[u] # NoTree /\ tree' = list[u] /\ Continue(u, "add")
       \/ list[u] = NoTree /\ tree' \in SUBSET Release /\ (Continue(u, "add") \/ End(u))
    /\ updated' = IF u \in stale THEN {} ELSE updated
    /\ stale' = stale \ {u}
    /\ UNCHANGED <<origin, exists, staged, trunk, local, fetchHead, since, cut, bounds>>

Add(u) ==
    /\ pc[u] = "add"
    /\ staged' = tree
    /\ Continue(u, "commit")
    /\ UNCHANGED <<origin, exists, tree, trunk, local, fetchHead, history, bounds>>

Committed ==
    IF local # <<>> THEN local[Len(local)] ELSE IF trunk = 0 THEN {} ELSE origin[trunk]

(* git has nothing to commit when another command committed or reset it.     *)
Commit(u) ==
    /\ pc[u] = "commit"
    /\ local' = IF staged = Committed THEN local ELSE Append(local, staged)
    /\ End(u)
    /\ UNCHANGED <<origin, exists, tree, staged, trunk, fetchHead, history, bounds>>

(* A call fails or the command is killed: on the way of a reset too, which   *)
(* then leaves a part of the files.                                          *)
Break(u) ==
    /\ pc[u] # "idle" /\ broken < MaxBroken /\ broken' = broken + 1
    /\ End(u)
    /\ stale' = stale \ {u} /\ cut' = (cut \/ setting[u])
    /\ exists' \in {exists, exists \/ pc[u] = "init"}
    /\ \/ UNCHANGED <<tree, updated>>
       \/ pc[u] = "checkout" /\ tree' \in SUBSET origin[commit[u]] /\ updated' = {}
    /\ UNCHANGED <<origin, staged, trunk, local, fetchHead, since, runs>>

(* Others publish upstream, and the user pushes what was committed, which    *)
(* git refuses when others were first.                                       *)
Upstream(r) ==
    /\ r \notin origin[Len(origin)]
    /\ origin' = Append(origin, origin[Len(origin)] \cup {r})
    /\ UNCHANGED <<exists, checkout, fetchHead, pc, ongoing, history, bounds>>
Push ==
    /\ trunk = Len(origin) /\ local # <<>>
    /\ origin' = origin \o local /\ trunk' = Len(origin') /\ local' = <<>>
    /\ UNCHANGED <<exists, tree, staged, fetchHead, pc, ongoing, history, bounds>>

Step(u) ==
    \/ WithRemote(u) \/ Initialize(u) \/ OpenIndex(u) \/ Fetch(u) \/ Fetched(u) \/ Reset(u)
    \/ Checkout(u) \/ (\E r \in Release : PutVersion(u, r)) \/ Rename(u) \/ Add(u) \/ Commit(u)
    \/ Break(u)
GitNext ==
    \/ \E u \in User : Step(u) \/ \E c \in {"resolve", "update", "publish"} : Begin(u, c)
    \/ \E r \in Release : Upstream(r)
    \/ Push

GitSpec == GitInit /\ [][GitNext]_gitVars
-----------------------------------------------------------------------------
Began(u) == {r \in Release : \A i \in since[u]..Len(origin) : r \in origin[i]}

(* After an update that succeeded the checkout has everything that has been  *)
(* upstream ever since it started, whatever other commands do to it          *)
(* meanwhile and later, but for three things that nothing in the code keeps  *)
(* from undoing it: one who publishes and read metadata.json before or       *)
(* during a reset, or writes it together with another; a fetch or a reset    *)
(* that another one overtook; and a reset that was killed halfway.  One      *)
(* without files is being set up, or its setting up failed: no order of      *)
(* commands that succeed leaves a checkout nobody can open.                  *)
Updated ==
    /\ \A u \in updated : tree # NoTree /\ Began(u) \subseteq tree
    /\ exists /\ tree = NoTree => cut \/ \E u \in User : setting[u]
=============================================================================
