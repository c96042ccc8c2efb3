--------------------------- MODULE ExtensionInstalls ---------------------------
(***************************************************************************)
(* The remote operations on one extension: install, update, check for an   *)
(* update and uninstall, as the app's job queue and the CLI run them.  A   *)
(* worker is one operation's chain of subprocesses and callbacks: resolve  *)
(* the commit, download into the staging directory, install dependencies,  *)
(* stop the process, swap, save.  Directories are modelled by what is in   *)
(* them and whether they look more than an hour old; failures of network,  *)
(* git, pip and archives are free, failures of the file system, crashes    *)
(* and clean-ups during an operation are bounded.                          *)
(*                                                                         *)
(* Two operations never use the staging directory together: the app runs   *)
(* one job per id, and _install_from_remote says of two processes that     *)
(* they clobber each other.  A check or an uninstall may run beside one.   *)
(***************************************************************************)
EXTENDS Naturals, FiniteSets

CONSTANTS
  Workers,     \* operations that may overlap
  MaxCommits,  \* bound on the upstream's commits
  MaxOps,      \* bound on operations
  MaxFaults,   \* bound on failing file system calls
  MaxCrashes,  \* bound on crashes of a worker's process
  MaxPrunes    \* bound on entries the app's clean-up takes from an ongoing operation

ASSUME InstallsAssumption ==
  /\ MaxCommits \in Nat \ {0}
  /\ MaxOps \in Nat /\ MaxFaults \in Nat /\ MaxCrashes \in Nat /\ MaxPrunes \in Nat

VARIABLES
  target,   \* the extension's directory
  staging,  \* .staging/<id>
  backup,   \* .staging/<id>.bak
  saved,    \* commit_hash in the extension's state file; 0: no state
  repo,     \* newest commit in the bare clone; 0: no clone
  head,     \* newest commit upstream
  job,      \* per worker: its operation
  installed, \* history: swapped in, or there from the start, and not deleted since
  bounds    \* operations, faults, crashes and prunes so far

vars == <<target, staging, backup, saved, repo, head, job, installed, bounds>>
dirs == <<target, staging, backup>>

\* `old`: the directory's mtime is more than an hour ago.
Commits == 1..MaxCommits
Dirs == [there: BOOLEAN, files: SUBSET Commits, deps: BOOLEAN, torn: BOOLEAN, old: BOOLEAN]
NoDir == [there |-> FALSE, files |-> {}, deps |-> FALSE, torn |-> FALSE, old |-> FALSE]
Empty == [NoDir EXCEPT !.there = TRUE]
Release(c) == [Empty EXCEPT !.files = {c}]

\* extension_finder.is_extension
Located(d) == d.files # {}
Whole(d) == Located(d) /\ Cardinality(d.files) = 1 /\ d.deps /\ ~d.torn

\* A new ExtensionRemote has not fetched yet.  `since` and `before` are what
\* the operation found upstream and on disk when it began.
Idle == [pc |-> "idle", op |-> "none", commit |-> 0, synced |-> FALSE,
         since |-> 0, before |-> NoDir, backedUp |-> FALSE, result |-> "none"]

Init ==
  /\ target \in {NoDir, [Release(1) EXCEPT !.deps = TRUE, !.old = TRUE]}
  /\ staging = NoDir /\ backup = NoDir
  /\ saved = IF Located(target) THEN 1 ELSE 0
  /\ repo \in 0..1
  /\ head = 1
  /\ job = [w \in Workers |-> Idle]
  /\ installed = Located(target)
  /\ bounds = [ops |-> 0, faults |-> 0, crashes |-> 0, prunes |-> 0]

-----------------------------------------------------------------------------

At(w, pc) == job[w].pc = pc
Goto(w, pc) == job' = [job EXCEPT ![w].pc = pc]
Report(w, result) == job' = [job EXCEPT ![w].pc = "idle", ![w].result = result]
Fault == bounds.faults < MaxFaults /\ bounds' = [bounds EXCEPT !.faults = @ + 1]

Stages(op) == op \in {"install", "update"}

\* An operation whose callback was lost does nothing more.
Active(w) == ~At(w, "idle") /\ ~At(w, "lost")
Installing(w) == Stages(job[w].op) /\ Active(w)

\* A request from the preferences or a CLI command.  An install has no record
\* to compare with, so it stages first and resolves the commit afterwards.
Begin(w, op) ==
  /\ At(w, "idle") /\ bounds.ops < MaxOps
  /\ op # "install" => Located(target)
  /\ Stages(op) => \A v \in Workers : ~Installing(v)
  /\ bounds' = [bounds EXCEPT !.ops = @ + 1]
  /\ job' = [job EXCEPT ![w] = [Idle EXCEPT
               !.op = op, !.since = head, !.before = target,
               !.pc = CASE op = "install" -> "stage" [] op = "uninstall" -> "remove"
                        [] OTHER -> "resolve"]]
  /\ UNCHANGED <<dirs, saved, repo, head, installed>>

\* fail: the staging directory goes with the operation.
Abort(w) ==
  /\ staging' = IF job[w].op = "install" \/ ~At(w, "resolve") THEN NoDir ELSE staging
  /\ Report(w, "error")
  /\ UNCHANGED <<target, backup, saved, repo, head, installed, bounds>>

\* _BareRepo._fetch: fetch, or clone afresh.
Fetch(w) ==
  /\ At(w, "resolve") \/ At(w, "download")
  /\ ~job[w].synced
  /\ repo' = head
  /\ job' = [job EXCEPT ![w].synced = TRUE]
  /\ UNCHANGED <<dirs, saved, head, installed, bounds>>

\* Mutant: an existing clone counts as fetched.
CompatibleHashCached(w) == IF repo # 0 THEN {repo} ELSE {head}

\* get_compatible_hash: ls-remote of the fetched clone, or the HTTP refs.
CompatibleHash(w) == IF job[w].synced THEN {repo} ELSE {head}

\* on_hash and on_checked: what the operation does with the resolved commit.
Resolve(w) ==
  \E c \in CompatibleHash(w) :
    LET j == [job[w] EXCEPT !.commit = c]
    IN  /\ At(w, "resolve")
        /\ job' = [job EXCEPT ![w] =
             CASE j.op = "install" -> [j EXCEPT !.pc = "download"]
               [] j.op # "install" /\ c = saved -> [j EXCEPT !.pc = "idle", !.result = "same"]
               [] j.op = "check" /\ c # saved -> [j EXCEPT !.pc = "idle", !.result = "newer"]
               [] OTHER -> [j EXCEPT !.pc = "stage", !.synced = FALSE]]
        /\ UNCHANGED <<dirs, saved, repo, head, installed, bounds>>

\* Mutant: a staging directory that could not be cleared is used as it is.
StageOver(w) ==
  /\ At(w, "stage")
  /\ Goto(w, IF job[w].commit = 0 THEN "resolve" ELSE "download")
  /\ staging' = IF staging.there THEN staging ELSE Empty
  /\ UNCHANGED <<target, backup, saved, repo, head, installed, bounds>>

\* Mutant: an install downloads without resolving a commit.
StageUnresolved(w) ==
  /\ At(w, "stage")
  /\ staging' = Empty
  /\ Goto(w, "download")
  /\ UNCHANGED <<target, backup, saved, repo, head, installed, bounds>>

\* _install_from_remote clears the staging directory, ignoring errors; mkdir
\* refuses one that is left, and can fail by itself.
Stage(w) ==
  /\ At(w, "stage")
  /\ \/ /\ staging' = Empty
        /\ Goto(w, IF job[w].commit = 0 THEN "resolve" ELSE "download")
        /\ UNCHANGED bounds
     \/ /\ Fault
        /\ Report(w, "error")
        /\ staging' \in {staging, NoDir}
  /\ UNCHANGED <<target, backup, saved, repo, head, installed>>

\* _extract_and_install replaces the staging directory with the archive's,
\* which has the commit's time.
Extract(w) ==
  /\ At(w, "download")
  /\ \E old \in BOOLEAN : staging' = [Release(job[w].commit) EXCEPT !.old = old]
  /\ Goto(w, "deps")
  /\ UNCHANGED <<target, backup, saved, repo, head, installed, bounds>>

\* Mutant: the newest commit is checked out, not the one that was resolved.
CheckoutNewest(w) ==
  /\ At(w, "download")
  /\ job[w].synced
  /\ staging' = Release(repo)
  /\ Goto(w, "deps")
  /\ UNCHANGED <<target, backup, saved, repo, head, installed, bounds>>

\* git checkout writes the commit into whatever the work tree holds.
Checkout(w) ==
  /\ At(w, "download")
  /\ job[w].synced /\ job[w].commit <= repo
  /\ staging' = [staging EXCEPT !.there = TRUE, !.old = FALSE, !.files = @ \cup {job[w].commit}]
  /\ Goto(w, "deps")
  /\ UNCHANGED <<target, backup, saved, repo, head, installed, bounds>>

\* ExtensionDependencies.install: with requirements, pip makes .dependencies;
\* without, there is nothing to do.  A staging directory that was pruned has no
\* requirements, or pip had read them already and makes it again.
InstallDeps(w) ==
  /\ At(w, "deps")
  /\ IF staging.there
     THEN \E old \in {staging.old, FALSE} : staging' = [staging EXCEPT !.deps = TRUE, !.old = old]
     ELSE staging' \in {staging, [Empty EXCEPT !.deps = TRUE]}
  /\ Goto(w, "stop")
  /\ UNCHANGED <<target, backup, saved, repo, head, installed, bounds>>

\* A command of the chain fails, or the archive or commit is unusable.
Fail(w) ==
  /\ job[w].pc \in {"resolve", "download", "deps"}
  /\ Abort(w)

\* An exception none of the handlers takes ends the caller or the Gio callback,
\* and neither on_success nor on_error runs: the temporary file for the refs or
\* the archive cannot be made, the archive is cut short (EOFError, zlib.error),
\* the requirements are not text.
Escape(w) ==
  /\ job[w].pc \in {"resolve", "download", "deps"}
  /\ Goto(w, "lost")
  /\ UNCHANGED <<dirs, saved, repo, head, installed, bounds>>

\* The extension's process has stopped.
Stopped(w) ==
  /\ At(w, "stop")
  /\ Goto(w, "back up")
  /\ UNCHANGED <<dirs, saved, repo, head, installed, bounds>>

-----------------------------------------------------------------------------
(* _swap_dir, one move at a time.                                          *)

\* Mutant: the target is deleted to make room.
BackUpRemoving(w) ==
  /\ At(w, "back up")
  /\ target' = NoDir /\ backup' = NoDir
  /\ job' = [job EXCEPT ![w].pc = "replace", ![w].backedUp = FALSE]
  /\ UNCHANGED <<staging, saved, repo, head, installed, bounds>>

\* The moves keep a directory's time.  A backup that could not be cleared gets
\* the target nested inside.
BackUp(w) ==
  /\ At(w, "back up")
  /\ \/ /\ backup' = target
        /\ UNCHANGED bounds
     \/ /\ backup.there /\ Fault
        /\ backup' = [backup EXCEPT !.torn = TRUE, !.old = FALSE, !.files = @ \cup target.files]
  /\ target' = NoDir
  /\ job' = [job EXCEPT ![w].pc = "replace", ![w].backedUp = target.there]
  /\ UNCHANGED <<staging, saved, repo, head, installed>>

\* The current version cannot be moved: it stays.
BackUpFails(w) ==
  /\ At(w, "back up") /\ target.there /\ Fault
  /\ backup' = NoDir /\ staging' = NoDir
  /\ Report(w, "error")
  /\ UNCHANGED <<target, saved, repo, head, installed>>

Replace(w) ==
  /\ At(w, "replace") /\ staging.there
  /\ target' = staging /\ staging' = NoDir
  /\ installed' = TRUE
  /\ Goto(w, "save")
  /\ UNCHANGED <<backup, saved, repo, head, bounds>>

\* A move fails, or there is nothing to move any more.
MoveFails(d) == Fault \/ (~d.there /\ UNCHANGED bounds)

\* Mutant: the flag says whether a backup could be needed, not whether it was made.
ReplaceFailsForgetting(w) ==
  /\ At(w, "replace") /\ MoveFails(staging)
  /\ target' = NoDir /\ staging' = NoDir
  /\ Report(w, "error")
  /\ UNCHANGED <<backup, saved, repo, head, installed>>

ReplaceFails(w) ==
  /\ At(w, "replace") /\ MoveFails(staging)
  /\ target' = NoDir
  /\ IF job[w].backedUp THEN Goto(w, "restore") /\ UNCHANGED staging
     ELSE Report(w, "error") /\ staging' = NoDir
  /\ UNCHANGED <<backup, saved, repo, head, installed>>

\* Mutant: the move is tried until it succeeds.
RestoreInsisting(w) ==
  /\ At(w, "restore") /\ backup.there
  /\ target' = backup /\ backup' = NoDir /\ staging' = NoDir
  /\ Report(w, "error")
  /\ UNCHANGED <<saved, repo, head, installed, bounds>>

Restore(w) ==
  /\ At(w, "restore")
  /\ \/ backup.there /\ target' = backup /\ backup' = NoDir /\ UNCHANGED bounds
     \/ MoveFails(backup) /\ UNCHANGED <<target, backup>>
  /\ staging' = NoDir
  /\ Report(w, "error")
  /\ UNCHANGED <<saved, repo, head, installed>>

\* The end of _swap_dir and save_installed_state.  A manifest that is not there
\* reads as an empty one, one that is can be rejected; that state.save could
\* not write is not looked at.  (The app's memory then has the new hash, and
\* `saved` is what the CLI and the next start read.)
Save(w) ==
  /\ At(w, "save")
  /\ backup' = NoDir
  /\ \/ saved' = job[w].commit /\ Report(w, "ok") /\ UNCHANGED bounds
     \/ Fault /\ Report(w, "ok") /\ UNCHANGED saved
     \/ target.there /\ Report(w, "error") /\ UNCHANGED <<saved, bounds>>
  /\ UNCHANGED <<target, staging, repo, head, installed>>

\* ExtensionRecord.remove deletes the files: what is no longer an extension is
\* left alone; a removal that fails half-way leaves a torn directory.
Remove(w) ==
  /\ At(w, "remove")
  /\ \/ /\ Located(target)
        /\ target' = NoDir /\ installed' = FALSE
        /\ job' = [v \in Workers |-> IF v = w THEN [job[w] EXCEPT !.pc = "unlink"]
                                     ELSE [job[v] EXCEPT !.before = NoDir]]
        /\ UNCHANGED bounds
     \/ /\ Located(target) /\ Fault
        /\ \E left \in SUBSET target.files :
             target' = [target EXCEPT !.torn = TRUE, !.old = FALSE, !.files = left]
        /\ job' = [v \in Workers |-> IF v = w THEN [job[w] EXCEPT !.pc = "idle", !.result = "error"]
                                     ELSE [job[v] EXCEPT !.before = target']]
        /\ UNCHANGED installed
     \/ ~Located(target) /\ Report(w, "ok") /\ UNCHANGED <<target, installed, bounds>>
  /\ UNCHANGED <<staging, backup, saved, repo, head>>

\* ... and then its state file.
Unlink(w) ==
  /\ At(w, "unlink")
  /\ \/ saved' = 0 /\ Report(w, "ok") /\ UNCHANGED bounds
     \/ Fault /\ Report(w, "error") /\ UNCHANGED saved
  /\ UNCHANGED <<dirs, repo, head, installed>>

-----------------------------------------------------------------------------

\* The process of the operation dies, in the middle of what it writes.
Crash(w) ==
  /\ ~At(w, "idle") /\ bounds.crashes < MaxCrashes
  /\ bounds' = [bounds EXCEPT !.crashes = @ + 1]
  /\ job' = [job EXCEPT ![w] = Idle]
  /\ \/ /\ At(w, "download") \/ At(w, "deps")
        /\ \E got \in SUBSET {job[w].commit} :
             staging' = [staging EXCEPT !.there = TRUE, !.torn = TRUE, !.old = FALSE,
                                        !.files = @ \cup got]
     \/ UNCHANGED staging
  /\ UNCHANGED <<target, backup, saved, repo, head, installed>>

\* An hour passes.  No operation takes that long.
Aged(d) == IF d.there THEN [d EXCEPT !.old = TRUE] ELSE d
HourPasses ==
  /\ \A w \in Workers : ~Installing(w)
  /\ \E d \in {target, staging, backup} : d.there /\ ~d.old
  /\ target' = Aged(target) /\ staging' = Aged(staging) /\ backup' = Aged(backup)
  /\ UNCHANGED <<saved, repo, head, job, installed, bounds>>

\* app._cleanup, when an app quits: an entry of the staging directory that
\* looks old, whatever the operations of another process are doing with it.
Prune ==
  /\ \/ staging.there /\ staging.old /\ staging' = NoDir /\ UNCHANGED backup
     \/ backup.there /\ backup.old /\ backup' = NoDir /\ UNCHANGED staging
  /\ IF \E w \in Workers : Installing(w)
     THEN bounds.prunes < MaxPrunes /\ bounds' = [bounds EXCEPT !.prunes = @ + 1]
     ELSE UNCHANGED bounds
  /\ UNCHANGED <<target, saved, repo, head, job, installed>>

\* The upstream moves on.
Push ==
  /\ head < MaxCommits
  /\ head' = head + 1
  /\ UNCHANGED <<dirs, saved, repo, job, installed, bounds>>

Step(w) ==
  \/ Fetch(w) \/ Resolve(w) \/ Stage(w) \/ Extract(w) \/ Checkout(w) \/ InstallDeps(w)
  \/ Fail(w) \/ Stopped(w) \/ BackUp(w) \/ BackUpFails(w) \/ Replace(w) \/ ReplaceFails(w)
  \/ Restore(w) \/ Save(w) \/ Remove(w) \/ Unlink(w)

Next ==
  \/ \E w \in Workers :
       \/ \E op \in {"install", "update", "check", "uninstall"} : Begin(w, op)
       \/ Step(w)
       \/ Escape(w)
       \/ Crash(w)
  \/ HourPasses
  \/ Prune
  \/ Push

Spec == Init /\ [][Next]_vars

\* A subprocess that was started ends, and its callback is dispatched.
FairSpec == Spec /\ \A w \in Workers : WF_vars(Step(w))

-----------------------------------------------------------------------------

\* Types, and the bounds of what is counted.
TypeOK ==
  /\ {target, staging, backup} \subseteq Dirs
  /\ \A d \in {target, staging, backup} : Located(d) => d.there
  /\ saved \in 0..MaxCommits /\ repo \in 0..head /\ head \in Commits /\ installed \in BOOLEAN
  /\ \A w \in Workers :
       /\ job[w].commit \in 0..MaxCommits
       /\ job[w].pc \in {"idle", "resolve", "stage", "download", "deps", "stop", "back up",
                         "replace", "restore", "save", "remove", "unlink", "lost"}
       /\ job[w].result \in {"none", "ok", "same", "newer", "error"}
  /\ bounds.ops <= MaxOps /\ bounds.faults <= MaxFaults
  /\ bounds.crashes <= MaxCrashes /\ bounds.prunes <= MaxPrunes

\* Whatever failed, crashed or was pruned before, an extension that is found is
\* one release with its dependencies, unless removing it failed half-way.
LocatedIsWhole == Located(target) /\ ~target.torn => Whole(target)

Kept(d) == Whole(d) \/ d.torn

\* At every instant of every operation an installed extension has a whole copy
\* at its place or in the backup, so a crash there leaves one; one failing
\* call of the file system does not lose it either.
LastCopySurvives ==
  installed /\ bounds.crashes = 0 /\ bounds.prunes = 0 /\ bounds.faults <= 1 =>
    Kept(target) \/ Kept(backup)

\* The clean-up of a quitting app spares what an ongoing operation needs: when
\* no call fails, the extension is somewhere.
CleanupSparesOngoing ==
  installed /\ bounds.crashes = 0 /\ bounds.faults = 0 =>
    Kept(target) \/ Kept(backup) \/ Kept(staging)

\* An install or update that fails before the new version is in place leaves
\* the copy that was there, whichever step failed, also when the clean-up took
\* what it had staged.
FailureKeepsTarget ==
  [][\A w \in Workers :
       Installing(w) /\ ~At(w, "save") /\ job'[w].pc = "idle" /\ job'[w].result = "error"
           /\ bounds'.faults + bounds'.prunes <= 1
         => target' = job[w].before]_vars

\* A success means that the resolved commit, at least as new as the upstream
\* was when the operation began, is in place, unless it was uninstalled after
\* the swap; and that it is the saved one, unless the state could not be written.
SuccessIsInstalled ==
  [][\A w \in Workers :
       Installing(w) /\ job'[w].pc = "idle" /\ job'[w].result = "ok" /\ bounds.prunes = 0
         => /\ job[w].commit >= job[w].since
            /\ installed => target'.torn \/ (Whole(target') /\ target'.files = {job[w].commit})
            /\ saved' = job[w].commit \/ bounds' # bounds]_vars

\* "Up to date" is said of a commit that was upstream's newest at some time
\* during the operation, not of what an earlier fetch left in the clone.
UpToDateIsTrue ==
  [][\A w \in Workers :
       ~At(w, "idle") /\ job'[w].pc = "idle" /\ job'[w].result = "same"
         => saved >= job[w].since]_vars

\* Every operation comes to its report, whatever fails, unless an exception
\* that nothing catches ends its callback.
OperationsEnd == \A w \in Workers : ~At(w, "idle") ~> At(w, "idle") \/ At(w, "lost")

\* A download reports to its on_success or on_error, so that no failure leaves
\* the dialog or the CLI waiting.
DownloadsReport == \A w \in Workers : At(w, "download") ~> At(w, "deps") \/ At(w, "idle")
=============================================================================
