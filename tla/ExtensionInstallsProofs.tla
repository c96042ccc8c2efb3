----------------------- MODULE ExtensionInstallsProofs -----------------------
(***************************************************************************)
(* Proofs about ExtensionInstalls, for any workers and bounds: types, that *)
(* what is found at the extension's place is one whole release, what an    *)
(* operation that reports has done, and that no failure loses the copy     *)
(* that was installed.                                                     *)
(***************************************************************************)
EXTENDS ExtensionInstalls, FiniteSetTheorems, TLAPS

Ops == {"none", "install", "update", "check", "uninstall"}
Pcs == {"idle", "resolve", "stage", "download", "deps", "stop", "back up",
        "replace", "restore", "save", "remove", "unlink", "lost"}
Results == {"none", "ok", "same", "newer", "error"}
Jobs == [pc: Pcs, op: Ops, commit: 0..MaxCommits, synced: BOOLEAN,
         since: 0..MaxCommits, before: Dirs, backedUp: BOOLEAN, result: Results]

Bounds == [ops: 0..MaxOps, faults: 0..MaxFaults, crashes: 0..MaxCrashes, prunes: 0..MaxPrunes]

\* The types of TypeOK, with the records they are about.
Types ==
  /\ target \in Dirs /\ staging \in Dirs /\ backup \in Dirs
  /\ Located(target) => target.there
  /\ Located(staging) => staging.there
  /\ Located(backup) => backup.there
  /\ saved \in 0..MaxCommits /\ repo \in 0..head /\ head \in Commits /\ installed \in BOOLEAN
  /\ job \in [Workers -> Jobs]
  /\ bounds \in Bounds

\* Which operations get where.
OpInv ==
  \A w \in Workers :
    /\ job[w].pc \in {"stage", "download", "deps", "stop", "back up", "replace", "restore", "save"}
         => Stages(job[w].op)
    /\ job[w].pc = "resolve" => job[w].op \in {"install", "update", "check"}
    /\ job[w].pc \in {"remove", "unlink"} => job[w].op = "uninstall"
    /\ job[w].pc \in {"download", "deps", "stop", "back up", "replace", "save"}
         => job[w].commit \in Commits

\* One operation uses the staging directory.
OneStages == \A v, w \in Workers : v # w => ~Installing(v) \/ ~Installing(w)

\* What a download leaves of the commit c, and what pip makes of it.  The
\* clean-up may have taken it: then there is nothing, or what pip made anew.
Downloaded(d, c) == d = NoDir \/ \E o \in BOOLEAN : d = [Release(c) EXCEPT !.old = o]
Ready(d, c) ==
  \/ d = NoDir \/ d = [Empty EXCEPT !.deps = TRUE]
  \/ \E o \in BOOLEAN : d = [Release(c) EXCEPT !.deps = TRUE, !.old = o]

\* What an operation has staged, s, and placed, t, by then; n counts what the
\* clean-up took.
Finds(j, s, t, n, i) ==
  /\ j.pc = "download" \/ (j.pc = "resolve" /\ j.op = "install") => s = Empty
  /\ j.pc = "deps" => Downloaded(s, j.commit)
  /\ j.pc \in {"stop", "back up", "replace"} => Ready(s, j.commit)
  /\ j.pc \in {"deps", "stop", "back up", "replace"} /\ n = 0 => Located(s)
  /\ j.pc = "save" =>
       /\ t.files \subseteq {j.commit}
       /\ n = 0 /\ i => Located(t) \/ t.torn

Staged == \A w \in Workers : Finds(job[w], staging, target, bounds.prunes, installed)

\* What a worker has fetched is upstream's newest of some time since it began,
\* and so is what it has resolved.
Fetched ==
  \A w \in Workers :
    /\ job[w].since <= head
    /\ job[w].synced => repo # 0 /\ job[w].since <= repo
    /\ job[w].commit # 0 => job[w].since <= job[w].commit

Sound(d) == Located(d) /\ ~d.torn => Whole(d)

\* The target and the backup are whole releases, or torn, or none.
Placed == Sound(target) /\ Sound(backup)

InstallsInv == Types /\ OpInv /\ OneStages /\ Fetched /\ Staged /\ Placed

-----------------------------------------------------------------------------
(* Directories. *)

LEMMA DirFacts ==
  ASSUME NEW c \in Commits
  PROVE  /\ NoDir \in Dirs /\ Empty \in Dirs /\ Release(c) \in Dirs
         /\ [Empty EXCEPT !.deps = TRUE] \in Dirs
         /\ NoDir.files = {} /\ Empty.files = {} /\ Release(c).files = {c}
         /\ [Empty EXCEPT !.deps = TRUE].files = {} /\ [Empty EXCEPT !.deps = TRUE].there
         /\ ~NoDir.there /\ Empty.there /\ Release(c).there
BY DEF Dirs, NoDir, Empty, Release

LEMMA DownloadedFacts ==
  ASSUME NEW c \in Commits, NEW d, Downloaded(d, c)
  PROVE  /\ d \in Dirs /\ (Located(d) => d.there) /\ d.files \subseteq {c}
         /\ d.there => Located(d)
         /\ d.there => \E o \in BOOLEAN : d = [Release(c) EXCEPT !.old = o]
<1>1. CASE d = NoDir
  BY <1>1 DEF NoDir, Dirs, Located
<1>2. ASSUME NEW o \in BOOLEAN, d = [Release(c) EXCEPT !.old = o]
      PROVE  d \in Dirs /\ d.there /\ d.files = {c}
  BY <1>2 DEF Release, Empty, NoDir, Dirs
<1>. QED  BY <1>1, <1>2 DEF Downloaded, Located

LEMMA ReadyRelease ==
  ASSUME NEW c \in Commits, NEW o \in BOOLEAN
  PROVE  LET d == [Release(c) EXCEPT !.deps = TRUE, !.old = o]
         IN  d \in Dirs /\ d.there /\ d.files = {c} /\ ~d.torn /\ Whole(d)
<1>1. Cardinality({c}) = 1
  BY FS_Singleton
<1>. QED  BY <1>1 DEF Whole, Located, Release, Empty, NoDir, Dirs

LEMMA ReadyFacts ==
  ASSUME NEW c \in Commits, NEW d, Ready(d, c)
  PROVE  /\ d \in Dirs /\ (Located(d) => d.there) /\ d.files \subseteq {c} /\ Sound(d)
         /\ Located(d) => Whole(d)
<1>1. CASE d = NoDir \/ d = [Empty EXCEPT !.deps = TRUE]
  BY <1>1, DirFacts DEF Located, Sound
<1>2. ASSUME NEW o \in BOOLEAN, d = [Release(c) EXCEPT !.deps = TRUE, !.old = o]
      PROVE  d \in Dirs /\ d.there /\ d.files = {c} /\ Whole(d)
  BY <1>2, ReadyRelease
<1>. QED  BY <1>1, <1>2 DEF Ready, Located, Sound

LEMMA NothingIsSound == Sound(NoDir)
BY DEF Sound, Located, NoDir

-----------------------------------------------------------------------------
(* The invariant holds initially, and every action keeps it.               *)

LEMMA IdleIsJob == Idle \in Jobs
<1>1. NoDir \in Dirs
  BY DEF NoDir, Dirs
<1>. QED  BY <1>1, InstallsAssumption DEF Idle, Jobs, Ops, Pcs, Results

LEMMA InitInstalls == Init => InstallsInv
<1>. SUFFICES ASSUME Init PROVE InstallsInv
  OBVIOUS
<1>. USE InstallsAssumption
<1>1. 1 \in Commits
  BY DEF Commits
<1>. DEFINE first == [Release(1) EXCEPT !.deps = TRUE, !.old = TRUE]
<1>2. target \in {NoDir, first} /\ staging = NoDir /\ backup = NoDir
  BY DEF Init
<1>a. /\ NoDir \in Dirs /\ first \in Dirs /\ NoDir.files = {} /\ first.files = {1} /\ first.there
      /\ Whole(first)
  BY <1>1, DirFacts, ReadyRelease
<1>. HIDE DEF first
<1>4. Types
  <2>1. target \in {NoDir, first} /\ staging = NoDir /\ backup = NoDir
    BY <1>2
  <2>2. saved \in 0..MaxCommits /\ repo \in 0..head /\ head \in Commits /\ installed \in BOOLEAN
    BY DEF Init, Commits, Located
  <2>3. job \in [Workers -> Jobs]
    BY IdleIsJob DEF Init
  <2>4. bounds \in Bounds
    BY DEF Init, Bounds
  <2>. QED  BY <1>a, <2>1, <2>2, <2>3, <2>4 DEF Types, Located
<1>b. \A w \in Workers : /\ job[w].pc = "idle" /\ job[w].since = 0 /\ job[w].synced = FALSE
                        /\ job[w].commit = 0
  BY DEF Init, Idle
<1>5. OpInv /\ OneStages /\ Staged
  BY <1>b DEF OpInv, OneStages, Staged, Finds, Installing, Active, At
<1>7. Fetched
  BY <1>b DEF Init, Fetched
<1>6. Placed
  BY <1>2, <1>a, NothingIsSound DEF Sound, Placed
<1>. QED  BY <1>4, <1>5, <1>6, <1>7 DEF InstallsInv

LEMMA BeginKeeps ==
  ASSUME InstallsInv, NEW w \in Workers,
         NEW op \in {"install", "update", "check", "uninstall"}, Begin(w, op)
  PROVE  InstallsInv'
<1>. USE InstallsAssumption
<1>. DEFINE pc == CASE op = "install" -> "stage" [] op = "uninstall" -> "remove"
                    [] OTHER -> "resolve"
            j == [Idle EXCEPT !.op = op, !.since = head, !.before = target, !.pc = pc]
<1>1. /\ job' = [job EXCEPT ![w] = j]
      /\ UNCHANGED <<dirs, saved, repo, head, installed>>
  BY DEF Begin
<1>2. /\ j.op = op /\ j.since = head /\ j.before = target /\ j.pc = pc
      /\ j.commit = 0 /\ j.synced = FALSE
  BY DEF Idle
<1>3. pc \in {"stage", "remove", "resolve"} /\ (pc = "stage" => op = "install")
        /\ (pc = "remove" => op = "uninstall") /\ (pc = "resolve" => op \in {"update", "check"})
  OBVIOUS
<1>. HIDE DEF pc
<1>4. j \in Jobs
  <2>1. head \in 0..MaxCommits /\ target \in Dirs /\ op \in Ops /\ pc \in Pcs
    <3>1. head \in 0..MaxCommits
      BY DEF InstallsInv, Types, Commits
    <3>2. target \in Dirs
      BY DEF InstallsInv, Types
    <3>3. op \in Ops
      BY DEF Ops
    <3>4. pc \in Pcs
      BY <1>3 DEF Pcs
    <3>. QED  BY <3>1, <3>2, <3>3, <3>4
  <2>2. [Idle EXCEPT !.op = op, !.since = head] \in Jobs
    BY <2>1, IdleIsJob DEF Jobs
  <2>. QED  BY <2>1, <2>2, IdleIsJob DEF Jobs
<1>. HIDE DEF j
<1>5. Types'
  <2>1. bounds' \in Bounds
    BY DEF Begin, InstallsInv, Types, Bounds
  <2>. QED  BY <1>1, <1>4, <2>1 DEF InstallsInv, Types, dirs, Located
<1>6. OpInv'
  BY <1>1, <1>2, <1>3 DEF InstallsInv, Types, OpInv, Stages
<1>7. OneStages'
  <2>1. Stages(op) => \A v \in Workers : ~Installing(v)
    BY DEF Begin
  <2>2. job'[w] = j /\ \A v \in Workers : v # w => job'[v] = job[v]
    BY <1>1 DEF InstallsInv, Types
  <2>. QED  BY <1>2, <2>1, <2>2 DEF InstallsInv, OneStages, Installing, Active, At, Stages
<1>8. Fetched'
  BY <1>1, <1>2 DEF InstallsInv, Types, Fetched, Commits
<1>9. Staged'
  <2>1. bounds'.prunes = bounds.prunes
    BY DEF Begin, InstallsInv, Types, Bounds
  <2>2. job'[w] = j /\ \A v \in Workers : v # w => job'[v] = job[v]
    BY <1>1 DEF InstallsInv, Types
  <2>3. Finds(j, staging, target, bounds.prunes, installed)
    BY <1>2, <1>3 DEF Finds
  <2>. QED  BY <1>1, <2>1, <2>2, <2>3 DEF InstallsInv, Staged, dirs
<1>10. Placed'
  BY <1>1 DEF InstallsInv, Placed, dirs, Sound, Located, Whole
<1>. QED  BY <1>5, <1>6, <1>7, <1>8, <1>9, <1>10 DEF InstallsInv

\* A worker moves on, from job[w] to j, with the same operation.
Moves(w, j) ==
  /\ j \in Jobs
  /\ job' = [job EXCEPT ![w] = j]
  /\ Active(w) /\ j.op = job[w].op /\ j.since = job[w].since
  /\ j.commit = job[w].commit \/ j.since <= j.commit
  /\ j.pc \in {"stage", "download", "deps", "stop", "back up", "replace", "restore", "save"}
       => Stages(j.op)
  /\ j.pc = "resolve" => j.op \in {"install", "update", "check"}
  /\ j.pc \in {"remove", "unlink"} => j.op = "uninstall"
  /\ j.pc \in {"download", "deps", "stop", "back up", "replace", "save"}
       => j.commit \in Commits

LEMMA MoveKeepsJobs ==
  ASSUME InstallsInv, NEW w \in Workers, NEW j, Moves(w, j), UNCHANGED head,
         repo' = repo \/ repo' = head,
         j.synced => job[w].synced \/ repo' = head
  PROVE  job' \in [Workers -> Jobs] /\ OpInv' /\ OneStages' /\ Fetched'
<1>. USE InstallsAssumption
<1>1. job \in [Workers -> Jobs] /\ head \in 1..MaxCommits /\ repo \in 0..head
  BY DEF InstallsInv, Types, Commits
<1>2. job' \in [Workers -> Jobs] /\ job'[w] = j
        /\ \A v \in Workers : v # w => job'[v] = job[v]
  BY <1>1 DEF Moves
<1>3. OpInv'
  BY <1>2 DEF InstallsInv, OpInv, Moves, Stages
<1>4. OneStages'
  BY <1>2 DEF InstallsInv, OneStages, Moves, Stages, Installing, Active, At
<1>5. Fetched'
  <2>. SUFFICES ASSUME NEW v \in Workers
                PROVE  /\ job'[v].since <= head
                       /\ job'[v].synced => repo' # 0 /\ job'[v].since <= repo'
                       /\ job'[v].commit # 0 => job'[v].since <= job'[v].commit
    BY DEF Fetched
  <2>1. job[v].since \in 0..MaxCommits
    BY <1>1 DEF Jobs
  <2>2. /\ job[v].since <= head /\ (job[v].synced => repo # 0 /\ job[v].since <= repo)
        /\ job[v].commit # 0 => job[v].since <= job[v].commit
    BY DEF InstallsInv, Fetched
  <2>3. /\ job'[v].since = job[v].since /\ (job'[v].synced => job[v].synced \/ repo' = head)
        /\ job'[v].commit = job[v].commit \/ job'[v].since <= job'[v].commit
    BY <1>2 DEF Moves
  <2>. QED  BY <1>1, <2>1, <2>2, <2>3
<1>. QED  BY <1>2, <1>3, <1>4, <1>5

\* Only the one that stages changes the staging directory and the target.
LEMMA MoveKeepsDirs ==
  ASSUME InstallsInv, NEW w \in Workers, NEW j, Moves(w, j),
         Stages(job[w].op) \/ UNCHANGED <<staging, target, installed>>,
         bounds'.prunes = bounds.prunes,
         Finds(j, staging', target', bounds'.prunes, installed')
  PROVE  Staged'
<1>1. job \in [Workers -> Jobs]
  BY DEF InstallsInv, Types
<1>2. job'[w] = j /\ \A v \in Workers : v # w => job'[v] = job[v]
  BY <1>1 DEF Moves
<1>3. ASSUME NEW v \in Workers
      PROVE  Finds(job'[v], staging', target', bounds'.prunes, installed')
  <2>1. CASE v = w
    BY <1>2, <2>1
  <2>2. CASE v # w /\ UNCHANGED <<staging, target, installed>>
    <3>1. Finds(job[v], staging, target, bounds.prunes, installed)
      BY DEF InstallsInv, Staged
    <3>. QED  BY <1>2, <2>2, <3>1
  <2>3. CASE v # w /\ Stages(job[w].op)
    <3>1. ~Installing(v)
      BY <2>3 DEF InstallsInv, OneStages, Moves, Installing
    <3>2. job[v].pc \notin {"download", "deps", "stop", "back up", "replace", "save"}
            /\ ~(job[v].pc = "resolve" /\ job[v].op = "install")
      BY <3>1 DEF InstallsInv, OpInv, Stages, Installing, Active, At
    <3>. QED  BY <1>2, <2>3, <3>2 DEF Finds
  <2>. QED  BY <2>1, <2>2, <2>3
<1>. QED  BY <1>3 DEF Staged

\* The rest of the invariant: the directories and what is counted.
DirsOK ==
  /\ target \in Dirs /\ staging \in Dirs /\ backup \in Dirs
  /\ Located(target) => target.there
  /\ Located(staging) => staging.there
  /\ Located(backup) => backup.there
  /\ Sound(target) /\ Sound(backup)
CountsOK ==
  /\ saved \in 0..MaxCommits /\ repo \in 0..head /\ head \in Commits /\ installed \in BOOLEAN
  /\ bounds \in Bounds

LEMMA PartsOK == InstallsInv => DirsOK /\ CountsOK
BY DEF InstallsInv, Types, Placed, DirsOK, CountsOK

LEMMA MoveKeeps ==
  ASSUME InstallsInv, NEW w \in Workers, NEW j, Moves(w, j), UNCHANGED head,
         repo' = repo \/ repo' = head,
         j.synced => job[w].synced \/ repo' = head,
         Stages(job[w].op) \/ UNCHANGED <<staging, target, installed>>,
         bounds'.prunes = bounds.prunes,
         Finds(j, staging', target', bounds'.prunes, installed'),
         DirsOK', CountsOK'
  PROVE  InstallsInv'
<1>1. job' \in [Workers -> Jobs] /\ OpInv' /\ OneStages' /\ Fetched'
  BY MoveKeepsJobs
<1>2. Staged'
  BY MoveKeepsDirs
<1>3. Types'
  BY <1>1 DEF DirsOK, CountsOK, Types
<1>4. Placed'
  BY DEF DirsOK, Placed
<1>. QED  BY <1>1, <1>2, <1>3, <1>4 DEF InstallsInv

\* A worker that goes on to a point of its chain, and one that reports.
LEMMA GotoFacts ==
  ASSUME InstallsInv, NEW w \in Workers, NEW pc \in Pcs
  PROVE  LET j == [job[w] EXCEPT !.pc = pc]
         IN  /\ j \in Jobs /\ j.pc = pc /\ j.op = job[w].op /\ j.since = job[w].since
             /\ j.commit = job[w].commit /\ j.synced = job[w].synced
             /\ [job EXCEPT ![w].pc = pc] = [job EXCEPT ![w] = j]
<1>1. job \in [Workers -> Jobs]
  BY DEF InstallsInv, Types
<1>. QED  BY <1>1 DEF Jobs

LEMMA ReportFacts ==
  ASSUME InstallsInv, NEW w \in Workers, NEW r \in Results
  PROVE  LET j == [job[w] EXCEPT !.pc = "idle", !.result = r]
         IN  /\ j \in Jobs /\ j.pc = "idle" /\ j.op = job[w].op /\ j.since = job[w].since
             /\ j.synced = job[w].synced /\ j.commit = job[w].commit
             /\ [job EXCEPT ![w].pc = "idle", ![w].result = r] = [job EXCEPT ![w] = j]
<1>1. job \in [Workers -> Jobs]
  BY DEF InstallsInv, Types
<1>2. "idle" \in Pcs
  BY DEF Pcs
<1>. QED  BY <1>1, <1>2 DEF Jobs

-----------------------------------------------------------------------------
(* The actions. *)

\* A move that leaves the directories and what is counted alone.
LEMMA SameParts ==
  ASSUME InstallsInv, UNCHANGED <<dirs, saved, repo, head, installed, bounds>>
  PROVE  DirsOK' /\ CountsOK'
<1>1. DirsOK /\ CountsOK
  BY PartsOK
<1>. QED  BY <1>1 DEF DirsOK, CountsOK, dirs, Located, Sound, Whole

\* A failing call is counted within its bound.
LEMMA FaultCounts ==
  ASSUME InstallsInv, Fault \/ UNCHANGED bounds, UNCHANGED <<repo, head>>,
         saved' \in 0..MaxCommits, installed' \in BOOLEAN
  PROVE  CountsOK' /\ bounds'.prunes = bounds.prunes
<1>. USE InstallsAssumption
<1>1. CountsOK
  BY PartsOK
<1>2. bounds' \in Bounds /\ bounds'.prunes = bounds.prunes
  BY <1>1 DEF CountsOK, Fault, Bounds
<1>. QED  BY <1>1, <1>2 DEF CountsOK

LEMMA FetchKeeps ==
  ASSUME InstallsInv, NEW w \in Workers, Fetch(w)
  PROVE  InstallsInv'
<1>. USE InstallsAssumption
<1>. DEFINE j == [job[w] EXCEPT !.synced = TRUE]
<1>1. job \in [Workers -> Jobs]
  BY DEF InstallsInv, Types
<1>2. /\ j \in Jobs /\ j.pc = job[w].pc /\ j.op = job[w].op /\ j.since = job[w].since
      /\ j.commit = job[w].commit
      /\ job' = [job EXCEPT ![w] = j]
  BY <1>1 DEF Jobs, Fetch
<1>. HIDE DEF j
<1>3. Moves(w, j)
  <2>1. job[w].pc \in {"resolve", "download"}
    BY DEF Fetch, At
  <2>. QED  BY <1>2, <2>1 DEF Moves, InstallsInv, OpInv, Active, At
<1>4. UNCHANGED <<staging, target, head, installed, bounds>> /\ repo' = head
  BY DEF Fetch, dirs
<1>5. Finds(j, staging', target', bounds'.prunes, installed')
  BY <1>2, <1>4 DEF InstallsInv, Staged, Finds
<1>6. DirsOK' /\ CountsOK'
  <2>1. DirsOK /\ CountsOK
    BY PartsOK
  <2>2. DirsOK'
    BY <2>1 DEF DirsOK, Fetch, dirs, Located, Sound, Whole
  <2>3. CountsOK'
    BY <2>1 DEF CountsOK, Fetch, Commits
  <2>. QED  BY <2>2, <2>3
<1>. QED  BY <1>3, <1>4, <1>5, <1>6, MoveKeeps

LEMMA ResolveKeeps ==
  ASSUME InstallsInv, NEW w \in Workers, Resolve(w)
  PROVE  InstallsInv'
<1>. USE InstallsAssumption
<1>1. job \in [Workers -> Jobs] /\ job[w].pc = "resolve"
  BY DEF InstallsInv, Types, Resolve, At
<1>2. PICK c \in CompatibleHash(w) :
        LET m == [job[w] EXCEPT !.commit = c]
        IN  job' = [job EXCEPT ![w] =
              CASE m.op = "install" -> [m EXCEPT !.pc = "download"]
                [] m.op # "install" /\ c = saved -> [m EXCEPT !.pc = "idle", !.result = "same"]
                [] m.op = "check" /\ c # saved -> [m EXCEPT !.pc = "idle", !.result = "newer"]
                [] OTHER -> [m EXCEPT !.pc = "stage", !.synced = FALSE]]
  BY DEF Resolve
<1>3. c \in Commits /\ c \in 0..MaxCommits /\ job[w].since <= c
  <2>1. /\ head \in Commits /\ repo \in 0..head /\ (job[w].synced => repo # 0)
        /\ job[w].since <= head /\ (job[w].synced => job[w].since <= repo)
    BY DEF InstallsInv, Types, Fetched
  <2>. QED  BY <2>1 DEF CompatibleHash, Commits
<1>. DEFINE m == [job[w] EXCEPT !.commit = c]
<1>4. /\ m \in Jobs /\ m.op = job[w].op /\ m.since = job[w].since /\ m.commit = c
      /\ m.synced = job[w].synced
  BY <1>1, <1>3 DEF Jobs
<1>5. /\ [m EXCEPT !.pc = "download"] \in Jobs
      /\ [m EXCEPT !.pc = "idle", !.result = "same"] \in Jobs
      /\ [m EXCEPT !.pc = "idle", !.result = "newer"] \in Jobs
      /\ [m EXCEPT !.pc = "stage", !.synced = FALSE] \in Jobs
  <2>1. {"download", "idle", "stage"} \subseteq Pcs /\ {"same", "newer"} \subseteq Results
    BY DEF Pcs, Results
  <2>. HIDE DEF m
  <2>. QED  BY <2>1, <1>4 DEF Jobs
<1>6. job[w].op \in {"install", "update", "check"}
  BY <1>1 DEF InstallsInv, OpInv
<1>7. PICK j \in Jobs :
        /\ job' = [job EXCEPT ![w] = j]
        /\ j.op = job[w].op /\ j.since = job[w].since /\ j.commit = c
        /\ j.synced => job[w].synced
        /\ j.pc \in {"download", "idle", "stage"}
        /\ j.pc = "download" => j.op = "install"
        /\ j.pc = "stage" => j.op = "update"
  <2>0. job' = [job EXCEPT ![w] =
              CASE m.op = "install" -> [m EXCEPT !.pc = "download"]
                [] m.op # "install" /\ c = saved -> [m EXCEPT !.pc = "idle", !.result = "same"]
                [] m.op = "check" /\ c # saved -> [m EXCEPT !.pc = "idle", !.result = "newer"]
                [] OTHER -> [m EXCEPT !.pc = "stage", !.synced = FALSE]]
    BY <1>2
  <2>. HIDE DEF m
  <2>1. CASE job[w].op = "install"
    <3>. DEFINE j == [m EXCEPT !.pc = "download"]
    <3>1. job' = [job EXCEPT ![w] = j]
      BY <1>4, <2>0, <2>1
    <3>2. j.op = m.op /\ j.since = m.since /\ j.commit = m.commit /\ j.synced = m.synced
            /\ j.pc = "download"
      BY <1>4 DEF Jobs
    <3>. QED  BY <1>4, <1>5, <2>1, <3>1, <3>2
  <2>2. CASE job[w].op # "install" /\ c = saved
    <3>. DEFINE j == [m EXCEPT !.pc = "idle", !.result = "same"]
    <3>1. job' = [job EXCEPT ![w] = j]
      BY <1>4, <2>0, <2>2
    <3>2. j.op = m.op /\ j.since = m.since /\ j.commit = m.commit /\ j.synced = m.synced
            /\ j.pc = "idle"
      BY <1>4 DEF Jobs
    <3>. QED  BY <1>4, <1>5, <3>1, <3>2
  <2>3. CASE job[w].op = "check" /\ c # saved
    <3>. DEFINE j == [m EXCEPT !.pc = "idle", !.result = "newer"]
    <3>1. job' = [job EXCEPT ![w] = j]
      BY <1>4, <2>0, <2>3
    <3>2. j.op = m.op /\ j.since = m.since /\ j.commit = m.commit /\ j.synced = m.synced
            /\ j.pc = "idle"
      BY <1>4 DEF Jobs
    <3>. QED  BY <1>4, <1>5, <3>1, <3>2
  <2>4. CASE job[w].op = "update" /\ c # saved
    <3>. DEFINE j == [m EXCEPT !.pc = "stage", !.synced = FALSE]
    <3>1. job' = [job EXCEPT ![w] = j]
      BY <1>4, <2>0, <2>4
    <3>2. j.op = m.op /\ j.since = m.since /\ j.commit = m.commit /\ ~j.synced
            /\ j.pc = "stage"
      BY <1>4 DEF Jobs
    <3>. QED  BY <1>4, <1>5, <2>4, <3>1, <3>2
  <2>. QED  BY <1>6, <2>1, <2>2, <2>3, <2>4
<1>8. Moves(w, j)
  BY <1>1, <1>3, <1>7 DEF Moves, Stages, Active, At
<1>9. UNCHANGED <<dirs, saved, repo, head, installed, bounds>>
  BY DEF Resolve
<1>10. Finds(j, staging', target', bounds'.prunes, installed')
  BY <1>1, <1>7, <1>9 DEF InstallsInv, Staged, Finds, dirs
<1>11. DirsOK' /\ CountsOK'
  BY <1>9, SameParts
<1>. QED  BY <1>7, <1>8, <1>9, <1>10, <1>11, MoveKeeps DEF dirs

\* Where the chain goes on, staged and placed as the next step expects it.
LEMMA GotoKeeps ==
  ASSUME InstallsInv, NEW w \in Workers, NEW pc \in Pcs,
         job[w].pc \in {"stage", "download", "deps", "stop", "back up", "replace", "restore", "save"},
         pc \notin {"remove", "unlink"},
         pc \in {"download", "deps", "stop", "back up", "replace", "save"} => job[w].commit \in Commits,
         Goto(w, pc), UNCHANGED <<repo, head>>,
         bounds'.prunes = bounds.prunes,
         Finds([job[w] EXCEPT !.pc = pc], staging', target', bounds'.prunes, installed'),
         DirsOK', CountsOK'
  PROVE  InstallsInv'
<1>. DEFINE j == [job[w] EXCEPT !.pc = pc]
<1>1. /\ j \in Jobs /\ j.pc = pc /\ j.op = job[w].op /\ j.since = job[w].since
      /\ j.commit = job[w].commit /\ j.synced = job[w].synced
      /\ job' = [job EXCEPT ![w] = j]
  BY GotoFacts DEF Goto
<1>2. Stages(job[w].op)
  BY DEF InstallsInv, OpInv
<1>3. Finds(j, staging', target', bounds'.prunes, installed')
  OBVIOUS
<1>. HIDE DEF j
<1>4. Moves(w, j)
  BY <1>1, <1>2 DEF Moves, Stages, Active, At
<1>. QED  BY <1>1, <1>2, <1>3, <1>4, MoveKeeps

\* An operation that reports leaves nothing for others to find.
LEMMA ReportKeeps ==
  ASSUME InstallsInv, NEW w \in Workers, NEW r \in Results, Active(w),
         Report(w, r), UNCHANGED <<repo, head>>,
         Stages(job[w].op) \/ UNCHANGED <<staging, target, installed>>,
         bounds'.prunes = bounds.prunes,
         DirsOK', CountsOK'
  PROVE  InstallsInv'
<1>. DEFINE j == [job[w] EXCEPT !.pc = "idle", !.result = r]
<1>1. /\ j \in Jobs /\ j.pc = "idle" /\ j.op = job[w].op /\ j.since = job[w].since
      /\ j.synced = job[w].synced /\ j.commit = job[w].commit
      /\ job' = [job EXCEPT ![w] = j]
  BY ReportFacts DEF Report
<1>. HIDE DEF j
<1>2. Moves(w, j)
  BY <1>1 DEF Moves
<1>3. Finds(j, staging', target', bounds'.prunes, installed')
  BY <1>1 DEF Finds
<1>. QED  BY <1>1, <1>2, <1>3, MoveKeeps

LEMMA AbortKeeps ==
  ASSUME InstallsInv, NEW w \in Workers, Fail(w)
  PROVE  InstallsInv'
<1>1. job[w].pc \in {"resolve", "download", "deps"} /\ Active(w)
  BY DEF Fail, Active, At
<1>2. /\ staging' = (IF job[w].op = "install" \/ ~At(w, "resolve") THEN NoDir ELSE staging)
      /\ Report(w, "error")
      /\ UNCHANGED <<target, backup, saved, repo, head, installed, bounds>>
  BY DEF Fail, Abort
<1>3. Stages(job[w].op) \/ UNCHANGED staging
  BY <1>1, <1>2 DEF InstallsInv, OpInv, Stages, At
<1>4. CountsOK' /\ bounds'.prunes = bounds.prunes
  BY <1>2, FaultCounts DEF InstallsInv, Types
<1>5. DirsOK'
  <2>1. DirsOK /\ NoDir \in Dirs /\ ~Located(NoDir)
    BY PartsOK DEF NoDir, Dirs, Located
  <2>2. staging' \in {NoDir, staging}
    BY <1>2
  <2>. QED  BY <1>2, <2>1, <2>2 DEF DirsOK, Located, Sound, Whole
<1>6. "error" \in Results
  BY DEF Results
<1>. QED  BY <1>1, <1>2, <1>3, <1>4, <1>5, <1>6, ReportKeeps

LEMMA EscapeKeeps ==
  ASSUME InstallsInv, NEW w \in Workers, Escape(w)
  PROVE  InstallsInv'
<1>1. /\ job[w].pc \in {"resolve", "download", "deps"} /\ Active(w)
      /\ Goto(w, "lost") /\ UNCHANGED <<dirs, saved, repo, head, installed, bounds>>
  BY DEF Escape, Active, At
<1>. DEFINE j == [job[w] EXCEPT !.pc = "lost"]
<1>2. /\ j \in Jobs /\ j.pc = "lost" /\ j.op = job[w].op /\ j.since = job[w].since
      /\ j.commit = job[w].commit /\ j.synced = job[w].synced
      /\ job' = [job EXCEPT ![w] = j]
  <2>1. "lost" \in Pcs
    BY DEF Pcs
  <2>. QED  BY <1>1, <2>1, GotoFacts DEF Goto
<1>. HIDE DEF j
<1>3. Moves(w, j)
  BY <1>1, <1>2 DEF Moves
<1>4. Finds(j, staging', target', bounds'.prunes, installed')
  BY <1>2 DEF Finds
<1>5. DirsOK' /\ CountsOK'
  BY <1>1, SameParts
<1>. QED  BY <1>1, <1>2, <1>3, <1>4, <1>5, MoveKeeps DEF dirs

\* The staging directory holds another good directory than before.
LEMMA StagingParts ==
  ASSUME InstallsInv, Fault \/ UNCHANGED bounds,
         UNCHANGED <<target, backup, saved, repo, head, installed>>,
         staging' \in Dirs, Located(staging') => staging'.there
  PROVE  DirsOK' /\ CountsOK' /\ bounds'.prunes = bounds.prunes
<1>1. DirsOK /\ CountsOK
  BY PartsOK
<1>2. DirsOK'
  BY <1>1 DEF DirsOK, Located, Sound, Whole
<1>3. CountsOK' /\ bounds'.prunes = bounds.prunes
  BY <1>1, FaultCounts DEF CountsOK
<1>. QED  BY <1>2, <1>3

LEMMA StageKeeps ==
  ASSUME InstallsInv, NEW w \in Workers, Stage(w)
  PROVE  InstallsInv'
<1>. USE InstallsAssumption
<1>1. /\ job[w].pc = "stage" /\ Active(w)
      /\ UNCHANGED <<target, backup, saved, repo, head, installed>>
  BY DEF Stage, At, Active
<1>2. CASE /\ staging' = Empty
           /\ Goto(w, IF job[w].commit = 0 THEN "resolve" ELSE "download")
           /\ UNCHANGED bounds
  <2>. DEFINE pc == IF job[w].commit = 0 THEN "resolve" ELSE "download"
  <2>1. Goto(w, pc) /\ pc \in {"resolve", "download"} /\ pc \in Pcs
    BY <1>2 DEF Pcs
  <2>2. pc = "download" => job[w].commit \in Commits
    BY DEF InstallsInv, Types, Jobs, Commits
  <2>3. DirsOK' /\ CountsOK' /\ bounds'.prunes = bounds.prunes
    <3>1. Empty \in Dirs /\ ~Located(Empty)
      BY DEF Empty, NoDir, Dirs, Located
    <3>. QED  BY <1>1, <1>2, <3>1, StagingParts
  <2>. HIDE DEF pc
  <2>4. Finds([job[w] EXCEPT !.pc = pc], staging', target', bounds'.prunes, installed')
    BY <1>2, <2>1, GotoFacts DEF Finds
  <2>. QED  BY <1>1, <2>1, <2>2, <2>3, <2>4, GotoKeeps
<1>3. CASE Fault /\ Report(w, "error") /\ staging' \in {staging, NoDir}
  <2>0. staging' \in Dirs /\ (Located(staging') => staging'.there)
    <3>1. NoDir \in Dirs /\ ~Located(NoDir)
      BY DEF NoDir, Dirs, Located
    <3>. QED  BY <1>3, <3>1 DEF InstallsInv, Types
  <2>1. DirsOK' /\ CountsOK' /\ bounds'.prunes = bounds.prunes
    BY <1>1, <1>3, <2>0, StagingParts
  <2>2. "error" \in Results
    BY DEF Results
  <2>3. Stages(job[w].op)
    BY <1>1 DEF InstallsInv, OpInv
  <2>. QED  BY <1>1, <1>3, <2>1, <2>2, <2>3, ReportKeeps
<1>. QED  BY <1>2, <1>3 DEF Stage

\* Both downloads leave the release of the commit, and no dependencies yet.
LEMMA DownloadKeeps ==
  ASSUME InstallsInv, NEW w \in Workers, Extract(w) \/ Checkout(w)
  PROVE  InstallsInv'
<1>1. job[w].pc = "download" /\ Goto(w, "deps")
      /\ UNCHANGED <<target, backup, saved, repo, head, installed, bounds>>
  BY DEF Extract, Checkout, At
<1>2. job[w].commit \in Commits /\ staging = Empty
  BY <1>1 DEF InstallsInv, OpInv, Staged, Finds
<1>3. PICK o \in BOOLEAN : staging' = [Release(job[w].commit) EXCEPT !.old = o]
  <2>1. CASE Extract(w)
    BY <2>1 DEF Extract
  <2>2. CASE Checkout(w)
    <3>1. staging' = [Release(job[w].commit) EXCEPT !.old = FALSE]
      BY <1>2, <2>2 DEF Checkout, Release, Empty, NoDir
    <3>. QED  BY <3>1
  <2>. QED  BY <2>1, <2>2
<1>4. Downloaded(staging', job[w].commit)
  BY <1>3 DEF Downloaded
<1>5. staging'.there /\ Located(staging')
  BY <1>3 DEF Release, Empty, NoDir, Located
<1>6. DirsOK' /\ CountsOK' /\ bounds'.prunes = bounds.prunes
  <2>1. staging' \in Dirs
    BY <1>2, <1>4, DownloadedFacts
  <2>. QED  BY <1>1, <1>5, <2>1, StagingParts
<1>7. "deps" \in Pcs
  BY DEF Pcs
<1>8. Finds([job[w] EXCEPT !.pc = "deps"], staging', target', bounds'.prunes, installed')
  BY <1>4, <1>5, <1>7, GotoFacts DEF Finds
<1>. QED  BY <1>1, <1>2, <1>6, <1>7, <1>8, GotoKeeps

\* pip adds the dependencies to what is there, or makes a directory of them.
LEMMA InstallDepsKeeps ==
  ASSUME InstallsInv, NEW w \in Workers, InstallDeps(w)
  PROVE  InstallsInv'
<1>1. job[w].pc = "deps" /\ Goto(w, "stop")
      /\ UNCHANGED <<target, backup, saved, repo, head, installed, bounds>>
  BY DEF InstallDeps, At
<1>2. /\ job[w].commit \in Commits /\ Downloaded(staging, job[w].commit)
      /\ bounds.prunes = 0 => Located(staging)
  BY <1>1 DEF InstallsInv, OpInv, Staged, Finds
<1>3. /\ Ready(staging', job[w].commit)
      /\ bounds.prunes = 0 => Located(staging')
      /\ staging' \in Dirs /\ (Located(staging') => staging'.there)
  <2>1. CASE staging.there
    <3>1. PICK o \in BOOLEAN : staging = [Release(job[w].commit) EXCEPT !.old = o]
      BY <1>2, <2>1, DownloadedFacts
    <3>2. PICK n \in {staging.old, FALSE} : staging' = [staging EXCEPT !.deps = TRUE, !.old = n]
      BY <2>1 DEF InstallDeps
    <3>3. /\ n \in BOOLEAN
          /\ staging' = [Release(job[w].commit) EXCEPT !.deps = TRUE, !.old = n]
      BY <3>1, <3>2 DEF Release, Empty, NoDir
    <3>. QED  BY <1>2, <3>3, ReadyRelease DEF Ready, Located
  <2>2. CASE ~staging.there
    <3>1. staging' \in {staging, [Empty EXCEPT !.deps = TRUE]}
      BY <2>2 DEF InstallDeps
    <3>2. staging = NoDir
      BY <2>2, <1>2 DEF Release, Empty, NoDir, Downloaded
    <3>3. ~Located(staging)
      BY <3>2 DEF NoDir, Located
    <3>4. Ready(staging', job[w].commit)
      BY <3>1, <3>2 DEF Ready
    <3>. QED  BY <1>2, <3>3, <3>4, ReadyFacts
  <2>. QED  BY <2>1, <2>2
<1>4. DirsOK' /\ CountsOK' /\ bounds'.prunes = bounds.prunes
  BY <1>1, <1>3, StagingParts
<1>5. "stop" \in Pcs
  BY DEF Pcs
<1>6. Finds([job[w] EXCEPT !.pc = "stop"], staging', target', bounds'.prunes, installed')
  BY <1>1, <1>3, <1>5, GotoFacts DEF Finds
<1>. QED  BY <1>1, <1>2, <1>4, <1>5, <1>6, GotoKeeps

LEMMA StoppedKeeps ==
  ASSUME InstallsInv, NEW w \in Workers, Stopped(w)
  PROVE  InstallsInv'
<1>1. job[w].pc = "stop" /\ Goto(w, "back up")
      /\ UNCHANGED <<dirs, saved, repo, head, installed, bounds>>
  BY DEF Stopped, At
<1>2. /\ job[w].commit \in Commits /\ Ready(staging, job[w].commit)
      /\ bounds.prunes = 0 => Located(staging)
  BY <1>1 DEF InstallsInv, OpInv, Staged, Finds
<1>3. DirsOK' /\ CountsOK'
  BY <1>1, SameParts
<1>4. "back up" \in Pcs
  BY DEF Pcs
<1>5. Finds([job[w] EXCEPT !.pc = "back up"], staging', target', bounds'.prunes, installed')
  BY <1>1, <1>2, <1>4, GotoFacts DEF Finds, dirs
<1>. QED  BY <1>1, <1>2, <1>3, <1>4, <1>5, GotoKeeps

-----------------------------------------------------------------------------
(* The swap: each directory takes what another one held, or is made anew.  *)

\* A directory that may be anywhere: sound, or what _swap_dir left nested.
Good(d) == d \in Dirs /\ (Located(d) => d.there) /\ Sound(d)

LEMMA NoDirIsGood == Good(NoDir)
BY DEF Good, Dirs, NoDir, Sound, Located

LEMMA PlacesAreGood ==
  ASSUME InstallsInv
  PROVE  Good(target) /\ Good(backup) /\ staging \in Dirs /\ (Located(staging) => staging.there)
BY DEF InstallsInv, Types, Placed, Good

LEMMA SwapParts ==
  ASSUME InstallsInv, Fault \/ UNCHANGED bounds, UNCHANGED <<repo, head>>,
         saved' \in 0..MaxCommits, installed' \in BOOLEAN,
         Good(target'), Good(backup'), staging' \in {staging, NoDir}
  PROVE  DirsOK' /\ CountsOK' /\ bounds'.prunes = bounds.prunes
<1>1. staging' \in Dirs /\ (Located(staging') => staging'.there)
  BY PlacesAreGood, NoDirIsGood DEF Good
<1>2. DirsOK'
  BY <1>1 DEF DirsOK, Good, Located, Sound, Whole
<1>. QED  BY <1>2, FaultCounts

LEMMA SavedIsNumber == InstallsInv => saved \in 0..MaxCommits /\ installed \in BOOLEAN
BY DEF InstallsInv, Types

LEMMA ErrorIsResult == "error" \in Results /\ "ok" \in Results
BY DEF Results

LEMMA BackUpKeeps ==
  ASSUME InstallsInv, NEW w \in Workers, BackUp(w)
  PROVE  InstallsInv'
<1>1. /\ job[w].pc = "back up" /\ Active(w) /\ target' = NoDir
      /\ UNCHANGED <<staging, saved, repo, head, installed>>
  BY DEF BackUp, At, Active
<1>2. /\ job[w].commit \in Commits /\ Stages(job[w].op)
      /\ Finds(job[w], staging, target, bounds.prunes, installed)
  BY <1>1 DEF InstallsInv, OpInv, Staged
<1>. DEFINE j == [job[w] EXCEPT !.pc = "replace", !.backedUp = target.there]
<1>3. job \in [Workers -> Jobs] /\ target \in Dirs /\ backup \in Dirs
  BY DEF InstallsInv, Types
<1>4. target.there \in BOOLEAN /\ "replace" \in Pcs
  BY <1>3 DEF Dirs, Pcs
<1>5. /\ j \in Jobs /\ j.pc = "replace" /\ j.op = job[w].op /\ j.since = job[w].since
      /\ j.commit = job[w].commit /\ j.synced = job[w].synced
      /\ job' = [job EXCEPT ![w] = j]
  BY <1>3, <1>4 DEF Jobs, BackUp
<1>. HIDE DEF j
<1>6. Moves(w, j)
  BY <1>1, <1>2, <1>5 DEF Moves
<1>7. Good(backup')
  <2>1. CASE backup' = target
    BY <2>1, PlacesAreGood DEF Good, Sound, Located, Whole
  <2>2. CASE /\ backup.there
             /\ backup' = [backup EXCEPT !.torn = TRUE, !.old = FALSE, !.files = @ \cup target.files]
    <3>1. backup' \in Dirs /\ backup'.there /\ backup'.torn
      BY <1>3, <2>2 DEF Dirs
    <3>. QED  BY <3>1 DEF Good, Sound
  <2>. QED  BY <2>1, <2>2 DEF BackUp
<1>8. Fault \/ UNCHANGED bounds
  BY DEF BackUp
<1>9. DirsOK' /\ CountsOK' /\ bounds'.prunes = bounds.prunes
  BY <1>1, <1>7, <1>8, NoDirIsGood, SavedIsNumber, SwapParts
<1>10. Finds(j, staging', target', bounds'.prunes, installed')
  BY <1>1, <1>2, <1>5, <1>9 DEF Finds
<1>. QED  BY <1>1, <1>2, <1>5, <1>6, <1>9, <1>10, MoveKeeps

LEMMA BackUpFailsKeeps ==
  ASSUME InstallsInv, NEW w \in Workers, BackUpFails(w)
  PROVE  InstallsInv'
<1>1. /\ job[w].pc = "back up" /\ Active(w) /\ Fault /\ backup' = NoDir /\ staging' = NoDir
      /\ Report(w, "error") /\ UNCHANGED <<target, saved, repo, head, installed>>
  BY DEF BackUpFails, At, Active
<1>2. Stages(job[w].op)
  BY <1>1 DEF InstallsInv, OpInv
<1>3. Good(target')
  BY <1>1, PlacesAreGood
<1>4. DirsOK' /\ CountsOK' /\ bounds'.prunes = bounds.prunes
  BY <1>1, <1>3, NoDirIsGood, SavedIsNumber, SwapParts
<1>. QED  BY <1>1, <1>2, <1>4, ErrorIsResult, ReportKeeps

LEMMA ReplaceKeeps ==
  ASSUME InstallsInv, NEW w \in Workers, Replace(w)
  PROVE  InstallsInv'
<1>1. /\ job[w].pc = "replace" /\ target' = staging /\ staging' = NoDir /\ Goto(w, "save")
      /\ installed' = TRUE /\ UNCHANGED <<backup, saved, repo, head, bounds>>
  BY DEF Replace, At
<1>2. /\ job[w].commit \in Commits /\ Ready(staging, job[w].commit)
      /\ bounds.prunes = 0 => Located(staging)
  BY <1>1 DEF InstallsInv, OpInv, Staged, Finds
<1>3. Good(target') /\ target'.files \subseteq {job[w].commit}
  BY <1>1, <1>2, ReadyFacts DEF Good
<1>4. bounds.prunes = 0 => Located(target')
  BY <1>1, <1>2 DEF Located
<1>5. DirsOK' /\ CountsOK' /\ bounds'.prunes = bounds.prunes
  BY <1>1, <1>3, PlacesAreGood, SavedIsNumber, SwapParts
<1>6. "save" \in Pcs
  BY DEF Pcs
<1>7. Finds([job[w] EXCEPT !.pc = "save"], staging', target', bounds'.prunes, installed')
  BY <1>3, <1>4, <1>5, <1>6, GotoFacts DEF Finds
<1>. QED  BY <1>1, <1>2, <1>5, <1>6, <1>7, GotoKeeps

LEMMA MoveFailsFacts ==
  ASSUME NEW d, MoveFails(d)
  PROVE  Fault \/ (~d.there /\ UNCHANGED bounds)
BY DEF MoveFails

LEMMA ReplaceFailsKeeps ==
  ASSUME InstallsInv, NEW w \in Workers, ReplaceFails(w)
  PROVE  InstallsInv'
<1>1. /\ job[w].pc = "replace" /\ Active(w) /\ target' = NoDir
      /\ Fault \/ UNCHANGED bounds
      /\ UNCHANGED <<backup, saved, repo, head, installed>>
      /\ \/ Goto(w, "restore") /\ UNCHANGED staging
         \/ Report(w, "error") /\ staging' = NoDir
  BY MoveFailsFacts DEF ReplaceFails, At, Active
<1>2. Stages(job[w].op)
  BY <1>1 DEF InstallsInv, OpInv
<1>3. DirsOK' /\ CountsOK' /\ bounds'.prunes = bounds.prunes
  BY <1>1, PlacesAreGood, NoDirIsGood, SavedIsNumber, SwapParts
<1>4. CASE Goto(w, "restore") /\ UNCHANGED staging
  <2>1. "restore" \in Pcs
    BY DEF Pcs
  <2>2. Finds([job[w] EXCEPT !.pc = "restore"], staging', target', bounds'.prunes, installed')
    BY <2>1, GotoFacts DEF Finds
  <2>. QED  BY <1>1, <1>3, <1>4, <2>1, <2>2, GotoKeeps
<1>5. CASE Report(w, "error")
  BY <1>1, <1>2, <1>3, <1>5, ErrorIsResult, ReportKeeps
<1>. QED  BY <1>1, <1>4, <1>5

LEMMA RestoreKeeps ==
  ASSUME InstallsInv, NEW w \in Workers, Restore(w)
  PROVE  InstallsInv'
<1>1. /\ job[w].pc = "restore" /\ Active(w) /\ staging' = NoDir /\ Report(w, "error")
      /\ UNCHANGED <<saved, repo, head, installed>>
      /\ Fault \/ UNCHANGED bounds
      /\ target' \in {target, backup} /\ backup' \in {NoDir, backup}
  BY MoveFailsFacts DEF Restore, At, Active
<1>2. Stages(job[w].op)
  BY <1>1 DEF InstallsInv, OpInv
<1>3. Good(target') /\ Good(backup')
  BY <1>1, PlacesAreGood, NoDirIsGood
<1>4. DirsOK' /\ CountsOK' /\ bounds'.prunes = bounds.prunes
  BY <1>1, <1>3, SavedIsNumber, SwapParts
<1>. QED  BY <1>1, <1>2, <1>4, ErrorIsResult, ReportKeeps

LEMMA SaveKeeps ==
  ASSUME InstallsInv, NEW w \in Workers, Save(w)
  PROVE  InstallsInv'
<1>1. /\ job[w].pc = "save" /\ Active(w) /\ backup' = NoDir
      /\ UNCHANGED <<target, staging, repo, head, installed>>
      /\ Fault \/ UNCHANGED bounds
      /\ saved' \in {saved, job[w].commit}
      /\ \E r \in Results : Report(w, r)
  BY ErrorIsResult DEF Save, At, Active
<1>2. Stages(job[w].op)
  BY <1>1 DEF InstallsInv, OpInv
<1>3. saved' \in 0..MaxCommits
  BY <1>1, SavedIsNumber DEF InstallsInv, Types, Jobs
<1>4. Good(target')
  BY <1>1, PlacesAreGood
<1>5. DirsOK' /\ CountsOK' /\ bounds'.prunes = bounds.prunes
  BY <1>1, <1>3, <1>4, NoDirIsGood, SavedIsNumber, SwapParts
<1>. QED  BY <1>1, <1>2, <1>5, ReportKeeps

LEMMA UnlinkKeeps ==
  ASSUME InstallsInv, NEW w \in Workers, Unlink(w)
  PROVE  InstallsInv'
<1>1. /\ job[w].pc = "unlink" /\ Active(w) /\ UNCHANGED <<dirs, repo, head, installed>>
      /\ Fault \/ UNCHANGED bounds
      /\ saved' \in {saved, 0}
      /\ \E r \in Results : Report(w, r)
  BY ErrorIsResult DEF Unlink, At, Active
<1>2. saved' \in 0..MaxCommits
  BY <1>1, SavedIsNumber, InstallsAssumption
<1>3. Good(target') /\ Good(backup')
  BY <1>1, PlacesAreGood DEF dirs
<1>4. DirsOK' /\ CountsOK' /\ bounds'.prunes = bounds.prunes
  BY <1>1, <1>2, <1>3, SavedIsNumber, SwapParts DEF dirs
<1>. QED  BY <1>1, <1>4, ReportKeeps DEF dirs

-----------------------------------------------------------------------------
(* An operation that ends without a report of its own chain: it is removed *)
(* under the others, or its process dies.                                  *)

\* ... or it goes on to the state file.
Ends(w) ==
  /\ job' \in [Workers -> Jobs]
  /\ \/ job'[w].pc = "idle"
     \/ job'[w].pc = "unlink" /\ job'[w].op = "uninstall"
  /\ job'[w].since <= job[w].since
  /\ job'[w].synced => job[w].synced
  /\ job'[w].commit \in {0, job[w].commit}
  /\ \A v \in Workers \ {w} :
       /\ job'[v].pc = job[v].pc /\ job'[v].op = job[v].op /\ job'[v].commit = job[v].commit
       /\ job'[v].synced = job[v].synced /\ job'[v].since = job[v].since

LEMMA EndKeeps ==
  ASSUME InstallsInv, NEW w \in Workers, Ends(w), UNCHANGED <<repo, head>>,
         UNCHANGED staging \/ Installing(w),
         target'.files \subseteq target.files,
         UNCHANGED <<target, installed>> \/ ~installed' \/ target'.torn,
         bounds'.prunes = bounds.prunes,
         DirsOK', CountsOK'
  PROVE  InstallsInv'
<1>. USE InstallsAssumption
<1>1. OpInv'
  <2>1. job'[w].pc = "idle" \/ (job'[w].pc = "unlink" /\ job'[w].op = "uninstall")
    BY DEF Ends
  <2>2. \A v \in Workers \ {w} :
          job'[v].pc = job[v].pc /\ job'[v].op = job[v].op /\ job'[v].commit = job[v].commit
    BY DEF Ends
  <2>. QED  BY <2>1, <2>2 DEF InstallsInv, OpInv, Stages
<1>2. OneStages'
  <2>1. ~Installing(w)'
    BY DEF Ends, Installing, Active, At, Stages
  <2>2. \A v \in Workers : v # w => Installing(v)' = Installing(v)
    BY DEF Ends, Installing, Active, At
  <2>. QED  BY <2>1, <2>2 DEF InstallsInv, OneStages
<1>3. Fetched'
  <2>. SUFFICES ASSUME NEW v \in Workers
                PROVE  /\ job'[v].since <= head
                       /\ job'[v].synced => repo # 0 /\ job'[v].since <= repo
                       /\ job'[v].commit # 0 => job'[v].since <= job'[v].commit
    BY DEF Fetched
  <2>1. /\ job[v].since \in 0..MaxCommits /\ head \in 1..MaxCommits /\ repo \in 0..head
        /\ job[v].commit \in 0..MaxCommits
    BY DEF InstallsInv, Types, Jobs, Commits
  <2>2. job'[v].since \in 0..MaxCommits
    BY DEF Ends, Jobs
  <2>3. /\ job[v].since <= head /\ (job[v].synced => repo # 0 /\ job[v].since <= repo)
        /\ job[v].commit # 0 => job[v].since <= job[v].commit
    BY DEF InstallsInv, Fetched
  <2>4. /\ job'[v].since <= job[v].since /\ (job'[v].synced => job[v].synced)
        /\ job'[v].commit \in {0, job[v].commit}
    BY <2>1 DEF Ends
  <2>. QED  BY <2>1, <2>2, <2>3, <2>4
<1>4. Staged'
  <2>. SUFFICES ASSUME NEW v \in Workers
                PROVE  Finds(job'[v], staging', target', bounds'.prunes, installed')
    BY DEF Staged
  <2>0. CASE v = w
    BY <2>0 DEF Ends, Finds
  <2>1. Finds(job[v], staging, target, bounds.prunes, installed)
    BY DEF InstallsInv, Staged
  <2>2. CASE v # w /\ UNCHANGED staging
    <3>1. job'[v].pc = job[v].pc /\ job'[v].op = job[v].op /\ job'[v].commit = job[v].commit
      BY <2>2 DEF Ends
    <3>2. target'.files \subseteq target.files /\ bounds'.prunes = bounds.prunes
      OBVIOUS
    <3>3. CASE UNCHANGED <<target, installed>>
      BY <2>1, <2>2, <3>1, <3>2, <3>3 DEF Finds, Located
    <3>4. CASE ~installed' \/ target'.torn
      BY <2>1, <2>2, <3>1, <3>2, <3>4 DEF Finds
    <3>. QED  BY <3>3, <3>4
  <2>3. CASE v # w /\ Installing(w)
    <3>1. job'[v].pc = job[v].pc /\ job'[v].op = job[v].op
      BY <2>3 DEF Ends
    <3>2. ~Installing(v)
      BY <2>3 DEF InstallsInv, OneStages
    <3>3. job[v].pc \notin {"download", "deps", "stop", "back up", "replace", "save"}
            /\ ~(job[v].pc = "resolve" /\ job[v].op = "install")
      BY <3>2 DEF InstallsInv, OpInv, Stages, Installing, Active, At
    <3>. QED  BY <3>1, <3>3 DEF Finds
  <2>. QED  BY <2>0, <2>2, <2>3
<1>5. Types' /\ Placed'
  BY DEF Ends, DirsOK, CountsOK, Types, Placed
<1>. QED  BY <1>1, <1>2, <1>3, <1>4, <1>5 DEF InstallsInv

LEMMA RemoveKeeps ==
  ASSUME InstallsInv, NEW w \in Workers, Remove(w)
  PROVE  InstallsInv'
<1>. USE InstallsAssumption
<1>1. job[w].pc = "remove" /\ Active(w) /\ UNCHANGED <<staging, backup, saved, repo, head>>
  BY DEF Remove, At, Active
<1>0. job \in [Workers -> Jobs] /\ {"idle", "unlink"} \subseteq Pcs /\ job[w].op = "uninstall"
  BY <1>1 DEF InstallsInv, Types, OpInv, Pcs
<1>2. CASE ~Located(target) /\ Report(w, "ok") /\ UNCHANGED <<target, installed, bounds>>
  <2>1. DirsOK' /\ CountsOK'
    BY <1>1, <1>2, SameParts DEF dirs
  <2>. QED  BY <1>1, <1>2, <2>1, ErrorIsResult, ReportKeeps
<1>3. ASSUME NEW j, j \in Jobs, target' \in Dirs, j.pc \in {"idle", "unlink"},
             j.op = job[w].op, j.since = job[w].since, j.synced = job[w].synced,
             j.commit = job[w].commit,
             job' = [v \in Workers |-> IF v = w THEN j ELSE [job[v] EXCEPT !.before = target']]
      PROVE  Ends(w)
  <2>1. job' \in [Workers -> Jobs]
    BY <1>0, <1>3 DEF Jobs
  <2>2. job'[w] = j /\ job[w].since <= job[w].since
    BY <1>0, <1>3 DEF Jobs
  <2>3. \A v \in Workers \ {w} :
          /\ job'[v].pc = job[v].pc /\ job'[v].op = job[v].op /\ job'[v].commit = job[v].commit
          /\ job'[v].synced = job[v].synced /\ job'[v].since = job[v].since
    BY <1>0, <1>3 DEF Jobs
  <2>. QED  BY <1>0, <1>3, <2>1, <2>2, <2>3 DEF Ends
<1>4. CASE /\ target' = NoDir /\ installed' = FALSE
           /\ job' = [v \in Workers |->
                IF v = w THEN [job[w] EXCEPT !.pc = "unlink"]
                ELSE [job[v] EXCEPT !.before = NoDir]]
           /\ UNCHANGED bounds
  <2>1. Good(target') /\ target'.files \subseteq target.files
    BY <1>4, NoDirIsGood DEF NoDir
  <2>2. Ends(w)
    <3>. DEFINE j == [job[w] EXCEPT !.pc = "unlink"]
    <3>1. /\ j \in Jobs /\ j.pc = "unlink" /\ j.op = job[w].op /\ j.since = job[w].since
          /\ j.commit = job[w].commit /\ j.synced = job[w].synced
      BY <1>0, GotoFacts
    <3>2. job' = [v \in Workers |-> IF v = w THEN j ELSE [job[v] EXCEPT !.before = target']]
      BY <1>4
    <3>. HIDE DEF j
    <3>. QED  BY <1>3, <2>1, <3>1, <3>2 DEF Good
  <2>3. DirsOK' /\ CountsOK' /\ bounds'.prunes = bounds.prunes
    BY <1>1, <1>4, <2>1, PlacesAreGood, SavedIsNumber, SwapParts
  <2>. QED  BY <1>1, <1>4, <2>1, <2>2, <2>3, EndKeeps
<1>5. CASE /\ Located(target) /\ Fault
           /\ \E left \in SUBSET target.files :
                target' = [target EXCEPT !.torn = TRUE, !.old = FALSE, !.files = left]
           /\ job' = [v \in Workers |->
                IF v = w THEN [job[w] EXCEPT !.pc = "idle", !.result = "error"]
                ELSE [job[v] EXCEPT !.before = target']]
           /\ UNCHANGED installed
  <2>1. PICK left \in SUBSET target.files :
          target' = [target EXCEPT !.torn = TRUE, !.old = FALSE, !.files = left]
    BY <1>5
  <2>2. target \in Dirs /\ target.there
    BY <1>5 DEF InstallsInv, Types
  <2>3. /\ target' \in Dirs /\ target'.there /\ target'.torn
        /\ target'.files \subseteq target.files
    BY <2>1, <2>2 DEF Dirs
  <2>4. Good(target')
    BY <2>3 DEF Good, Sound
  <2>5. Ends(w)
    <3>. DEFINE j == [job[w] EXCEPT !.pc = "idle", !.result = "error"]
    <3>1. /\ j \in Jobs /\ j.pc = "idle" /\ j.op = job[w].op /\ j.since = job[w].since
          /\ j.commit = job[w].commit /\ j.synced = job[w].synced
      BY ErrorIsResult, ReportFacts
    <3>2. job' = [v \in Workers |-> IF v = w THEN j ELSE [job[v] EXCEPT !.before = target']]
      BY <1>5
    <3>. HIDE DEF j
    <3>. QED  BY <1>3, <2>3, <3>1, <3>2
  <2>6. DirsOK' /\ CountsOK' /\ bounds'.prunes = bounds.prunes
    BY <1>1, <1>5, <2>4, PlacesAreGood, SavedIsNumber, SwapParts
  <2>. QED  BY <1>1, <2>3, <2>5, <2>6, EndKeeps
<1>. QED  BY <1>2, <1>4, <1>5 DEF Remove

LEMMA CrashKeeps ==
  ASSUME InstallsInv, NEW w \in Workers, Crash(w)
  PROVE  InstallsInv'
<1>. USE InstallsAssumption
<1>1. /\ job' = [job EXCEPT ![w] = Idle]
      /\ UNCHANGED <<target, backup, saved, repo, head, installed>>
  BY DEF Crash
<1>2. job \in [Workers -> Jobs]
  BY DEF InstallsInv, Types
<1>3. Ends(w)
  <2>1. job' \in [Workers -> Jobs] /\ job'[w] = Idle
          /\ \A v \in Workers \ {w} : job'[v] = job[v]
    BY <1>1, <1>2, IdleIsJob
  <2>2. Idle.pc = "idle" /\ Idle.since = 0 /\ ~Idle.synced /\ Idle.commit = 0
    BY DEF Idle
  <2>3. 0 <= job[w].since
    BY <1>2 DEF Jobs
  <2>. QED  BY <2>1, <2>2, <2>3 DEF Ends
<1>4. CountsOK' /\ bounds'.prunes = bounds.prunes
  <2>1. CountsOK
    BY PartsOK
  <2>2. bounds' \in Bounds /\ bounds'.prunes = bounds.prunes
    <3>1. bounds.crashes < MaxCrashes /\ bounds' = [bounds EXCEPT !.crashes = @ + 1]
      BY DEF Crash
    <3>. QED  BY <2>1, <3>1 DEF CountsOK, Bounds
  <2>. QED  BY <1>1, <2>1, <2>2 DEF CountsOK
<1>5. CASE UNCHANGED staging
  <2>1. DirsOK'
    BY <1>1, <1>5, PartsOK DEF DirsOK, Located, Sound, Whole
  <2>. QED  BY <1>1, <1>3, <1>4, <1>5, <2>1, EndKeeps
<1>6. CASE /\ At(w, "download") \/ At(w, "deps")
           /\ \E got \in SUBSET {job[w].commit} :
                staging' = [staging EXCEPT !.there = TRUE, !.torn = TRUE, !.old = FALSE,
                                           !.files = @ \cup got]
  <2>1. PICK got \in SUBSET {job[w].commit} :
          staging' = [staging EXCEPT !.there = TRUE, !.torn = TRUE, !.old = FALSE,
                                     !.files = @ \cup got]
    BY <1>6
  <2>2. Installing(w) /\ job[w].commit \in Commits
    BY <1>6 DEF At, Active, Installing, InstallsInv, OpInv
  <2>3. staging \in Dirs
    BY DEF InstallsInv, Types
  <2>4. staging' \in Dirs /\ staging'.there
    BY <2>1, <2>2, <2>3 DEF Dirs
  <2>5. DirsOK'
    BY <1>1, <2>4, PartsOK DEF DirsOK, Located, Sound, Whole
  <2>. QED  BY <1>1, <1>3, <1>4, <2>2, <2>5, EndKeeps
<1>. QED  BY <1>5, <1>6 DEF Crash

LEMMA AgedFacts ==
  ASSUME NEW d \in Dirs
  PROVE  /\ Aged(d) \in Dirs /\ Aged(d).there = d.there /\ Aged(d).files = d.files
         /\ Aged(d).torn = d.torn /\ Aged(d).deps = d.deps
BY DEF Aged, Dirs

\* Nobody stages anything when an hour passes.
LEMMA HourKeeps ==
  ASSUME InstallsInv, HourPasses
  PROVE  InstallsInv'
<1>1. /\ \A w \in Workers : ~Installing(w)
      /\ target' = Aged(target) /\ staging' = Aged(staging) /\ backup' = Aged(backup)
      /\ UNCHANGED <<saved, repo, head, job, installed, bounds>>
  BY DEF HourPasses
<1>2. target \in Dirs /\ staging \in Dirs /\ backup \in Dirs
  BY DEF InstallsInv, Types
<1>3. Types'
  BY <1>1, <1>2, AgedFacts DEF InstallsInv, Types, Located
<1>4. OpInv' /\ OneStages' /\ Fetched'
  BY <1>1 DEF InstallsInv, OpInv, OneStages, Fetched, Installing, Active, At
<1>5. Staged'
  <2>. SUFFICES ASSUME NEW w \in Workers
                PROVE  Finds(job[w], staging', target', bounds.prunes, installed)
    BY <1>1 DEF Staged
  <2>1. job[w].pc \notin {"download", "deps", "stop", "back up", "replace", "save"}
          /\ ~(job[w].pc = "resolve" /\ job[w].op = "install")
    BY <1>1 DEF InstallsInv, OpInv, Stages, Installing, Active, At
  <2>. QED  BY <2>1 DEF Finds
<1>6. Placed'
  BY <1>1, <1>2, AgedFacts DEF InstallsInv, Placed, Sound, Located, Whole
<1>. QED  BY <1>3, <1>4, <1>5, <1>6 DEF InstallsInv

\* What is mkdir'd is not old: an operation that has downloaded loses its
\* files, and that is counted.
LEMMA PruneKeeps ==
  ASSUME InstallsInv, Prune
  PROVE  InstallsInv'
<1>. USE InstallsAssumption
<1>1. UNCHANGED <<target, saved, repo, head, job, installed>>
  BY DEF Prune
<1>2. bounds \in Bounds
  BY DEF InstallsInv, Types
<1>3. /\ bounds' \in Bounds
      /\ (\E w \in Workers : Installing(w)) => bounds'.prunes # 0
  BY <1>2 DEF Prune, Bounds
<1>4. staging' \in {staging, NoDir} /\ backup' \in {backup, NoDir}
  BY DEF Prune
<1>5. Types'
  <2>1. NoDir \in Dirs /\ ~Located(NoDir)
    BY DEF NoDir, Dirs, Located
  <2>. QED  BY <1>1, <1>3, <1>4, <2>1 DEF InstallsInv, Types, Located
<1>6. OpInv' /\ OneStages' /\ Fetched'
  BY <1>1 DEF InstallsInv, OpInv, OneStages, Fetched, Installing, Active, At
<1>7. Staged'
  <2>. SUFFICES ASSUME NEW w \in Workers
                PROVE  Finds(job[w], staging', target, bounds'.prunes, installed)
    BY <1>1 DEF Staged
  <2>1. Finds(job[w], staging, target, bounds.prunes, installed)
    BY DEF InstallsInv, Staged
  <2>2. CASE ~Installing(w)
    <3>1. job[w].pc \notin {"download", "deps", "stop", "back up", "replace", "save"}
            /\ ~(job[w].pc = "resolve" /\ job[w].op = "install")
      BY <2>2 DEF InstallsInv, OpInv, Stages, Installing, Active, At
    <3>. QED  BY <3>1 DEF Finds
  <2>3. CASE Installing(w)
    <3>1. bounds'.prunes # 0
      BY <1>3, <2>3
    <3>2. job[w].pc = "download" \/ (job[w].pc = "resolve" /\ job[w].op = "install")
            => UNCHANGED staging
      <4>1. ~Empty.old
        BY DEF Empty, NoDir
      <4>. QED  BY <2>1, <4>1 DEF Finds, Prune
    <3>3. CASE staging' = staging
      BY <2>1, <3>1, <3>3 DEF Finds
    <3>4. CASE staging' = NoDir /\ staging' # staging
      BY <2>1, <3>1, <3>2, <3>4 DEF Finds, Downloaded, Ready
    <3>. QED  BY <1>4, <3>3, <3>4
  <2>. QED  BY <2>2, <2>3
<1>8. Placed'
  <2>1. Sound(target) /\ Sound(backup) /\ Sound(NoDir)
    BY NothingIsSound DEF InstallsInv, Placed
  <2>. QED  BY <1>1, <1>4, <2>1 DEF Placed, Sound, Located, Whole
<1>. QED  BY <1>5, <1>6, <1>7, <1>8 DEF InstallsInv

LEMMA PushKeeps ==
  ASSUME InstallsInv, Push
  PROVE  InstallsInv'
<1>. USE InstallsAssumption
<1>1. /\ head < MaxCommits /\ head' = head + 1
      /\ UNCHANGED <<target, staging, backup, saved, repo, job, installed, bounds>>
  BY DEF Push, dirs
<1>2. head \in 1..MaxCommits /\ repo \in 0..head /\ job \in [Workers -> Jobs]
  BY DEF InstallsInv, Types, Commits
<1>3. head' \in 1..MaxCommits /\ repo' \in 0..head'
  BY <1>1, <1>2
<1>4. Types'
  BY <1>1, <1>3 DEF InstallsInv, Types, Commits, Located
<1>5. Fetched'
  <2>1. \A w \in Workers : job[w].since \in 0..MaxCommits
    BY <1>2 DEF Jobs
  <2>. QED  BY <1>1, <1>2, <2>1 DEF InstallsInv, Fetched
<1>6. OpInv' /\ OneStages' /\ Staged'
  BY <1>1 DEF InstallsInv, OpInv, OneStages, Staged, Finds, Located, Installing, Active, At
<1>7. Placed'
  BY <1>1 DEF InstallsInv, Placed, Sound, Located, Whole
<1>. QED  BY <1>4, <1>5, <1>6, <1>7 DEF InstallsInv

LEMMA StepKeeps ==
  ASSUME InstallsInv, NEW w \in Workers, Step(w)
  PROVE  InstallsInv'
<1>1. CASE Fetch(w)
  BY <1>1, FetchKeeps
<1>2. CASE Resolve(w)
  BY <1>2, ResolveKeeps
<1>3. CASE Stage(w)
  BY <1>3, StageKeeps
<1>4. CASE Extract(w) \/ Checkout(w)
  BY <1>4, DownloadKeeps
<1>5. CASE InstallDeps(w)
  BY <1>5, InstallDepsKeeps
<1>6. CASE Fail(w)
  BY <1>6, AbortKeeps
<1>7. CASE Stopped(w)
  BY <1>7, StoppedKeeps
<1>8. CASE BackUp(w)
  BY <1>8, BackUpKeeps
<1>9. CASE BackUpFails(w)
  BY <1>9, BackUpFailsKeeps
<1>10. CASE Replace(w)
  BY <1>10, ReplaceKeeps
<1>11. CASE ReplaceFails(w)
  BY <1>11, ReplaceFailsKeeps
<1>12. CASE Restore(w)
  BY <1>12, RestoreKeeps
<1>13. CASE Save(w)
  BY <1>13, SaveKeeps
<1>14. CASE Remove(w)
  BY <1>14, RemoveKeeps
<1>15. CASE Unlink(w)
  BY <1>15, UnlinkKeeps
<1>. QED
  BY <1>1, <1>2, <1>3, <1>4, <1>5, <1>6, <1>7, <1>8, <1>9, <1>10, <1>11, <1>12, <1>13, <1>14,
     <1>15 DEF Step

LEMMA NextKeepsInstalls == InstallsInv /\ [Next]_vars => InstallsInv'
<1>. SUFFICES ASSUME InstallsInv, [Next]_vars PROVE InstallsInv'
  OBVIOUS
<1>1. ASSUME NEW w \in Workers, NEW op \in {"install", "update", "check", "uninstall"},
             Begin(w, op)
      PROVE  InstallsInv'
  BY <1>1, BeginKeeps
<1>2. ASSUME NEW w \in Workers, Step(w) PROVE InstallsInv'
  BY <1>2, StepKeeps
<1>3. ASSUME NEW w \in Workers, Crash(w) \/ Escape(w) PROVE InstallsInv'
  BY <1>3, CrashKeeps, EscapeKeeps
<1>4. CASE Prune \/ HourPasses
  BY <1>4, PruneKeeps, HourKeeps
<1>5. CASE Push
  BY <1>5, PushKeeps
<1>6. CASE UNCHANGED vars
  <2>1. UNCHANGED <<target, staging, backup, saved, repo, head, job, installed, bounds>>
    BY <1>6 DEF vars
  <2>2. Types'
    BY <2>1 DEF InstallsInv, Types, Located
  <2>3. OpInv' /\ OneStages' /\ Fetched' /\ Staged'
    BY <2>1 DEF InstallsInv, OpInv, OneStages, Fetched, Staged, Finds, Located,
                Installing, Active, At
  <2>4. Placed'
    BY <2>1 DEF InstallsInv, Placed, Sound, Located, Whole
  <2>. QED  BY <2>2, <2>3, <2>4 DEF InstallsInv
<1>. QED  BY <1>1, <1>2, <1>3, <1>4, <1>5, <1>6 DEF Next

LEMMA InstallsInvHolds == Spec => []InstallsInv
<1>1. Init => InstallsInv
  BY InitInstalls
<1>2. InstallsInv /\ [Next]_vars => InstallsInv'
  BY NextKeepsInstalls
<1>. QED  BY <1>1, <1>2, PTL DEF Spec

-----------------------------------------------------------------------------

\* Types, and the bounds of what is counted, for any bounds.
THEOREM InstallTypes == Spec => []TypeOK
<1>1. InstallsInv => TypeOK
  <2>. SUFFICES ASSUME InstallsInv PROVE TypeOK
    OBVIOUS
  <2>1. {target, staging, backup} \subseteq Dirs
    BY DEF InstallsInv, Types
  <2>2. \A d \in {target, staging, backup} : Located(d) => d.there
    BY DEF InstallsInv, Types
  <2>3. saved \in 0..MaxCommits /\ repo \in 0..head /\ head \in Commits /\ installed \in BOOLEAN
    BY DEF InstallsInv, Types
  <2>4. \A w \in Workers : job[w].commit \in 0..MaxCommits /\ job[w].pc \in Pcs
                              /\ job[w].result \in Results
    BY DEF InstallsInv, Types, Jobs
  <2>5. /\ bounds.ops <= MaxOps /\ bounds.faults <= MaxFaults
        /\ bounds.crashes <= MaxCrashes /\ bounds.prunes <= MaxPrunes
    BY InstallsAssumption DEF InstallsInv, Types, Bounds
  <2>. QED  BY <2>1, <2>2, <2>3, <2>4, <2>5 DEF TypeOK, Pcs, Results
<1>. QED  BY <1>1, InstallsInvHolds, PTL

\* _swap_dir and remove: whatever failed or crashed before, an extension that
\* is found is one whole release, unless removing it failed half-way.
THEOREM InstalledIsWhole == Spec => []LocatedIsWhole
<1>1. InstallsInv => LocatedIsWhole
  BY DEF InstallsInv, Placed, Sound, LocatedIsWhole
<1>. QED  BY <1>1, InstallsInvHolds, PTL

-----------------------------------------------------------------------------
(* What an operation reports.                                              *)

\* No operation moves another one.
LEMMA OthersStay ==
  ASSUME InstallsInv, NEW v \in Workers, NEW w \in Workers, v # w, Step(v)
  PROVE  job'[w].pc = job[w].pc
<1>1. job \in [Workers -> Jobs]
  BY DEF InstallsInv, Types
<1>3. CASE Fetch(v) \/ Resolve(v)
  BY <1>1, <1>3 DEF Fetch, Resolve
<1>4. CASE Stage(v)
  BY <1>1, <1>4 DEF Stage, Goto, Report
<1>5. CASE Extract(v) \/ Checkout(v) \/ InstallDeps(v) \/ Stopped(v) \/ Replace(v)
  BY <1>1, <1>5 DEF Extract, Checkout, InstallDeps, Stopped, Replace, Goto
<1>6. CASE Fail(v)
  BY <1>1, <1>6 DEF Fail, Abort, Report
<1>7. CASE BackUp(v) \/ BackUpFails(v)
  BY <1>1, <1>7 DEF BackUp, BackUpFails, Report
<1>8. CASE ReplaceFails(v)
  BY <1>1, <1>8 DEF ReplaceFails, Goto, Report
<1>9. CASE Restore(v) \/ Save(v) \/ Unlink(v)
  BY <1>1, <1>9 DEF Restore, Save, Unlink, Report
<1>10. CASE Remove(v)
  <2>1. CASE Report(v, "ok")
    BY <1>1, <2>1 DEF Report
  <2>2. CASE job' = [u \in Workers |-> IF u = v THEN [job[v] EXCEPT !.pc = "unlink"]
                                      ELSE [job[u] EXCEPT !.before = NoDir]]
    BY <1>1, <2>2 DEF Jobs
  <2>3. CASE job' = [u \in Workers |->
                 IF u = v THEN [job[v] EXCEPT !.pc = "idle", !.result = "error"]
                 ELSE [job[u] EXCEPT !.before = target']]
    BY <1>1, <2>3 DEF Jobs
  <2>. QED  BY <1>10, <2>1, <2>2, <2>3 DEF Remove
<1>. QED  BY <1>3, <1>4, <1>5, <1>6, <1>7, <1>8, <1>9, <1>10 DEF Step

\* So an operation that has ended did so by a step of its own, or crashed.
LEMMA EndsItself ==
  ASSUME InstallsInv, [Next]_vars, NEW w \in Workers, job[w].pc # "idle", job'[w].pc = "idle"
  PROVE  Step(w) \/ Crash(w)
<1>1. job \in [Workers -> Jobs]
  BY DEF InstallsInv, Types
<1>2. ASSUME NEW v \in Workers, NEW op \in {"install", "update", "check", "uninstall"},
             Begin(v, op)
      PROVE  FALSE
  BY <1>1, <1>2 DEF Begin, At
<1>3. ASSUME NEW v \in Workers, v # w, Step(v) PROVE FALSE
  BY <1>3, OthersStay
<1>4. ASSUME NEW v \in Workers, v # w, Crash(v) PROVE FALSE
  BY <1>1, <1>4 DEF Crash
<1>6. ASSUME NEW v \in Workers, Escape(v) PROVE FALSE
  BY <1>1, <1>6 DEF Escape, Goto, Jobs
<1>5. ~(HourPasses \/ Prune \/ Push \/ UNCHANGED vars)
  BY DEF HourPasses, Prune, Push, vars
<1>. QED  BY <1>2, <1>3, <1>4, <1>5, <1>6 DEF Next

\* What the resolved commit is told to the user as.
LEMMA ResolvedResult ==
  ASSUME InstallsInv, NEW w \in Workers, Resolve(w), job'[w].pc = "idle"
  PROVE  /\ job'[w].result \in {"same", "newer"}
         /\ job'[w].result = "same" => saved \in CompatibleHash(w)
<1>1. job \in [Workers -> Jobs] /\ job[w].op \in {"install", "update", "check"}
  BY DEF InstallsInv, Types, OpInv, Resolve, At
<1>2. PICK c \in CompatibleHash(w) :
        LET m == [job[w] EXCEPT !.commit = c]
        IN  job' = [job EXCEPT ![w] =
              CASE m.op = "install" -> [m EXCEPT !.pc = "download"]
                [] m.op # "install" /\ c = saved -> [m EXCEPT !.pc = "idle", !.result = "same"]
                [] m.op = "check" /\ c # saved -> [m EXCEPT !.pc = "idle", !.result = "newer"]
                [] OTHER -> [m EXCEPT !.pc = "stage", !.synced = FALSE]]
  BY DEF Resolve
<1>. DEFINE m == [job[w] EXCEPT !.commit = c]
<1>3. /\ m.op = job[w].op
      /\ m.op = "install" => job'[w] = [m EXCEPT !.pc = "download"]
      /\ m.op # "install" /\ c = saved => job'[w] = [m EXCEPT !.pc = "idle", !.result = "same"]
      /\ m.op = "check" /\ c # saved => job'[w] = [m EXCEPT !.pc = "idle", !.result = "newer"]
      /\ m.op = "update" /\ c # saved => job'[w] = [m EXCEPT !.pc = "stage", !.synced = FALSE]
  <2>1. m.op = job[w].op
    BY <1>1 DEF Jobs
  <2>2. job'[w] = CASE m.op = "install" -> [m EXCEPT !.pc = "download"]
                [] m.op # "install" /\ c = saved -> [m EXCEPT !.pc = "idle", !.result = "same"]
                [] m.op = "check" /\ c # saved -> [m EXCEPT !.pc = "idle", !.result = "newer"]
                [] OTHER -> [m EXCEPT !.pc = "stage", !.synced = FALSE]
    BY <1>1, <1>2
  <2>. HIDE DEF m
  <2>. QED  BY <2>1, <2>2
<1>4. /\ [m EXCEPT !.pc = "download"].pc = "download"
      /\ [m EXCEPT !.pc = "idle", !.result = "same"].result = "same"
      /\ [m EXCEPT !.pc = "idle", !.result = "newer"].result = "newer"
      /\ [m EXCEPT !.pc = "stage", !.synced = FALSE].pc = "stage"
  BY <1>1 DEF Jobs
<1>. HIDE DEF m
<1>. QED  BY <1>1, <1>2, <1>3, <1>4

\* Which steps report what.
LEMMA Reports ==
  ASSUME InstallsInv, NEW w \in Workers, Step(w) \/ Crash(w),
         job[w].pc # "idle", job'[w].pc = "idle"
  PROVE  /\ job'[w].result = "ok" => Save(w) \/ job[w].pc \in {"remove", "unlink"}
         /\ job'[w].result = "same" => Resolve(w)
<1>1. job \in [Workers -> Jobs]
  BY DEF InstallsInv, Types
<1>2. ASSUME NEW r \in Results, Report(w, r) PROVE job'[w].result = r
  BY <1>1, <1>2 DEF Report, Jobs
<1>3. ASSUME NEW pc \in Pcs, Goto(w, pc) PROVE job'[w].pc = pc
  BY <1>1, <1>3 DEF Goto, Jobs
<1>4. "error" \in Results /\ "ok" \in Results
  BY DEF Results
<1>5. CASE Crash(w)
  BY <1>1, <1>5 DEF Crash, Idle
<1>6. CASE Fetch(w)
  BY <1>1, <1>6 DEF Fetch, Jobs
<1>7. CASE Resolve(w)
  BY <1>7, ResolvedResult
<1>8. CASE Stage(w)
  <2>1. CASE Goto(w, IF job[w].commit = 0 THEN "resolve" ELSE "download")
    <3>1. {"resolve", "download"} \subseteq Pcs
      BY DEF Pcs
    <3>. QED  BY <1>3, <2>1, <3>1
  <2>. QED  BY <1>2, <1>4, <1>8, <2>1 DEF Stage
<1>9. CASE Extract(w) \/ Checkout(w) \/ InstallDeps(w) \/ Stopped(w) \/ Replace(w)
  <2>1. {"deps", "stop", "back up", "save"} \subseteq Pcs
    BY DEF Pcs
  <2>. QED  BY <1>3, <1>9, <2>1 DEF Extract, Checkout, InstallDeps, Stopped, Replace
<1>10. CASE Fail(w) \/ BackUpFails(w) \/ Restore(w)
  BY <1>2, <1>4, <1>10 DEF Fail, Abort, BackUpFails, Restore
<1>11. CASE BackUp(w)
  BY <1>1, <1>11 DEF BackUp, Jobs
<1>12. CASE ReplaceFails(w)
  <2>1. "restore" \in Pcs
    BY DEF Pcs
  <2>. QED  BY <1>2, <1>3, <1>4, <1>12, <2>1 DEF ReplaceFails
<1>13. CASE Save(w)
  BY <1>2, <1>4, <1>13 DEF Save
<1>14. CASE Remove(w)
  <2>1. CASE Report(w, "ok")
    BY <1>2, <1>4, <1>14, <2>1 DEF Remove, At
  <2>2. CASE job' = [u \in Workers |-> IF u = w THEN [job[w] EXCEPT !.pc = "unlink"]
                                      ELSE [job[u] EXCEPT !.before = NoDir]]
    BY <1>1, <2>2 DEF Jobs
  <2>3. CASE job' = [u \in Workers |->
                 IF u = w THEN [job[w] EXCEPT !.pc = "idle", !.result = "error"]
                 ELSE [job[u] EXCEPT !.before = target']]
    BY <1>1, <2>3 DEF Jobs
  <2>. QED  BY <1>14, <2>1, <2>2, <2>3 DEF Remove
<1>15. CASE Unlink(w)
  BY <1>2, <1>4, <1>15 DEF Unlink, At
<1>. QED  BY <1>5, <1>6, <1>7, <1>8, <1>9, <1>10, <1>11, <1>12, <1>13, <1>14, <1>15 DEF Step

\* save_installed_state: a success means that the commit which was resolved is
\* in place, unless it was uninstalled after the swap, and is the saved one
\* unless the state could not be written.
THEOREM SuccessIsTrue == Spec => SuccessIsInstalled
<1>. DEFINE P(w) == Installing(w) /\ job'[w].pc = "idle" /\ job'[w].result = "ok"
                        /\ bounds.prunes = 0
                      => /\ job[w].commit >= job[w].since
                         /\ installed => target'.torn
                                          \/ (Whole(target') /\ target'.files = {job[w].commit})
                         /\ saved' = job[w].commit \/ bounds' # bounds
<1>1. ASSUME InstallsInv, [Next]_vars, NEW w \in Workers PROVE P(w)
  <2>. SUFFICES ASSUME Installing(w), job'[w].pc = "idle", job'[w].result = "ok",
                       bounds.prunes = 0
                PROVE  /\ job[w].commit >= job[w].since
                       /\ installed => target'.torn
                                        \/ (Whole(target') /\ target'.files = {job[w].commit})
                       /\ saved' = job[w].commit \/ bounds' # bounds
    OBVIOUS
  <2>1. job[w].pc # "idle" /\ Stages(job[w].op)
    BY DEF Installing, Active, At
  <2>2. Save(w) \/ job[w].pc \in {"remove", "unlink"}
    BY <1>1, <2>1, EndsItself, Reports
  <2>3. Save(w)
    BY <1>1, <2>1, <2>2 DEF InstallsInv, OpInv, Stages
  <2>4. job \in [Workers -> Jobs] /\ "error" \in Results /\ bounds \in Bounds
    BY <1>1 DEF InstallsInv, Types, Results
  <2>5. ~Report(w, "error")
    BY <2>4 DEF Report, Jobs
  <2>6. UNCHANGED target /\ job[w].pc = "save" /\ (saved' = job[w].commit \/ Fault)
    BY <2>3, <2>5 DEF Save, At
  <2>7. job[w].commit \in Commits /\ Finds(job[w], staging, target, bounds.prunes, installed)
    BY <1>1, <2>6 DEF InstallsInv, OpInv, Staged
  <2>8. job[w].commit >= job[w].since
    <3>1. job[w].commit \in 1..MaxCommits /\ job[w].since \in 0..MaxCommits
      BY <2>4, <2>7 DEF Commits, Jobs
    <3>2. job[w].commit # 0 => job[w].since <= job[w].commit
      BY <1>1 DEF InstallsInv, Fetched
    <3>. QED  BY <3>1, <3>2, InstallsAssumption
  <2>9. installed => target.torn \/ (Whole(target) /\ target.files = {job[w].commit})
    <3>1. target.files \subseteq {job[w].commit} /\ (installed => Located(target) \/ target.torn)
      BY <2>6, <2>7 DEF Finds
    <3>2. Sound(target)
      BY <1>1 DEF InstallsInv, Placed
    <3>. QED  BY <3>1, <3>2 DEF Sound, Located
  <2>10. Fault => bounds' # bounds
    <3>1. Fault => bounds'.faults = bounds.faults + 1
      BY <2>4 DEF Fault, Bounds
    <3>2. bounds.faults \in Nat
      BY <2>4, InstallsAssumption DEF Bounds
    <3>. QED  BY <3>1, <3>2
  <2>. QED  BY <2>6, <2>8, <2>9, <2>10 DEF Whole, Located
<1>2. InstallsInv /\ [Next]_vars => [\A w \in Workers : P(w)]_vars
  BY <1>1
<1>. QED  BY <1>2, InstallsInvHolds, PTL DEF Spec, SuccessIsInstalled

\* get_compatible_hash fetches once per operation: "up to date" is said of a
\* commit at least as new as upstream's when the operation began.
THEOREM UpToDate == Spec => UpToDateIsTrue
<1>. DEFINE P(w) == ~At(w, "idle") /\ job'[w].pc = "idle" /\ job'[w].result = "same"
                      => saved >= job[w].since
<1>1. ASSUME InstallsInv, [Next]_vars, NEW w \in Workers PROVE P(w)
  <2>. SUFFICES ASSUME ~At(w, "idle"), job'[w].pc = "idle", job'[w].result = "same"
                PROVE  saved >= job[w].since
    OBVIOUS
  <2>1. Resolve(w)
    BY <1>1, EndsItself, Reports DEF At
  <2>2. saved \in CompatibleHash(w)
    BY <1>1, <2>1, ResolvedResult
  <2>3. /\ job[w].since \in 0..MaxCommits /\ head \in 1..MaxCommits /\ repo \in 0..head
        /\ job[w].since <= head /\ (job[w].synced => job[w].since <= repo)
    BY <1>1 DEF InstallsInv, Types, Jobs, Commits, Fetched
  <2>. QED  BY <2>2, <2>3, InstallsAssumption DEF CompatibleHash
<1>2. InstallsInv /\ [Next]_vars => [\A w \in Workers : P(w)]_vars
  BY <1>1
<1>. QED  BY <1>2, InstallsInvHolds, PTL DEF Spec, UpToDateIsTrue

-----------------------------------------------------------------------------
(* The copies of _swap_dir.                                                *)

Early == {"stage", "resolve", "download", "deps", "stop", "back up"}
Swap == {"replace", "restore"}

Safe == installed /\ bounds.crashes = 0 /\ bounds.prunes = 0 /\ bounds.faults <= 1

\* A copy that is left: one whole release, or what a removal left of it.
Copy(d) == d.there /\ Kept(d)

\* While a swap has taken the target away the backup is the copy, and the
\* worker knows of it.
CopyInv ==
  Safe =>
    /\ (\A w \in Workers : job[w].pc \notin Swap) => Copy(target)
    /\ \A w \in Workers :
         /\ job[w].pc \in Swap => Copy(backup)
         /\ job[w].pc = "replace" => job[w].backedUp

\* Where the directory an operation has found, before, is while it runs; n
\* counts the calls that have failed and what the clean-up took.  A swap that
\* cannot place what it staged, s, has its one failure there.
Remembers(j, s, t, b, n) ==
  /\ Stages(j.op) /\ j.pc \in Early => j.before = t
  /\ j.pc = "replace" =>
       /\ t = NoDir
       /\ n = 0 \/ (n = 1 /\ ~s.there) => b = j.before
       /\ ~s.there => n # 0
       /\ ~j.backedUp => j.before = NoDir
  /\ j.pc = "restore" =>
       /\ t = NoDir /\ n # 0
       /\ n = 1 => b = j.before

Failures == bounds.faults + bounds.prunes

KeptInv ==
  /\ \A d \in {target, backup} : ~d.there => d = NoDir
  /\ \A w \in Workers : Remembers(job[w], staging, target, backup, Failures)

LEMMA CountFacts ==
  ASSUME InstallsInv
  PROVE  /\ bounds.faults \in Nat /\ bounds.crashes \in Nat /\ bounds.prunes \in Nat
         /\ Fault => /\ bounds'.faults = bounds.faults + 1
                     /\ bounds'.crashes = bounds.crashes /\ bounds'.prunes = bounds.prunes
         /\ job \in [Workers -> Jobs] /\ target \in Dirs /\ backup \in Dirs /\ staging \in Dirs
<1>1. bounds \in Bounds
  BY DEF InstallsInv, Types
<1>2. Fault => /\ bounds'.faults = bounds.faults + 1
               /\ bounds'.crashes = bounds.crashes /\ bounds'.prunes = bounds.prunes
  BY <1>1 DEF Fault, Bounds
<1>3. bounds.faults \in Nat /\ bounds.crashes \in Nat /\ bounds.prunes \in Nat
  BY <1>1, InstallsAssumption DEF Bounds
<1>. QED  BY <1>2, <1>3 DEF InstallsInv, Types

\* Nobody else is anywhere that matters while one works on the directories.
LEMMA Alone ==
  ASSUME InstallsInv, NEW w \in Workers, Active(w), Stages(job[w].op),
         NEW v \in Workers, v # w
  PROVE  job[v].pc \notin Swap /\ ~(Stages(job[v].op) /\ job[v].pc \in Early)
<1>1. ~Installing(v)
  BY DEF InstallsInv, OneStages, Installing
<1>. QED  BY <1>1 DEF InstallsInv, OpInv, Swap, Early, Stages, Installing, Active, At

\* A failing call is told apart from none, whatever it counts.
MayFail ==
  /\ bounds'.crashes = bounds.crashes /\ bounds'.prunes = bounds.prunes
  /\ bounds'.faults = bounds.faults \/ bounds'.faults = bounds.faults + 1

LEMMA MoreFaults ==
  ASSUME InstallsInv, Fault \/ UNCHANGED bounds
  PROVE  MayFail
BY CountFacts DEF MayFail

LEMMA FailuresCount ==
  ASSUME InstallsInv, MayFail
  PROVE  /\ Failures \in Nat
         /\ Failures' = Failures \/ Failures' = Failures + 1
         /\ UNCHANGED installed /\ Safe' => Safe
<1>1. bounds.faults \in Nat /\ bounds.crashes \in Nat /\ bounds.prunes \in Nat
  BY CountFacts
<1>. QED  BY <1>1 DEF MayFail, Failures, Safe

LEMMA CopyStays ==
  ASSUME NEW d, NEW e, d = e
  PROVE  Copy(d) <=> Copy(e)
BY DEF Copy, Kept, Whole, Located

-----------------------------------------------------------------------------

\* A step that leaves the target and the backup where they are.
Calm(v) ==
  \/ job'[v] = job[v]
  \/ /\ job[v].pc \notin Swap /\ job'[v].pc \notin Swap
     /\ Stages(job'[v].op) /\ job'[v].pc \in Early => job'[v].before = target

\* Nobody is told of the staging directory but the one that places it.
NoneReplaces == \A v \in Workers : job[v].pc # "replace"

LEMMA NoneElse ==
  ASSUME InstallsInv, NEW w \in Workers, Active(w), Stages(job[w].op), job[w].pc \notin Swap
  PROVE  NoneReplaces
<1>1. ASSUME NEW v \in Workers PROVE job[v].pc # "replace"
  BY Alone DEF Swap
<1>. QED  BY <1>1 DEF NoneReplaces

LEMMA CalmKeeps ==
  ASSUME InstallsInv, CopyInv, KeptInv, \A v \in Workers : Calm(v),
         UNCHANGED <<target, backup, installed>>,
         UNCHANGED staging \/ NoneReplaces,
         MayFail
  PROVE  CopyInv' /\ KeptInv'
<1>1. \A v \in Workers : /\ job'[v].pc \in Swap <=> job[v].pc \in Swap
                         /\ job'[v].pc = "replace" => job'[v] = job[v]
  BY DEF Calm, Swap
<1>2. CopyInv'
  <2>. SUFFICES ASSUME Safe'
                PROVE  /\ (\A v \in Workers : job'[v].pc \notin Swap) => Copy(target')
                       /\ \A v \in Workers :
                            /\ job'[v].pc \in Swap => Copy(backup')
                            /\ job'[v].pc = "replace" => job'[v].backedUp
    BY DEF CopyInv
  <2>1. Safe
    BY FailuresCount
  <2>2. (Copy(target) => Copy(target')) /\ (Copy(backup) => Copy(backup'))
    BY CopyStays
  <2>. QED  BY <1>1, <2>1, <2>2 DEF CopyInv
<1>3. ASSUME NEW v \in Workers
      PROVE  Remembers(job'[v], staging', target, backup, Failures')
  <2>0. /\ Failures \in Nat /\ (Failures' = Failures \/ Failures' = Failures + 1)
        /\ Remembers(job[v], staging, target, backup, Failures)
    BY FailuresCount DEF KeptInv
  <2>1. CASE job'[v] = job[v]
    <3>1. job[v].pc = "replace" => staging' = staging
      BY DEF NoneReplaces
    <3>. QED  BY <2>0, <2>1, <3>1 DEF Remembers
  <2>2. CASE /\ job[v].pc \notin Swap /\ job'[v].pc \notin Swap
             /\ Stages(job'[v].op) /\ job'[v].pc \in Early => job'[v].before = target
    BY <2>2 DEF Remembers, Swap
  <2>. QED  BY <2>1, <2>2 DEF Calm
<1>4. \A d \in {target', backup'} : ~d.there => d = NoDir
  BY DEF KeptInv
<1>5. \A v \in Workers : Remembers(job'[v], staging', target', backup', Failures')
  BY <1>3
<1>. QED  BY <1>2, <1>4, <1>5 DEF KeptInv

\* The steps of the one that stages: what it finds where it gets to is all
\* that there is to show.
LEMMA StagingKeeps ==
  ASSUME InstallsInv, NEW w \in Workers, NEW j,
         Active(w), Stages(job[w].op), job' = [job EXCEPT ![w] = j],
         \A d \in {target', backup'} : ~d.there => d = NoDir,
         Remembers(j, staging', target', backup', Failures'),
         Safe' =>
           /\ j.pc \notin Swap => Copy(target')
           /\ j.pc \in Swap => Copy(backup')
           /\ j.pc = "replace" => j.backedUp
  PROVE  CopyInv' /\ KeptInv'
<1>1. job'[w] = j /\ \A v \in Workers : v # w => job'[v] = job[v]
  BY CountFacts
<1>2. \A v \in Workers : v # w => /\ job'[v].pc \notin Swap
                                  /\ ~(Stages(job'[v].op) /\ job'[v].pc \in Early)
  BY <1>1, Alone
<1>3. KeptInv'
  <2>1. \A v \in Workers : Remembers(job'[v], staging', target', backup', Failures')
    BY <1>1, <1>2 DEF Remembers, Swap
  <2>. QED  BY <2>1 DEF KeptInv
<1>4. CopyInv'
  <2>. SUFFICES ASSUME Safe'
                PROVE  /\ (\A v \in Workers : job'[v].pc \notin Swap) => Copy(target')
                       /\ \A v \in Workers :
                            /\ job'[v].pc \in Swap => Copy(backup')
                            /\ job'[v].pc = "replace" => job'[v].backedUp
    BY DEF CopyInv
  <2>1. (\A v \in Workers : job'[v].pc \notin Swap) => Copy(target')
    BY <1>1
  <2>2. \A v \in Workers : /\ job'[v].pc \in Swap => Copy(backup')
                           /\ job'[v].pc = "replace" => job'[v].backedUp
    BY <1>1, <1>2 DEF Swap
  <2>. QED  BY <2>1, <2>2
<1>. QED  BY <1>3, <1>4

\* What else a worker that goes on or reports still knows.
LEMMA JobFacts ==
  ASSUME InstallsInv, NEW w \in Workers, NEW pc, NEW r
  PROVE  /\ [job[w] EXCEPT !.pc = pc].pc = pc
         /\ [job[w] EXCEPT !.pc = pc].op = job[w].op
         /\ [job[w] EXCEPT !.pc = pc].before = job[w].before
         /\ [job[w] EXCEPT !.pc = pc].backedUp = job[w].backedUp
         /\ [job[w] EXCEPT !.pc = "idle", !.result = r].pc = "idle"
         /\ [job EXCEPT ![w].pc = pc] = [job EXCEPT ![w] = [job[w] EXCEPT !.pc = pc]]
         /\ [job EXCEPT ![w].pc = "idle", ![w].result = r]
              = [job EXCEPT ![w] = [job[w] EXCEPT !.pc = "idle", !.result = r]]
<1>1. job \in [Workers -> Jobs]
  BY CountFacts
<1>. QED  BY <1>1 DEF Jobs

-----------------------------------------------------------------------------

LEMMA InitCopies == Init => CopyInv /\ KeptInv
<1>. SUFFICES ASSUME Init PROVE CopyInv /\ KeptInv
  OBVIOUS
<1>1. 1 \in Commits
  BY InstallsAssumption DEF Commits
<1>2. \A w \in Workers : job[w].pc = "idle"
  BY DEF Init, Idle
<1>3. backup = NoDir
  BY DEF Init
<1>6. \A w \in Workers : Remembers(job[w], staging, target, backup, Failures)
  BY <1>2 DEF Remembers, Early
<1>4. CASE target = NoDir
  <2>1. ~installed
    BY <1>4 DEF Init, Located, NoDir
  <2>2. CopyInv
    BY <2>1 DEF CopyInv, Safe
  <2>3. KeptInv
    BY <1>3, <1>4, <1>6 DEF KeptInv
  <2>. QED  BY <2>2, <2>3
<1>5. CASE target = [Release(1) EXCEPT !.deps = TRUE, !.old = TRUE]
  <2>1. Whole(target) /\ target.there
    BY <1>1, <1>5, ReadyRelease
  <2>2. CopyInv
    BY <1>2, <2>1 DEF CopyInv, Copy, Kept, Swap
  <2>3. KeptInv
    BY <1>3, <1>6, <2>1 DEF KeptInv
  <2>. QED  BY <2>2, <2>3
<1>. QED  BY <1>4, <1>5 DEF Init

\* The steps up to the swap.
LEMMA ChainKeepsCopies ==
  ASSUME InstallsInv, CopyInv, KeptInv, NEW w \in Workers,
         Extract(w) \/ Checkout(w) \/ InstallDeps(w) \/ Stopped(w)
  PROVE  CopyInv' /\ KeptInv'
<1>1. PICK pc \in {"deps", "stop", "back up"} : Goto(w, pc)
  BY DEF Extract, Checkout, InstallDeps, Stopped
<1>2. /\ job[w].pc \in {"download", "deps", "stop"}
      /\ UNCHANGED <<target, backup, installed, bounds>>
  BY DEF Extract, Checkout, InstallDeps, Stopped, At, dirs
<1>3. Stages(job[w].op) /\ Active(w)
  BY <1>2 DEF InstallsInv, OpInv, Active, At
<1>4. job[w].before = target
  BY <1>2, <1>3 DEF KeptInv, Remembers, Early
<1>. DEFINE j == [job[w] EXCEPT !.pc = pc]
<1>5. j.pc = pc /\ j.op = job[w].op /\ j.before = job[w].before /\ job' = [job EXCEPT ![w] = j]
  BY <1>1, JobFacts DEF Goto
<1>. HIDE DEF j
<1>6. \A v \in Workers : Calm(v)
  <2>1. job'[w] = j /\ \A v \in Workers : v # w => job'[v] = job[v]
    BY <1>5, CountFacts
  <2>. QED  BY <1>2, <1>4, <1>5, <2>1 DEF Calm, Swap
<1>7. NoneReplaces
  BY <1>2, <1>3, NoneElse DEF Swap
<1>. QED  BY <1>2, <1>6, <1>7, MoreFaults, CalmKeeps

LEMMA FetchKeepsCopies ==
  ASSUME InstallsInv, CopyInv, KeptInv, NEW w \in Workers, Fetch(w)
  PROVE  CopyInv' /\ KeptInv'
<1>1. /\ job[w].pc \in {"resolve", "download"}
      /\ UNCHANGED <<target, backup, staging, installed, bounds>>
      /\ job' = [job EXCEPT ![w].synced = TRUE]
  BY DEF Fetch, At, dirs
<1>2. job[w].before = target \/ ~Stages(job[w].op)
  BY <1>1 DEF KeptInv, Remembers, Early
<1>3. /\ job'[w].pc = job[w].pc /\ job'[w].op = job[w].op /\ job'[w].before = job[w].before
      /\ \A v \in Workers : v # w => job'[v] = job[v]
  BY <1>1, CountFacts DEF Jobs
<1>4. \A v \in Workers : Calm(v)
  BY <1>1, <1>2, <1>3 DEF Calm, Swap
<1>. QED  BY <1>1, <1>4, MoreFaults, CalmKeeps

LEMMA ResolveKeepsCopies ==
  ASSUME InstallsInv, CopyInv, KeptInv, NEW w \in Workers, Resolve(w)
  PROVE  CopyInv' /\ KeptInv'
<1>1. job[w].pc = "resolve" /\ UNCHANGED <<target, backup, staging, installed, bounds>>
  BY DEF Resolve, At, dirs
<1>2. Stages(job[w].op) => job[w].before = target
  BY <1>1 DEF KeptInv, Remembers, Early
<1>3. PICK c \in CompatibleHash(w) :
        LET m == [job[w] EXCEPT !.commit = c]
        IN  job' = [job EXCEPT ![w] =
              CASE m.op = "install" -> [m EXCEPT !.pc = "download"]
                [] m.op # "install" /\ c = saved -> [m EXCEPT !.pc = "idle", !.result = "same"]
                [] m.op = "check" /\ c # saved -> [m EXCEPT !.pc = "idle", !.result = "newer"]
                [] OTHER -> [m EXCEPT !.pc = "stage", !.synced = FALSE]]
  BY DEF Resolve
<1>. DEFINE m == [job[w] EXCEPT !.commit = c]
<1>4. m.op = job[w].op /\ m.before = job[w].before
  BY CountFacts DEF Jobs
<1>5. /\ \A v \in Workers : v # w => job'[v] = job[v]
      /\ job'[w] = CASE m.op = "install" -> [m EXCEPT !.pc = "download"]
                [] m.op # "install" /\ c = saved -> [m EXCEPT !.pc = "idle", !.result = "same"]
                [] m.op = "check" /\ c # saved -> [m EXCEPT !.pc = "idle", !.result = "newer"]
                [] OTHER -> [m EXCEPT !.pc = "stage", !.synced = FALSE]
  BY <1>3, CountFacts
<1>6. m.op \in {"install", "update", "check"}
  BY <1>1, <1>4 DEF InstallsInv, OpInv
<1>7. LET Next2(n, pc) == n.pc = pc /\ n.op = m.op /\ n.before = m.before
      IN  /\ Next2([m EXCEPT !.pc = "download"], "download")
          /\ Next2([m EXCEPT !.pc = "idle", !.result = "same"], "idle")
          /\ Next2([m EXCEPT !.pc = "idle", !.result = "newer"], "idle")
          /\ Next2([m EXCEPT !.pc = "stage", !.synced = FALSE], "stage")
  BY CountFacts DEF Jobs
<1>. HIDE DEF m
<1>8. /\ job'[w].pc \in {"download", "idle", "stage"}
      /\ job'[w].op = m.op /\ job'[w].before = m.before
  <2>1. \/ job'[w] = [m EXCEPT !.pc = "download"]
        \/ job'[w] = [m EXCEPT !.pc = "idle", !.result = "same"]
        \/ job'[w] = [m EXCEPT !.pc = "idle", !.result = "newer"]
        \/ job'[w] = [m EXCEPT !.pc = "stage", !.synced = FALSE]
    BY <1>5, <1>6
  <2>. QED  BY <1>7, <2>1
<1>9. \A v \in Workers : Calm(v)
  BY <1>1, <1>2, <1>4, <1>5, <1>8 DEF Calm, Swap
<1>. QED  BY <1>1, <1>9, MoreFaults, CalmKeeps

\* An operation that ends, or is lost, with the target in place.
LEMMA EndKeepsCopies ==
  ASSUME InstallsInv, CopyInv, KeptInv, NEW w \in Workers, Active(w), NEW j,
         j.pc = "idle" \/ j.pc = "lost", job' = [job EXCEPT ![w] = j],
         job[w].pc \notin Swap,
         Stages(job[w].op) \/ UNCHANGED <<staging, backup>>,
         UNCHANGED <<target, installed>>, backup' \in {backup, NoDir},
         Fault \/ UNCHANGED bounds
  PROVE  CopyInv' /\ KeptInv'
<1>0. MayFail
  BY MoreFaults
<1>1. CASE Stages(job[w].op)
  <2>2. Remembers(j, staging', target', backup', Failures')
    BY DEF Remembers, Early
  <2>3. Safe' => Copy(target')
    <3>1. \A v \in Workers : job[v].pc \notin Swap
      BY <1>1, Alone
    <3>2. Safe' => Copy(target)
      BY <1>0, <3>1, FailuresCount DEF CopyInv
    <3>. QED  BY <3>2, CopyStays
  <2>4. \A d \in {target', backup'} : ~d.there => d = NoDir
    BY DEF KeptInv
  <2>. QED  BY <1>1, <2>2, <2>3, <2>4, StagingKeeps DEF Swap
<1>2. CASE UNCHANGED <<staging, backup>>
  <2>1. \A v \in Workers : Calm(v)
    <3>1. job'[w] = j /\ \A v \in Workers : v # w => job'[v] = job[v]
      BY CountFacts
    <3>. QED  BY <3>1 DEF Calm, Swap, Early
  <2>. QED  BY <1>0, <1>2, <2>1, CalmKeeps
<1>. QED  BY <1>1, <1>2

LEMMA ReportKeepsCopies ==
  ASSUME InstallsInv, CopyInv, KeptInv, NEW w \in Workers, NEW r, Active(w),
         job[w].pc \notin Swap, Stages(job[w].op) \/ UNCHANGED <<staging, backup>>,
         Report(w, r), UNCHANGED <<target, installed>>, backup' \in {backup, NoDir},
         Fault \/ UNCHANGED bounds
  PROVE  CopyInv' /\ KeptInv'
<1>. DEFINE j == [job[w] EXCEPT !.pc = "idle", !.result = r]
<1>1. j.pc = "idle" /\ job' = [job EXCEPT ![w] = j]
  BY JobFacts DEF Report
<1>. HIDE DEF j
<1>. QED  BY <1>1, EndKeepsCopies

LEMMA FailKeepsCopies ==
  ASSUME InstallsInv, CopyInv, KeptInv, NEW w \in Workers, Fail(w)
  PROVE  CopyInv' /\ KeptInv'
<1>1. /\ job[w].pc \in {"resolve", "download", "deps"} /\ Active(w) /\ Report(w, "error")
      /\ staging' = (IF job[w].op = "install" \/ ~At(w, "resolve") THEN NoDir ELSE staging)
      /\ UNCHANGED <<target, backup, installed, bounds>>
  BY DEF Fail, Abort, Active, At
<1>2. Stages(job[w].op) \/ UNCHANGED <<staging, backup>>
  BY <1>1 DEF InstallsInv, OpInv, Stages, At
<1>. QED  BY <1>1, <1>2, ReportKeepsCopies DEF Swap

LEMMA EscapeKeepsCopies ==
  ASSUME InstallsInv, CopyInv, KeptInv, NEW w \in Workers, Escape(w)
  PROVE  CopyInv' /\ KeptInv'
<1>1. /\ job[w].pc \in {"resolve", "download", "deps"} /\ Active(w) /\ Goto(w, "lost")
      /\ UNCHANGED <<target, staging, backup, installed, bounds>>
  BY DEF Escape, Active, At, dirs
<1>. DEFINE j == [job[w] EXCEPT !.pc = "lost"]
<1>2. j.pc = "lost" /\ job' = [job EXCEPT ![w] = j]
  BY <1>1, JobFacts DEF Goto
<1>. HIDE DEF j
<1>3. /\ job[w].pc \notin Swap /\ UNCHANGED <<staging, backup>> /\ UNCHANGED <<target, installed>>
      /\ backup' \in {backup, NoDir} /\ (Fault \/ UNCHANGED bounds)
  BY <1>1 DEF Swap
<1>. QED  BY <1>1, <1>2, <1>3, EndKeepsCopies

LEMMA StageKeepsCopies ==
  ASSUME InstallsInv, CopyInv, KeptInv, NEW w \in Workers, Stage(w)
  PROVE  CopyInv' /\ KeptInv'
<1>1. /\ job[w].pc = "stage" /\ Active(w) /\ UNCHANGED <<target, backup, installed>>
  BY DEF Stage, At, Active
<1>2. Stages(job[w].op)
  BY <1>1 DEF InstallsInv, OpInv
<1>3. CASE UNCHANGED bounds /\ Goto(w, IF job[w].commit = 0 THEN "resolve" ELSE "download")
  <2>1. PICK pc \in {"resolve", "download"} : Goto(w, pc)
    BY <1>3
  <2>. DEFINE j == [job[w] EXCEPT !.pc = pc]
  <2>2. j.pc = pc /\ j.op = job[w].op /\ j.before = job[w].before /\ job' = [job EXCEPT ![w] = j]
    BY <2>1, JobFacts DEF Goto
  <2>. HIDE DEF j
  <2>3. job[w].before = target
    BY <1>1, <1>2 DEF KeptInv, Remembers, Early
  <2>4. \A v \in Workers : Calm(v)
    <3>1. job'[w] = j /\ \A v \in Workers : v # w => job'[v] = job[v]
      BY <2>2, CountFacts
    <3>. QED  BY <1>1, <2>2, <2>3, <3>1 DEF Calm, Swap
  <2>5. NoneReplaces
    BY <1>1, <1>2, NoneElse DEF Swap
  <2>. QED  BY <1>1, <1>3, <2>4, <2>5, MoreFaults, CalmKeeps
<1>4. CASE Fault /\ Report(w, "error")
  BY <1>1, <1>2, <1>4, ReportKeepsCopies DEF Swap
<1>. QED  BY <1>3, <1>4 DEF Stage

-----------------------------------------------------------------------------
(* The swap. *)

LEMMA BackUpKeepsCopies ==
  ASSUME InstallsInv, CopyInv, KeptInv, NEW w \in Workers, BackUp(w)
  PROVE  CopyInv' /\ KeptInv'
<1>. DEFINE nested == [backup EXCEPT !.torn = TRUE, !.old = FALSE, !.files = @ \cup target.files]
<1>1. /\ job[w].pc = "back up" /\ Active(w) /\ target' = NoDir /\ UNCHANGED <<staging, installed>>
      /\ job' = [job EXCEPT ![w].pc = "replace", ![w].backedUp = target.there]
      /\ \/ backup' = target /\ UNCHANGED bounds
         \/ backup.there /\ Fault /\ backup' = nested
  BY DEF BackUp, At, Active
<1>n. nested.there = backup.there /\ nested.torn
  BY CountFacts DEF Dirs
<1>. HIDE DEF nested
<1>2. Stages(job[w].op) /\ (bounds.prunes = 0 => staging.there)
  BY <1>1 DEF InstallsInv, Types, OpInv, Staged, Finds
<1>3. job[w].before = target
  BY <1>1, <1>2 DEF KeptInv, Remembers, Early
<1>. DEFINE j == [job[w] EXCEPT !.pc = "replace", !.backedUp = target.there]
<1>4. /\ j.pc = "replace" /\ j.op = job[w].op /\ j.before = target /\ j.backedUp = target.there
      /\ job' = [job EXCEPT ![w] = j]
  <2>1. job \in [Workers -> Jobs]
    BY CountFacts
  <2>2. j.pc = "replace" /\ j.op = job[w].op /\ j.before = job[w].before /\ j.backedUp = target.there
    BY <2>1 DEF Jobs
  <2>3. job' = [job EXCEPT ![w] = j]
    BY <1>1, <2>1
  <2>. QED  BY <1>3, <2>2, <2>3
<1>. HIDE DEF j
<1>5. /\ Failures' = 0 \/ (Failures' = 1 /\ ~staging'.there) => backup' = target
      /\ ~staging'.there => Failures' # 0
  <2>1. bounds.faults \in Nat /\ bounds.prunes \in Nat
    BY CountFacts
  <2>2. Fault => bounds'.faults = bounds.faults + 1 /\ bounds'.prunes = bounds.prunes
    BY CountFacts
  <2>3. ~staging'.there => bounds.prunes # 0
    BY <1>1, <1>2
  <2>4. CASE backup' = target /\ UNCHANGED bounds
    BY <2>1, <2>3, <2>4 DEF Failures
  <2>5. CASE Fault
    BY <2>1, <2>2, <2>3, <2>5 DEF Failures
  <2>. QED  BY <1>1, <2>4, <2>5
<1>6. \A d \in {target, backup, target', backup'} : ~d.there => d = NoDir
  BY <1>1, <1>n DEF KeptInv
<1>7. Remembers(j, staging', target', backup', Failures')
  BY <1>1, <1>4, <1>5, <1>6 DEF Remembers, Early
<1>8. Safe' => Copy(backup') /\ target.there
  <2>. SUFFICES ASSUME Safe'
                PROVE  Copy(backup') /\ target.there
    OBVIOUS
  <2>1. \A v \in Workers : job[v].pc \notin Swap
    BY <1>1, <1>2, Alone DEF Swap
  <2>2. Copy(target)
    BY <1>1, <2>1, MoreFaults, FailuresCount DEF CopyInv
  <2>3. CASE backup' = target
    BY <2>2, <2>3, CopyStays DEF Copy
  <2>4. CASE backup.there /\ backup' = nested
    BY <1>n, <2>2, <2>4 DEF Copy, Kept
  <2>. QED  BY <1>1, <2>3, <2>4
<1>9. \A d \in {target', backup'} : ~d.there => d = NoDir
  BY <1>6
<1>10. j.pc \in Swap /\ j.backedUp = target.there
  BY <1>4 DEF Swap
<1>. QED  BY <1>1, <1>2, <1>4, <1>7, <1>8, <1>9, <1>10, StagingKeeps

LEMMA BackUpFailsKeepsCopies ==
  ASSUME InstallsInv, CopyInv, KeptInv, NEW w \in Workers, BackUpFails(w)
  PROVE  CopyInv' /\ KeptInv'
<1>1. /\ job[w].pc = "back up" /\ Active(w) /\ Fault /\ Report(w, "error")
      /\ UNCHANGED <<target, installed>> /\ backup' = NoDir
  BY DEF BackUpFails, At, Active
<1>2. Stages(job[w].op)
  BY <1>1 DEF InstallsInv, OpInv
<1>. QED  BY <1>1, <1>2, ReportKeepsCopies DEF Swap

LEMMA ReplaceKeepsCopies ==
  ASSUME InstallsInv, CopyInv, KeptInv, NEW w \in Workers, Replace(w)
  PROVE  CopyInv' /\ KeptInv'
<1>1. /\ job[w].pc = "replace" /\ Active(w) /\ staging.there /\ target' = staging
      /\ Goto(w, "save") /\ UNCHANGED <<backup, bounds>>
  BY DEF Replace, At, Active
<1>2. /\ Stages(job[w].op) /\ job[w].commit \in Commits
      /\ Ready(staging, job[w].commit) /\ (bounds.prunes = 0 => Located(staging))
  BY <1>1 DEF InstallsInv, OpInv, Staged, Finds
<1>3. Safe' => Copy(target')
  <2>1. Safe' => bounds.prunes = 0
    BY <1>1 DEF Safe
  <2>2. Located(staging) => Whole(staging)
    BY <1>2, ReadyFacts
  <2>3. Safe' => Copy(staging)
    BY <1>1, <1>2, <2>1, <2>2 DEF Copy, Kept
  <2>. QED  BY <1>1, <2>3, CopyStays
<1>. DEFINE j == [job[w] EXCEPT !.pc = "save"]
<1>4. j.pc = "save" /\ job' = [job EXCEPT ![w] = j]
  BY <1>1, JobFacts DEF Goto
<1>. HIDE DEF j
<1>5. Remembers(j, staging', target', backup', Failures')
  BY <1>4 DEF Remembers, Early
<1>6. \A d \in {target', backup'} : ~d.there => d = NoDir
  BY <1>1 DEF KeptInv
<1>. QED  BY <1>1, <1>2, <1>3, <1>4, <1>5, <1>6, StagingKeeps DEF Swap

\* A move fails without a fault where the clean-up took what it would move.
LEMMA ReplaceFailsKeepsCopies ==
  ASSUME InstallsInv, CopyInv, KeptInv, NEW w \in Workers, ReplaceFails(w)
  PROVE  CopyInv' /\ KeptInv'
<1>1. /\ job[w].pc = "replace" /\ Active(w) /\ target' = NoDir
      /\ Fault \/ (~staging.there /\ UNCHANGED bounds)
      /\ UNCHANGED <<backup, installed>>
      /\ \/ job[w].backedUp /\ Goto(w, "restore")
         \/ ~job[w].backedUp /\ Report(w, "error")
  BY DEF ReplaceFails, MoveFails, At, Active
<1>2. Stages(job[w].op)
  BY <1>1 DEF InstallsInv, OpInv
<1>3. MayFail
  BY <1>1, MoreFaults
<1>4. /\ Failures = 0 \/ (Failures = 1 /\ ~staging.there) => backup = job[w].before
      /\ ~staging.there => Failures # 0
  BY <1>1 DEF KeptInv, Remembers
<1>5. Safe' => Copy(backup) /\ job[w].backedUp
  BY <1>1, <1>3, FailuresCount DEF CopyInv, Swap
<1>6. \A d \in {target', backup'} : ~d.there => d = NoDir
  BY <1>1 DEF KeptInv
<1>7. CASE job[w].backedUp /\ Goto(w, "restore")
  <2>. DEFINE j == [job[w] EXCEPT !.pc = "restore"]
  <2>1. j.pc = "restore" /\ j.before = job[w].before /\ job' = [job EXCEPT ![w] = j]
    BY <1>7, JobFacts DEF Goto
  <2>. HIDE DEF j
  <2>2. Failures' # 0 /\ (Failures' = 1 => backup' = j.before)
    <3>1. bounds.faults \in Nat /\ bounds.prunes \in Nat
      BY CountFacts
    <3>2. Fault => bounds'.faults = bounds.faults + 1 /\ bounds'.prunes = bounds.prunes
      BY CountFacts
    <3>. QED  BY <1>1, <1>4, <2>1, <3>1, <3>2 DEF Failures
  <2>3. Remembers(j, staging', target', backup', Failures')
    BY <1>1, <2>1, <2>2 DEF Remembers, Early
  <2>4. Copy(backup) => Copy(backup')
    BY <1>1, CopyStays
  <2>. QED  BY <1>1, <1>2, <1>5, <1>6, <2>1, <2>3, <2>4, StagingKeeps DEF Swap
<1>8. CASE ~job[w].backedUp /\ Report(w, "error")
  <2>. DEFINE j == [job[w] EXCEPT !.pc = "idle", !.result = "error"]
  <2>1. j.pc = "idle" /\ job' = [job EXCEPT ![w] = j]
    BY <1>8, JobFacts DEF Report
  <2>. HIDE DEF j
  <2>2. Remembers(j, staging', target', backup', Failures')
    BY <2>1 DEF Remembers, Early
  <2>. QED  BY <1>1, <1>2, <1>5, <1>8, <1>6, <2>1, <2>2, StagingKeeps DEF Swap
<1>. QED  BY <1>1, <1>7, <1>8

LEMMA RestoreKeepsCopies ==
  ASSUME InstallsInv, CopyInv, KeptInv, NEW w \in Workers, Restore(w)
  PROVE  CopyInv' /\ KeptInv'
<1>1. /\ job[w].pc = "restore" /\ Active(w) /\ Report(w, "error") /\ UNCHANGED installed
      /\ \/ target' = backup /\ backup' = NoDir /\ UNCHANGED bounds
         \/ /\ Fault \/ (~backup.there /\ UNCHANGED bounds)
            /\ UNCHANGED <<target, backup>>
  BY DEF Restore, MoveFails, At, Active
<1>2. Stages(job[w].op)
  BY <1>1 DEF InstallsInv, OpInv
<1>3. MayFail
  BY <1>1, MoreFaults
<1>f. target = NoDir /\ Failures # 0 /\ Finds(job[w], staging, target, bounds.prunes, installed)
  BY <1>1 DEF KeptInv, Remembers, InstallsInv, Staged
<1>. DEFINE j == [job[w] EXCEPT !.pc = "idle", !.result = "error"]
<1>4. j.pc = "idle" /\ job' = [job EXCEPT ![w] = j]
  <2>1. Report(w, "error")
    BY <1>1
  <2>. QED  BY <2>1, JobFacts DEF Report
<1>. HIDE DEF j
<1>5. Remembers(j, staging', target', backup', Failures')
  BY <1>4 DEF Remembers, Early
<1>6. \A d \in {target', backup'} : ~d.there => d = NoDir
  BY <1>1, <1>f DEF KeptInv
<1>b. Safe' => Copy(backup)
  BY <1>1, <1>3, FailuresCount DEF CopyInv, Swap
<1>7. CASE target' = backup
  <2>1. Safe' => Copy(target')
    BY <1>7, <1>b, CopyStays
  <2>. QED  BY <1>1, <1>2, <1>4, <1>5, <1>6, <2>1, StagingKeeps DEF Swap
<1>8. CASE ~backup.there
  <2>1. ~Safe'
    BY <1>8, <1>b DEF Copy
  <2>. QED  BY <1>1, <1>2, <1>4, <1>5, <1>6, <2>1, StagingKeeps DEF Swap
<1>9. CASE Fault
  <2>1. ~Safe'
    <3>1. bounds.faults \in Nat /\ bounds.prunes \in Nat
      BY CountFacts
    <3>2. bounds'.faults = bounds.faults + 1 /\ bounds'.prunes = bounds.prunes
      BY <1>9, CountFacts
    <3>. QED  BY <1>f, <3>1, <3>2 DEF Safe, Failures
  <2>. QED  BY <1>1, <1>2, <1>4, <1>5, <1>6, <2>1, StagingKeeps DEF Swap
<1>. QED  BY <1>1, <1>7, <1>8, <1>9

LEMMA SaveKeepsCopies ==
  ASSUME InstallsInv, CopyInv, KeptInv, NEW w \in Workers, Save(w)
  PROVE  CopyInv' /\ KeptInv'
<1>1. /\ job[w].pc = "save" /\ Active(w) /\ UNCHANGED <<target, installed>> /\ backup' = NoDir
      /\ Fault \/ UNCHANGED bounds
      /\ \E r \in Results : Report(w, r)
  BY ErrorIsResult DEF Save, At, Active
<1>2. Stages(job[w].op)
  BY <1>1 DEF InstallsInv, OpInv
<1>. QED  BY <1>1, <1>2, ReportKeepsCopies DEF Swap

-----------------------------------------------------------------------------
(* The other steps. *)

LEMMA UnlinkKeepsCopies ==
  ASSUME InstallsInv, CopyInv, KeptInv, NEW w \in Workers, Unlink(w)
  PROVE  CopyInv' /\ KeptInv'
<1>1. /\ job[w].pc = "unlink" /\ Active(w) /\ UNCHANGED <<target, staging, backup, installed>>
      /\ Fault \/ UNCHANGED bounds
      /\ \E r \in Results : Report(w, r)
  BY ErrorIsResult DEF Unlink, At, Active, dirs
<1>. QED  BY <1>1, ReportKeepsCopies DEF Swap

LEMMA RemoveKeepsCopies ==
  ASSUME InstallsInv, CopyInv, KeptInv, NEW w \in Workers, Remove(w)
  PROVE  CopyInv' /\ KeptInv'
<1>1. job[w].pc = "remove" /\ Active(w) /\ UNCHANGED <<staging, backup, repo, head>>
  BY DEF Remove, At, Active
<1>2. CASE ~Located(target) /\ Report(w, "ok") /\ UNCHANGED <<target, installed, bounds>>
  BY <1>1, <1>2, ReportKeepsCopies DEF Swap
\* The others that stage are told of what is left of the target.
<1>3. ASSUME Located(target), NEW j, j.pc \in {"idle", "unlink"},
             job' = [v \in Workers |->
                      IF v = w THEN j ELSE [job[v] EXCEPT !.before = target']],
             ~target'.there => target' = NoDir,
             ~installed' \/ Copy(target')
      PROVE  CopyInv' /\ KeptInv'
  <2>0. \A d \in {target', backup'} : ~d.there => d = NoDir
    BY <1>1, <1>3 DEF KeptInv
  <2>1. target # NoDir
    BY <1>3 DEF Located, NoDir
  <2>2. \A v \in Workers : job[v].pc \notin Swap
    BY <2>1 DEF KeptInv, Remembers, Swap
  <2>3. /\ job'[w].pc \in {"idle", "unlink"}
        /\ \A v \in Workers : v # w =>
             /\ job'[v].pc = job[v].pc /\ job'[v].op = job[v].op /\ job'[v].before = target'
    BY <1>3, CountFacts DEF Jobs
  <2>4. \A v \in Workers : job'[v].pc \notin Swap
    BY <2>2, <2>3 DEF Swap
  <2>5. CopyInv'
    BY <1>3, <2>4 DEF CopyInv, Swap, Safe
  <2>6. \A v \in Workers : Remembers(job'[v], staging', target', backup', Failures')
    BY <2>3, <2>4 DEF Remembers, Swap, Early
  <2>. QED  BY <2>0, <2>5, <2>6 DEF KeptInv
<1>4. CASE /\ Located(target) /\ target' = NoDir /\ installed' = FALSE
           /\ job' = [v \in Workers |->
                IF v = w THEN [job[w] EXCEPT !.pc = "unlink"]
                ELSE [job[v] EXCEPT !.before = NoDir]]
  <2>. DEFINE j == [job[w] EXCEPT !.pc = "unlink"]
  <2>1. j.pc = "unlink"
    BY JobFacts
  <2>2. job' = [v \in Workers |-> IF v = w THEN j ELSE [job[v] EXCEPT !.before = target']]
    BY <1>4
  <2>. HIDE DEF j
  <2>. QED  BY <1>3, <1>4, <2>1, <2>2
<1>5. CASE /\ Located(target) /\ Fault
           /\ \E left \in SUBSET target.files :
                target' = [target EXCEPT !.torn = TRUE, !.old = FALSE, !.files = left]
           /\ job' = [v \in Workers |->
                IF v = w THEN [job[w] EXCEPT !.pc = "idle", !.result = "error"]
                ELSE [job[v] EXCEPT !.before = target']]
  <2>1. target \in Dirs /\ target.there
    BY <1>5 DEF InstallsInv, Types
  <2>2. target'.there /\ target'.torn
    BY <1>5, <2>1 DEF Dirs
  <2>3. Copy(target')
    BY <2>2 DEF Copy, Kept
  <2>. DEFINE j == [job[w] EXCEPT !.pc = "idle", !.result = "error"]
  <2>4. j.pc = "idle"
    BY JobFacts
  <2>5. job' = [v \in Workers |-> IF v = w THEN j ELSE [job[v] EXCEPT !.before = target']]
    BY <1>5
  <2>. HIDE DEF j
  <2>. QED  BY <1>3, <1>5, <2>2, <2>3, <2>4, <2>5
<1>. QED  BY <1>2, <1>4, <1>5 DEF Remove

LEMMA BeginKeepsCopies ==
  ASSUME InstallsInv, CopyInv, KeptInv, NEW w \in Workers,
         NEW op \in {"install", "update", "check", "uninstall"}, Begin(w, op)
  PROVE  CopyInv' /\ KeptInv'
<1>. DEFINE pc == CASE op = "install" -> "stage" [] op = "uninstall" -> "remove"
                    [] OTHER -> "resolve"
            j == [Idle EXCEPT !.op = op, !.since = head, !.before = target, !.pc = pc]
<1>1. /\ job[w].pc = "idle" /\ job' = [job EXCEPT ![w] = j]
      /\ UNCHANGED <<target, staging, backup, installed>>
      /\ bounds' = [bounds EXCEPT !.ops = @ + 1]
  BY DEF Begin, At, dirs
<1>2. j.before = target /\ j.pc = pc /\ pc \in {"stage", "remove", "resolve"}
  BY DEF Idle
<1>. HIDE DEF j
<1>3. MayFail
  <2>1. bounds \in Bounds
    BY DEF InstallsInv, Types
  <2>. QED  BY <1>1, <2>1 DEF MayFail, Bounds
<1>4. \A v \in Workers : Calm(v)
  <2>1. job'[w] = j /\ \A v \in Workers : v # w => job'[v] = job[v]
    BY <1>1, CountFacts
  <2>. QED  BY <1>1, <1>2, <2>1 DEF Calm, Swap
<1>. QED  BY <1>1, <1>3, <1>4, CalmKeeps

LEMMA CrashKeepsCopies ==
  ASSUME InstallsInv, CopyInv, KeptInv, NEW w \in Workers, Crash(w)
  PROVE  CopyInv' /\ KeptInv'
<1>1. /\ job' = [job EXCEPT ![w] = Idle] /\ UNCHANGED <<target, backup>>
      /\ bounds' = [bounds EXCEPT !.crashes = @ + 1]
      /\ UNCHANGED staging \/ At(w, "download") \/ At(w, "deps")
  BY DEF Crash
<1>2. bounds'.crashes = bounds.crashes + 1 /\ Failures' = Failures
  <2>1. bounds \in Bounds
    BY DEF InstallsInv, Types
  <2>. QED  BY <1>1, <2>1 DEF Bounds, Failures
<1>3. CopyInv'
  <2>1. bounds'.crashes # 0
    BY <1>2, CountFacts
  <2>. QED  BY <2>1 DEF CopyInv, Safe
<1>4. job'[w] = Idle /\ Idle.pc = "idle" /\ \A v \in Workers : v # w => job'[v] = job[v]
  BY <1>1, CountFacts DEF Idle
<1>5. ASSUME NEW v \in Workers
      PROVE  Remembers(job'[v], staging', target', backup', Failures')
  <2>1. CASE v = w
    BY <1>4, <2>1 DEF Remembers, Early
  <2>2. Remembers(job[v], staging, target, backup, Failures)
    BY DEF KeptInv
  <2>3. CASE v # w /\ UNCHANGED staging
    BY <1>1, <1>2, <1>4, <2>2, <2>3
  <2>4. CASE v # w /\ (At(w, "download") \/ At(w, "deps"))
    <3>1. Active(w) /\ Stages(job[w].op)
      BY <2>4 DEF Active, At, InstallsInv, OpInv
    <3>2. job[v].pc \notin Swap
      BY <2>4, <3>1, Alone
    <3>. QED  BY <1>1, <1>2, <1>4, <2>2, <2>4, <3>2 DEF Remembers, Swap
  <2>. QED  BY <1>1, <2>1, <2>3, <2>4
<1>6. \A d \in {target', backup'} : ~d.there => d = NoDir
  BY <1>1 DEF KeptInv
<1>. QED  BY <1>3, <1>5, <1>6 DEF KeptInv

\* Nobody stages anything when an hour passes.
LEMMA HourKeepsCopies ==
  ASSUME InstallsInv, CopyInv, KeptInv, HourPasses
  PROVE  CopyInv' /\ KeptInv'
<1>1. /\ \A v \in Workers : ~Installing(v)
      /\ target' = Aged(target) /\ backup' = Aged(backup)
      /\ UNCHANGED <<job, installed, bounds>>
  BY DEF HourPasses
<1>2. \A v \in Workers : job[v].pc \notin Swap /\ ~(Stages(job[v].op) /\ job[v].pc \in Early)
  BY <1>1 DEF InstallsInv, OpInv, Swap, Early, Stages, Installing, Active, At
<1>3. CopyInv'
  <2>1. Safe' => Copy(target)
    BY <1>1, <1>2 DEF CopyInv, Safe
  <2>2. Copy(target) => Copy(target')
    BY <1>1, CountFacts, AgedFacts DEF Copy, Kept, Whole, Located
  <2>. QED  BY <1>1, <1>2, <2>1, <2>2 DEF CopyInv, Swap
<1>4. \A v \in Workers : Remembers(job'[v], staging', target', backup', Failures')
  BY <1>1, <1>2 DEF Remembers, Swap
<1>5. \A d \in {target', backup'} : ~d.there => d = NoDir
  <2>1. Aged(NoDir) = NoDir
    <3>1. ~NoDir.there
      BY DEF NoDir
    <3>. QED  BY <3>1 DEF Aged
  <2>2. target \in Dirs /\ backup \in Dirs
    BY CountFacts
  <2>3. Aged(target).there = target.there /\ Aged(backup).there = backup.there
    BY <2>2, AgedFacts
  <2>4. (~target.there => target = NoDir) /\ (~backup.there => backup = NoDir)
    BY DEF KeptInv
  <2>5. (~target'.there => target' = NoDir) /\ (~backup'.there => backup' = NoDir)
    BY <1>1, <2>1, <2>3, <2>4
  <2>. QED  BY <2>5
<1>. QED  BY <1>3, <1>4, <1>5 DEF KeptInv

\* The clean-up can take one of what a swap needs and be one of its failures.
LEMMA PruneKeepsCopies ==
  ASSUME InstallsInv, CopyInv, KeptInv, Prune
  PROVE  CopyInv' /\ KeptInv'
<1>1. /\ UNCHANGED <<target, job, installed>>
      /\ \/ staging' = NoDir /\ UNCHANGED backup
         \/ backup' = NoDir /\ UNCHANGED staging
  BY DEF Prune
<1>2. \A d \in {target', backup'} : ~d.there => d = NoDir
  BY <1>1 DEF KeptInv
<1>n. ~NoDir.there
  BY DEF NoDir
<1>3. CASE \A v \in Workers : ~Installing(v)
  <2>1. \A v \in Workers : job[v].pc \notin Swap
    BY <1>3 DEF InstallsInv, OpInv, Swap, Stages, Installing, Active, At
  <2>2. UNCHANGED bounds
    BY <1>3 DEF Prune
  <2>3. CopyInv'
    <3>1. Safe' => Copy(target)
      BY <1>1, <2>1, <2>2 DEF CopyInv, Safe
    <3>2. Safe' => Copy(target')
      BY <1>1, <3>1, CopyStays
    <3>. QED  BY <1>1, <2>1, <3>2 DEF CopyInv, Swap
  <2>4. \A v \in Workers : Remembers(job'[v], staging', target', backup', Failures')
    BY <1>1, <2>1 DEF KeptInv, Remembers, Swap
  <2>. QED  BY <1>2, <2>3, <2>4 DEF KeptInv
<1>4. CASE \E v \in Workers : Installing(v)
  <2>0. bounds.prunes \in Nat /\ bounds.faults \in Nat
    BY CountFacts
  <2>1. bounds'.prunes = bounds.prunes + 1 /\ bounds'.faults = bounds.faults
    <3>1. bounds' = [bounds EXCEPT !.prunes = @ + 1] /\ bounds \in Bounds
      BY <1>4 DEF Prune, InstallsInv, Types
    <3>. QED  BY <3>1 DEF Bounds
  <2>2. Failures \in Nat /\ Failures' = Failures + 1 /\ ~Safe'
    BY <2>0, <2>1 DEF Failures, Safe
  <2>3. CopyInv'
    BY <2>2 DEF CopyInv
  <2>4. ASSUME NEW v \in Workers
        PROVE  Remembers(job'[v], staging', target', backup', Failures')
    <3>1. Remembers(job[v], staging, target, backup, Failures)
      BY DEF KeptInv
    <3>2. CASE staging' = NoDir /\ UNCHANGED backup
      BY <1>1, <1>n, <2>2, <3>1, <3>2 DEF Remembers
    <3>3. CASE backup' = NoDir /\ UNCHANGED staging
      BY <1>1, <1>n, <2>2, <3>1, <3>3 DEF Remembers
    <3>. QED  BY <1>1, <3>2, <3>3
  <2>. QED  BY <1>2, <2>3, <2>4 DEF KeptInv
<1>. QED  BY <1>3, <1>4

LEMMA StillKeepsCopies ==
  ASSUME InstallsInv, CopyInv, KeptInv, Push \/ UNCHANGED vars
  PROVE  CopyInv' /\ KeptInv'
<1>1. UNCHANGED <<target, staging, backup, installed, job, bounds>>
  BY DEF Push, vars, dirs
<1>2. \A v \in Workers : Calm(v)
  BY <1>1 DEF Calm
<1>. QED  BY <1>1, <1>2, MoreFaults, CalmKeeps

LEMMA NextKeepsCopies == InstallsInv /\ CopyInv /\ KeptInv /\ [Next]_vars => CopyInv' /\ KeptInv'
<1>. SUFFICES ASSUME InstallsInv, CopyInv, KeptInv, [Next]_vars PROVE CopyInv' /\ KeptInv'
  OBVIOUS
<1>1. ASSUME NEW w \in Workers, Step(w) PROVE CopyInv' /\ KeptInv'
  <2>1. CASE Fetch(w) \/ Resolve(w)
    BY <2>1, FetchKeepsCopies, ResolveKeepsCopies
  <2>2. CASE Stage(w)
    BY <2>2, StageKeepsCopies
  <2>3. CASE Extract(w) \/ Checkout(w) \/ InstallDeps(w) \/ Stopped(w)
    BY <2>3, ChainKeepsCopies
  <2>4. CASE Fail(w)
    BY <2>4, FailKeepsCopies
  <2>5. CASE BackUp(w) \/ BackUpFails(w)
    BY <2>5, BackUpKeepsCopies, BackUpFailsKeepsCopies
  <2>6. CASE Replace(w) \/ ReplaceFails(w)
    BY <2>6, ReplaceKeepsCopies, ReplaceFailsKeepsCopies
  <2>7. CASE Restore(w) \/ Save(w)
    BY <2>7, RestoreKeepsCopies, SaveKeepsCopies
  <2>8. CASE Remove(w) \/ Unlink(w)
    BY <2>8, RemoveKeepsCopies, UnlinkKeepsCopies
  <2>. QED  BY <1>1, <2>1, <2>2, <2>3, <2>4, <2>5, <2>6, <2>7, <2>8 DEF Step
<1>2. ASSUME NEW w \in Workers, NEW op \in {"install", "update", "check", "uninstall"},
             Begin(w, op)
      PROVE  CopyInv' /\ KeptInv'
  BY <1>2, BeginKeepsCopies
<1>3. ASSUME NEW w \in Workers, Crash(w) \/ Escape(w) PROVE CopyInv' /\ KeptInv'
  BY <1>3, CrashKeepsCopies, EscapeKeepsCopies
<1>4. CASE Prune \/ HourPasses
  BY <1>4, PruneKeepsCopies, HourKeepsCopies
<1>5. CASE Push \/ UNCHANGED vars
  BY <1>5, StillKeepsCopies
<1>. QED  BY <1>1, <1>2, <1>3, <1>4, <1>5 DEF Next

LEMMA CopiesHold == Spec => [](CopyInv /\ KeptInv)
<1>1. Init => CopyInv /\ KeptInv
  BY InitCopies
<1>2. InstallsInv /\ CopyInv /\ KeptInv /\ [Next]_vars => CopyInv' /\ KeptInv'
  BY NextKeepsCopies
<1>. QED  BY <1>1, <1>2, InstallsInvHolds, PTL DEF Spec

\* _swap_dir: at every instant, a copy of what is installed is at its place or
\* in the backup, and one failing call does not lose it, as long as the clean-up
\* of another process takes nothing from the operation.
THEOREM CopySurvives == Spec => []LastCopySurvives
<1>1. CopyInv => LastCopySurvives
  <2>1. CopyInv /\ Safe => Copy(target) \/ Copy(backup)
    BY DEF CopyInv
  <2>. QED  BY <2>1 DEF Copy, Safe, LastCopySurvives
<1>. QED  BY <1>1, CopiesHold, PTL

-----------------------------------------------------------------------------

\* The steps that report an error, and what they leave at the target.
LEMMA FailuresKeep ==
  ASSUME InstallsInv, KeptInv, NEW w \in Workers, Step(w), Installing(w), ~At(w, "save"),
         job'[w].pc = "idle", job'[w].result = "error", Failures' <= 1
  PROVE  target' = job[w].before
<1>1. Stages(job[w].op) /\ job[w].pc # "idle" /\ job \in [Workers -> Jobs]
  BY CountFacts DEF Installing, Active, At
<1>2. Remembers(job[w], staging, target, backup, Failures)
  BY DEF KeptInv
<1>3. job[w].pc \in Early => job[w].before = target
  BY <1>1, <1>2 DEF Remembers
<1>4. ASSUME NEW pc \in Pcs, Goto(w, pc), pc # "idle" PROVE FALSE
  BY <1>1, <1>4 DEF Goto, Jobs
<1>5. ~Fetch(w)
  BY <1>1 DEF Fetch, Jobs
<1>6. ~Resolve(w)
  BY ResolvedResult
<1>7. CASE Stage(w) \/ Fail(w) \/ BackUpFails(w)
  <2>1. UNCHANGED target /\ job[w].pc \in Early
    BY <1>7 DEF Stage, Fail, Abort, BackUpFails, At, Early
  <2>. QED  BY <1>3, <2>1
<1>8. ~(Extract(w) \/ Checkout(w) \/ InstallDeps(w) \/ Stopped(w) \/ Replace(w))
  <2>1. {"deps", "stop", "back up", "save"} \subseteq Pcs
    BY DEF Pcs
  <2>. QED  BY <1>4, <2>1 DEF Extract, Checkout, InstallDeps, Stopped, Replace
<1>9. ASSUME BackUp(w) PROVE FALSE
  <2>1. job' = [job EXCEPT ![w].pc = "replace", ![w].backedUp = target.there]
    BY <1>9 DEF BackUp
  <2>. QED  BY <1>1, <2>1 DEF Jobs
<1>10. CASE ReplaceFails(w)
  <2>1. "restore" \in Pcs
    BY DEF Pcs
  <2>2. ~job[w].backedUp /\ job[w].pc = "replace" /\ target' = NoDir
    BY <1>4, <1>10, <2>1 DEF ReplaceFails, At
  <2>. QED  BY <1>2, <2>2 DEF Remembers
<1>11. CASE Restore(w)
  <2>1. /\ job[w].pc = "restore" /\ target = NoDir /\ Failures # 0
        /\ Failures = 1 => backup = job[w].before
        /\ ~backup.there => backup = NoDir
    BY <1>2, <1>11 DEF Restore, At, Remembers, KeptInv
  <2>2. bounds.faults \in Nat /\ bounds.prunes \in Nat
    BY CountFacts
  <2>3. ~Fault
    <3>1. Fault => bounds'.faults = bounds.faults + 1 /\ bounds'.prunes = bounds.prunes
      BY CountFacts
    <3>. QED  BY <2>1, <2>2, <3>1 DEF Failures
  <2>4. target' = backup \/ (~backup.there /\ UNCHANGED target)
    BY <1>11, <2>3 DEF Restore, MoveFails
  <2>5. UNCHANGED bounds
    BY <1>11, <2>3 DEF Restore, MoveFails
  <2>6. Failures = 1
    BY <2>1, <2>2, <2>5 DEF Failures
  <2>. QED  BY <2>1, <2>4, <2>6
<1>12. ~Save(w)
  BY DEF Save
<1>13. ~Remove(w) /\ ~Unlink(w)
  BY <1>1 DEF Remove, Unlink, At, InstallsInv, OpInv, Stages
<1>. QED  BY <1>5, <1>6, <1>7, <1>8, <1>9, <1>10, <1>11, <1>12, <1>13 DEF Step

\* An install or an update that fails leaves at the target what was there
\* when it began, whichever step of the chain failed, or what the clean-up of
\* another process took meanwhile.
THEOREM FailureLeavesTarget == Spec => FailureKeepsTarget
<1>. DEFINE P(w) == Installing(w) /\ ~At(w, "save") /\ job'[w].pc = "idle"
                         /\ job'[w].result = "error" /\ bounds'.faults + bounds'.prunes <= 1
                      => target' = job[w].before
<1>1. ASSUME InstallsInv, KeptInv, [Next]_vars, NEW w \in Workers PROVE P(w)
  <2>. SUFFICES ASSUME Installing(w), ~At(w, "save"), job'[w].pc = "idle",
                       job'[w].result = "error", bounds'.faults + bounds'.prunes <= 1
                PROVE  target' = job[w].before
    OBVIOUS
  <2>1. Step(w) \/ Crash(w)
    BY <1>1, EndsItself DEF Installing, Active, At
  <2>2. ASSUME Crash(w) PROVE FALSE
    <3>1. job'[w] = Idle
      BY <1>1, <2>2, CountFacts DEF Crash
    <3>. QED  BY <3>1 DEF Idle
  <2>3. Failures' <= 1
    BY DEF Failures
  <2>. QED  BY <1>1, <2>1, <2>2, <2>3, FailuresKeep
<1>2. InstallsInv /\ KeptInv /\ [Next]_vars => [\A w \in Workers : P(w)]_vars
  BY <1>1
<1>. QED  BY <1>2, InstallsInvHolds, CopiesHold, PTL DEF Spec, FailureKeepsTarget

=============================================================================
