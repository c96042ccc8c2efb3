-------------------------- MODULE ExtensionService --------------------------
(***************************************************************************)
(* The extension lifecycle of the app: ExtensionService, the registry      *)
(* operations it runs as jobs, the runtime of each extension process, the  *)
(* state file each record caches, and the CLI commands that change the     *)
(* same directories and state files from another process.                  *)
(*                                                                         *)
(* The service runs on the GLib main loop.  A handler of the loop runs to  *)
(* completion, but it is a chain of nested calls and callbacks; `stack` is *)
(* its call stack, top first, and a frame is what a caller still has to    *)
(* run.  Actions of the loop that begin a handler need MainLoop; the       *)
(* actions named after a frame run the frame on top.  Other processes (the *)
(* extensions, the CLI) may take their steps between two of them.          *)
(***************************************************************************)
EXTENDS Naturals, Sequences

CONSTANTS Ids,        \* extension ids
          SystemIds,  \* the ids that also have a distro-packaged, read-only copy
          Versions,   \* contents a user directory can hold
          Pids,       \* slots for extension processes
          Requests,   \* what the environment asks of the app in this instance
          MaxJobs,    \* bound on the queue a new request may join
          None

Callbacks == {"release", "swap", "swap_system", "remove"}
Ops       == Callbacks \cup {"drain", "reconcile", "exit_rest"}
Frames    == [op : Ops, id : Ids]
Kinds     == {"install", "update", "uninstall", "restart"}
Stages    == {"none", "remote", "remote_system", "local"}
Conf      == [enabled : BOOLEAN, error : BOOLEAN]
Copies    == Versions \cup {"system", "dev"}

ASSUME ServiceAssumption ==
  /\ SystemIds \subseteq Ids
  /\ None \notin Ids \cup Pids \cup Copies \cup Seq(Callbacks) \cup Conf
  /\ Versions \cap {"system", "dev"} = {}
  /\ MaxJobs \in Nat

VARIABLES
  activated,     \* _start_extensions has run (or is running)
  starting,      \* the ids _start_extensions has still to visit
  runtime,       \* per id: the process the service considers running, or None
  pending_stop,  \* per id: None, or the callbacks to fire when the process exits
  jobs,          \* per id: the queued jobs
  job,           \* per id: the stage of the active job, "none" when job_active is False
  draining,      \* per id: the loop of _run_next_job is on the stack
  stack,         \* the frames of the running handler, top first
  preview,       \* the id of the preview overlay, or None
  previewLog,    \* the id whose log is mirrored to the preview log file, or None
  proc,          \* the process slots
  cache,         \* per id: the ExtensionState instance the app's records share, None until one is made
  file,          \* per id: the state file, or None
  userDir,       \* per id: the content of the directory under USER_EXTENSIONS, or None
  cli            \* per id: the CLI command under way

service == <<activated, starting, runtime, pending_stop, jobs, job, draining, stack, preview, previewLog>>
disk    == <<cache, file, userDir>>
vars    == <<service, proc, disk, cli>>

Default == [enabled |-> TRUE, error |-> FALSE]
Free    == [status |-> "free", id |-> None, rec |-> "installed", copy |-> "dev"]
CliIdle == [pc |-> "idle", conf |-> Default]

\* "stopping" is aborted and alive; "crashed" and "stopped" are reaped, the exit not yet handled.
Procs ==
  {r \in [status : {"free", "alive", "stopping", "crashed", "stopped"}, id : Ids \cup {None},
          rec : {"installed", "preview", "superseded"}, copy : Copies] :
     r.status # "free" => r.id \in Ids}

TypeOK ==
  /\ activated \in BOOLEAN
  /\ starting \subseteq Ids
  /\ runtime \in [Ids -> Pids \cup {None}]
  /\ pending_stop \in [Ids -> Seq(Callbacks) \cup {None}]
  /\ jobs \in [Ids -> Seq(Kinds)]
  /\ job \in [Ids -> Stages]
  /\ draining \in [Ids -> BOOLEAN]
  /\ stack \in Seq(Frames)
  /\ preview \in Ids \cup {None}
  /\ previewLog \in Ids \cup {None}
  /\ proc \in [Pids -> Procs]
  /\ cache \in [Ids -> Conf \cup {None}]
  /\ file \in [Ids -> Conf \cup {None}]
  /\ userDir \in [Ids -> Versions \cup {None}]
  /\ cli \in [Ids -> [pc : {"idle", "download", "removed", "written"}, conf : Conf]]

-----------------------------------------------------------------------------
(* Records *)

\* The copy extension_finder.locate finds: the user's directory shadows the system's.
Installed(id) ==
  IF userDir[id] # None THEN userDir[id] ELSE IF id \in SystemIds THEN "system" ELSE None

\* What loading the state file leaves in the cached instance (reload_state).
Reloaded(id) == IF file[id] = None THEN Default ELSE file[id]

\* The state a record of the id works on: the shared instance, read from the file when first made.
Cached(id) == IF cache[id] = None THEN Reloaded(id) ELSE cache[id]
Init ==
  /\ activated = FALSE
  /\ starting = {}
  /\ runtime = [i \in Ids |-> None]
  /\ pending_stop = [i \in Ids |-> None]
  /\ jobs = [i \in Ids |-> <<>>]
  /\ job = [i \in Ids |-> "none"]
  /\ draining = [i \in Ids |-> FALSE]
  /\ stack = <<>>
  /\ preview = None
  /\ previewLog = None
  /\ proc = [p \in Pids |-> Free]
  /\ file \in [Ids -> Conf \cup {None}]
  /\ userDir \in [Ids -> Versions \cup {None}]
  /\ cache = [i \in Ids |-> None]
  /\ cli = [i \in Ids |-> CliIdle]

-----------------------------------------------------------------------------
\* Whether get() returns a record, and whether that record is enabled under `conf`.
Resolves(id) == preview = id \/ Installed(id) # None
IsEnabled(id, conf) == preview = id \/ (conf.enabled /\ ~conf.error)

Push(frame, rest) == <<frame>> \o rest
Load(id) == cache' = [cache EXCEPT ![id] = Cached(id)]

\* The process table with the status of one process changed.
Marked(p, status) == [proc EXCEPT ![p] = [@ EXCEPT !.status = status]]

Frame(op, id) == [op |-> op, id |-> id]
Calls(id, cbs) == [k \in DOMAIN cbs |-> Frame(cbs[k], id)]
Runs(op, id) == stack # <<>> /\ Head(stack) = Frame(op, id)
MainLoop == stack = <<>> /\ starting = {}

-----------------------------------------------------------------------------
(* The building blocks of the handlers.  `rest` is the stack below the caller. *)

\* Mutant of EnterDrain: no `draining` flag, so a release inside the loop enters it again.
EnterDrainAgain(id, rest) ==
  /\ draining' = [draining EXCEPT ![id] = TRUE]
  /\ stack' = Push(Frame("drain", id), rest)

\* _run_next_job: enter the loop unless it is already on the stack.
EnterDrain(id, rest) ==
  /\ draining' = [draining EXCEPT ![id] = TRUE]
  /\ stack' = IF draining[id] THEN rest ELSE Push(Frame("drain", id), rest)

\* Mutant of StopProcess: a stop nobody waits for is not recorded as in flight.
StopProcessUnrecorded(id, cbs, rest) ==
  LET p == runtime[id]
  IN  \/ /\ p # None
         /\ runtime' = [runtime EXCEPT ![id] = None]
         /\ pending_stop' = [pending_stop EXCEPT ![id] = IF cbs = <<>> THEN None ELSE cbs]
         /\ proc' = IF proc[p].status = "alive" THEN Marked(p, "stopping") ELSE proc
         /\ stack' = rest
      \/ /\ p = None
         /\ pending_stop' = IF pending_stop[id] = None THEN pending_stop
                            ELSE [pending_stop EXCEPT ![id] = @ \o cbs]
         /\ stack' = IF pending_stop[id] = None THEN Calls(id, cbs) \o rest ELSE rest
         /\ UNCHANGED <<runtime, proc>>

\* Mutant of StopProcess: the callbacks fire when the stop is requested, not on the exit.
StopProcessEagerly(id, cbs, rest) ==
  LET p == runtime[id]
  IN  /\ runtime' = [runtime EXCEPT ![id] = None]
      /\ pending_stop' = IF p # None THEN [pending_stop EXCEPT ![id] = <<>>] ELSE pending_stop
      /\ proc' = IF p # None /\ proc[p].status = "alive" THEN Marked(p, "stopping") ELSE proc
      /\ stack' = Calls(id, cbs) \o rest

\* Mutant of StopProcess: a callback that joins a stop in flight is dropped.
StopProcessOnce(id, cbs, rest) ==
  LET p == runtime[id]
  IN  \/ /\ p # None
         /\ runtime' = [runtime EXCEPT ![id] = None]
         /\ pending_stop' = [pending_stop EXCEPT ![id] = cbs]
         /\ proc' = IF proc[p].status = "alive" THEN Marked(p, "stopping") ELSE proc
         /\ stack' = rest
      \/ /\ p = None
         /\ stack' = IF pending_stop[id] = None THEN Calls(id, cbs) \o rest ELSE rest
         /\ UNCHANGED <<runtime, pending_stop, proc>>

\* _stop with the callbacks `cbs` (none or one); a reaped process is not marked aborted.
StopProcess(id, cbs, rest) ==
  LET p == runtime[id]
  IN  \/ /\ p # None
         /\ runtime' = [runtime EXCEPT ![id] = None]
         /\ pending_stop' = [pending_stop EXCEPT ![id] = cbs]
         /\ proc' = IF proc[p].status = "alive" THEN Marked(p, "stopping") ELSE proc
         /\ stack' = rest
      \/ /\ p = None /\ pending_stop[id] # None
         /\ pending_stop' = [pending_stop EXCEPT ![id] = @ \o cbs]
         /\ stack' = rest
         /\ UNCHANGED <<runtime, proc>>
      \/ /\ p = None /\ pending_stop[id] = None
         /\ stack' = Calls(id, cbs) \o rest
         /\ UNCHANGED <<runtime, pending_stop, proc>>

\* The end of exit_handler: drain the stop callbacks; reconcile after an intentional stop only.
DrainStop(id, errored, rest) ==
  LET callbacks == IF pending_stop[id] = None THEN <<>> ELSE pending_stop[id]
  IN  /\ pending_stop' = [pending_stop EXCEPT ![id] = None]
      /\ stack' = Calls(id, callbacks)
                    \o (IF errored THEN <<>> ELSE <<Frame("reconcile", id)>>) \o rest

\* exit_handler of a process (or a failed start) of record `rec`, `conf` being its cached state.
\* A dead current preview is torn down (stop_preview) before the rest of the handler runs.
ExitHandler(id, rec, errored, conf, rest) ==
  LET persist == errored /\ rec = "installed"
      failed  == [conf EXCEPT !.error = TRUE]
  IN  /\ runtime' = IF errored THEN [runtime EXCEPT ![id] = None] ELSE runtime
      /\ cache' = [cache EXCEPT ![id] = IF persist THEN failed ELSE conf]
      /\ file' = IF persist THEN [file EXCEPT ![id] = failed] ELSE file
      /\ IF errored /\ rec = "preview"
         THEN /\ preview' = None
              /\ previewLog' = None
              /\ jobs' = [jobs EXCEPT ![id] = Append(@, "restart")]
              /\ EnterDrain(id, Push(Frame("exit_rest", id), rest))
              /\ UNCHANGED pending_stop
         ELSE /\ DrainStop(id, errored, rest)
              /\ UNCHANGED <<preview, previewLog, jobs, draining>>

\* start_extension past its guards: the error is cleared, then the process is spawned or the
\* start fails (Invalid, Incompatible, FailedToStart).
StartExtension(id, conf, rest) ==
  LET rec     == IF preview = id THEN "preview" ELSE "installed"
      copy    == IF preview = id THEN "dev" ELSE Installed(id)
      cleared == IF preview = id THEN conf ELSE [conf EXCEPT !.error = FALSE]
  IN  \/ \E p \in Pids :
           /\ proc[p].status = "free" /\ copy # None
           /\ proc' = [proc EXCEPT ![p] = [status |-> "alive", id |-> id, rec |-> rec, copy |-> copy]]
           /\ runtime' = [runtime EXCEPT ![id] = p]
           /\ cache' = [cache EXCEPT ![id] = cleared]
           /\ file' = IF preview = id THEN file ELSE [file EXCEPT ![id] = cleared]
           /\ stack' = rest
           /\ UNCHANGED <<pending_stop, jobs, draining, preview, previewLog>>
      \/ /\ ExitHandler(id, rec, TRUE, cleared, rest)
         /\ UNCHANGED proc

\* The record a live process was spawned from is no longer the current preview record.
Supersede(procs) ==
  [p \in Pids |-> IF procs[p].rec = "preview" THEN [procs[p] EXCEPT !.rec = "superseded"] ELSE procs[p]]

-----------------------------------------------------------------------------
(* Frames *)

\* The next queued job starts: the loop of _run_next_job, _start_job, and the job's first calls.
StartJob(id) ==
  /\ Runs("drain", id)
  /\ job[id] = "none" /\ jobs[id] # <<>>
  /\ jobs' = [jobs EXCEPT ![id] = Tail(@)]
  /\ LET kind == Head(jobs[id])
         Begin(stage) == job' = [job EXCEPT ![id] = stage]
         \* the job reports an error or has nothing to do, and releases synchronously
         Finish == /\ Begin("local")
                   /\ stack' = Push(Frame("release", id), stack)
                   /\ UNCHANGED <<runtime, pending_stop, proc>>
         Await(stage) == /\ Begin(stage)
                         /\ UNCHANGED <<stack, runtime, pending_stop, proc>>
     IN  \/ kind = "restart" /\ Begin("local") /\ StopProcess(id, <<"release">>, stack)
         \/ kind = "install" /\ (Await("remote") \/ Finish)
         \/ kind = "update" /\ Installed(id) = None /\ Finish
         \/ /\ kind = "update" /\ Installed(id) # None
            /\ Finish \/ Await(IF userDir[id] # None THEN "remote" ELSE "remote_system")
         \/ kind = "uninstall" /\ userDir[id] = None /\ Finish
         \/ /\ kind = "uninstall" /\ userDir[id] # None
            /\ Begin("local")
            /\ IF runtime[id] # None /\ proc[runtime[id]].rec # "installed"
               THEN stack' = Push(Frame("remove", id), stack) /\ UNCHANGED <<runtime, pending_stop, proc>>
               ELSE StopProcess(id, <<"remove">>, stack)
  /\ IF Head(jobs[id]) = "install" \/ (Head(jobs[id]) # "restart" /\ Installed(id) # None)
     THEN Load(id) ELSE UNCHANGED cache
  /\ UNCHANGED <<activated, starting, draining, preview, previewLog, file, userDir, cli>>

\* Mutant of DrainDone: a drained queue is not followed by a reconcile.
DrainDoneOnly(id) ==
  /\ Runs("drain", id)
  /\ job[id] # "none" \/ jobs[id] = <<>>
  /\ draining' = [draining EXCEPT ![id] = FALSE]
  /\ stack' = Tail(stack)
  /\ UNCHANGED <<activated, starting, runtime, pending_stop, jobs, job, preview, previewLog, proc, disk, cli>>

\* The loop of _run_next_job ends; a drained queue is followed by a reconcile.
DrainDone(id) ==
  /\ Runs("drain", id)
  /\ job[id] # "none" \/ jobs[id] = <<>>
  /\ draining' = [draining EXCEPT ![id] = FALSE]
  /\ stack' = IF job[id] = "none" THEN Push(Frame("reconcile", id), Tail(stack)) ELSE Tail(stack)
  /\ UNCHANGED <<activated, starting, runtime, pending_stop, jobs, job, preview, previewLog, proc, disk, cli>>

\* release(): the job is over and the queue goes on.
Release(id) ==
  /\ Runs("release", id)
  /\ job' = [job EXCEPT ![id] = "none"]
  /\ EnterDrain(id, Tail(stack))
  /\ UNCHANGED <<activated, starting, runtime, pending_stop, jobs, preview, previewLog, proc, disk, cli>>

\* Mutant of Reconcile: a stop in flight does not hold the id.
ReconcileDuringStop(id) ==
  /\ Runs("reconcile", id)
  /\ LET conf   == IF Resolves(id) THEN Reloaded(id) ELSE cache[id]
         wanted == Resolves(id) /\ IsEnabled(id, conf)
     IN  IF job[id] = "none" /\ wanted /\ runtime[id] = None
         THEN StartExtension(id, conf, Tail(stack))
         ELSE /\ IF job[id] = "none" /\ ~wanted THEN StopProcess(id, <<>>, Tail(stack))
                 ELSE stack' = Tail(stack) /\ UNCHANGED <<runtime, pending_stop, proc>>
              /\ cache' = IF job[id] = "none" THEN [cache EXCEPT ![id] = conf] ELSE cache
              /\ UNCHANGED <<jobs, draining, preview, previewLog, file>>
  /\ UNCHANGED <<activated, starting, job, userDir, cli>>

\* _reconcile: the state file is re-read and the process aligned with it.
Reconcile(id) ==
  /\ Runs("reconcile", id)
  /\ LET busy   == job[id] # "none" \/ pending_stop[id] # None
         conf   == IF Resolves(id) THEN Reloaded(id) ELSE cache[id]
         wanted == Resolves(id) /\ IsEnabled(id, conf)
     IN  \/ /\ ~busy /\ wanted /\ runtime[id] = None
            /\ StartExtension(id, conf, Tail(stack))
         \/ /\ ~busy /\ ~wanted /\ runtime[id] # None
            /\ StopProcess(id, <<>>, Tail(stack))
            /\ cache' = [cache EXCEPT ![id] = conf]
            /\ UNCHANGED <<jobs, draining, preview, previewLog, file>>
         \/ /\ busy \/ (wanted <=> runtime[id] # None)
            /\ stack' = Tail(stack)
            /\ cache' = IF busy THEN cache ELSE [cache EXCEPT ![id] = conf]
            /\ UNCHANGED <<runtime, pending_stop, jobs, draining, preview, previewLog, proc, file>>
  /\ UNCHANGED <<activated, starting, job, userDir, cli>>

\* Mutant of Swap: a failed swap restores the copy that is located, not the one it backed up.
SwapRestoresLocated(id) ==
  /\ Runs("swap", id)
  /\ stack' = Push(Frame("release", id), Tail(stack))
  /\ userDir' \in {[userDir EXCEPT ![id] = v] : v \in Versions \cup {Installed(id)}}
  /\ UNCHANGED <<activated, starting, runtime, pending_stop, jobs, job, draining, preview, previewLog,
                 proc, cache, file, cli>>

\* swap_and_finish: the staged files replace the user copy and the installed state is saved.
\* The swap can fail with the old copy kept, or lost; the save can fail after the swap.
Swap(id) ==
  /\ Runs("swap", id)
  /\ stack' = Push(Frame("release", id), Tail(stack))
  /\ \/ /\ \E v \in Versions \ {userDir[id]} : userDir' = [userDir EXCEPT ![id] = v]
        /\ LET saved == [Cached(id) EXCEPT !.error = FALSE]
           IN  \/ cache' = [cache EXCEPT ![id] = saved] /\ file' = [file EXCEPT ![id] = saved]
               \/ UNCHANGED <<cache, file>>
     \/ userDir' \in {userDir, [userDir EXCEPT ![id] = None]} /\ UNCHANGED <<cache, file>>
  /\ UNCHANGED <<activated, starting, runtime, pending_stop, jobs, job, draining, preview, previewLog, proc, cli>>

\* swap_and_finish on a system copy: the directory is not writable, so it stays in place.
SwapSystem(id) ==
  /\ Runs("swap_system", id)
  /\ stack' = Push(Frame("release", id), Tail(stack))
  /\ UNCHANGED <<activated, starting, runtime, pending_stop, jobs, job, draining, preview, previewLog, proc, disk, cli>>

\* Mutant of Remove: the cached state of a removed extension is not cleared.
RemoveKeepingCache(id) ==
  /\ Runs("remove", id)
  /\ stack' = Push(Frame("release", id), Tail(stack))
  /\ userDir' = [userDir EXCEPT ![id] = None]
  /\ file' = [file EXCEPT ![id] = None]
  /\ UNCHANGED <<activated, starting, runtime, pending_stop, jobs, job, draining, preview, previewLog,
                 proc, cache, cli>>

\* remove_files: the user copy and the state file go; a system copy left behind is disabled.
Remove(id) ==
  /\ Runs("remove", id)
  /\ stack' = Push(Frame("release", id), Tail(stack))
  /\ \/ /\ userDir[id] # None
        /\ userDir' = [userDir EXCEPT ![id] = None]
        /\ LET kept == [Default EXCEPT !.enabled = FALSE]
           IN  IF id \in SystemIds
               THEN cache' = [cache EXCEPT ![id] = kept] /\ file' = [file EXCEPT ![id] = kept]
               ELSE cache' = [cache EXCEPT ![id] = Default] /\ file' = [file EXCEPT ![id] = None]
     \* rmtree failed, or the files are gone already
     \/ userDir' \in {userDir, [userDir EXCEPT ![id] = None]} /\ UNCHANGED <<cache, file>>
  /\ UNCHANGED <<activated, starting, runtime, pending_stop, jobs, job, draining, preview, previewLog, proc, cli>>

\* What is left of exit_handler once stop_preview has returned.
ExitRest(id) ==
  /\ Runs("exit_rest", id)
  /\ DrainStop(id, TRUE, Tail(stack))
  /\ UNCHANGED <<activated, starting, runtime, jobs, job, draining, preview, previewLog, proc, disk, cli>>

-----------------------------------------------------------------------------
(* Handlers the main loop dispatches *)

\* _start_extensions makes the records it will visit ...
StartExtensions ==
  /\ MainLoop /\ ~activated
  /\ activated' = TRUE
  /\ starting' = {i \in Ids : Resolves(i)}
  /\ cache' = [i \in Ids |-> IF Resolves(i) THEN Cached(i) ELSE cache[i]]
  /\ UNCHANGED <<runtime, pending_stop, jobs, job, draining, stack, preview, previewLog, proc,
                 file, userDir, cli>>

\* ... and starts each that the user has on; while a job or a stop holds the id, start_extension
\* only clears the error.  The copy is looked up here rather than with the other ids above: a
\* directory the CLI moved in between is started from the copy in force now.
StartNext(id) ==
  /\ stack = <<>> /\ id \in starting
  /\ starting' = starting \ {id}
  /\ \/ /\ Cached(id).enabled /\ runtime[id] = None
        /\ job[id] = "none" /\ pending_stop[id] = None
        /\ StartExtension(id, Cached(id), <<>>)
     \/ /\ Cached(id).enabled /\ runtime[id] = None
        /\ job[id] # "none" \/ pending_stop[id] # None
        /\ LET cleared == [Cached(id) EXCEPT !.error = FALSE]
           IN  IF preview = id THEN UNCHANGED <<cache, file>>
               ELSE cache' = [cache EXCEPT ![id] = cleared] /\ file' = [file EXCEPT ![id] = cleared]
        /\ UNCHANGED <<runtime, pending_stop, jobs, draining, stack, preview, previewLog, proc>>
     \/ /\ ~Cached(id).enabled \/ runtime[id] # None
        /\ UNCHANGED <<runtime, pending_stop, jobs, draining, stack, preview, previewLog, proc, cache, file>>
  /\ UNCHANGED <<activated, job, userDir, cli>>

\* toggle_enabled
Toggle(id, enabled) ==
  /\ MainLoop /\ "toggle" \in Requests /\ Resolves(id)
  /\ LET saved == [enabled |-> enabled, error |-> FALSE]
     IN  cache' = [cache EXCEPT ![id] = saved] /\ file' = [file EXCEPT ![id] = saved]
  /\ stack' = <<Frame("reconcile", id)>>
  /\ UNCHANGED <<activated, starting, runtime, pending_stop, jobs, job, draining, preview, previewLog, proc, userDir, cli>>

\* install, update, uninstall: the intent is queued as a job.
Request(id, kind) ==
  /\ MainLoop /\ kind \in Requests /\ Len(jobs[id]) < MaxJobs
  /\ kind \in {"update", "uninstall"} => userDir[id] # None
  /\ jobs' = [jobs EXCEPT ![id] = Append(@, kind)]
  /\ EnterDrain(id, <<>>)
  /\ IF kind = "install" THEN UNCHANGED cache ELSE Load(id)
  /\ UNCHANGED <<activated, starting, runtime, pending_stop, job, preview, previewLog, proc, file, userDir, cli>>

\* preview_ext: the overlay moves to `id`, and the id it leaves is restarted too.
PreviewExt(id) ==
  /\ MainLoop /\ "preview" \in Requests /\ Len(jobs[id]) < MaxJobs
  /\ LET restarts == IF preview \in {None, id} THEN <<id>> ELSE <<preview, id>>
         touched  == {restarts[k] : k \in DOMAIN restarts}
     IN  /\ jobs' = [i \in Ids |-> IF i \in touched THEN Append(jobs[i], "restart") ELSE jobs[i]]
         /\ draining' = [i \in Ids |-> i \in touched \/ draining[i]]
         /\ stack' = [k \in DOMAIN restarts |-> Frame("drain", restarts[k])]
  /\ preview' = id
  /\ previewLog' = id
  /\ proc' = Supersede(proc)
  /\ Load(id)
  /\ UNCHANGED <<activated, starting, runtime, pending_stop, job, file, userDir, cli>>

\* stop_preview
StopPreview ==
  /\ MainLoop /\ "preview" \in Requests /\ preview # None
  /\ preview' = None
  /\ previewLog' = None
  /\ proc' = Supersede(proc)
  /\ jobs' = [jobs EXCEPT ![preview] = Append(@, "restart")]
  /\ EnterDrain(preview, <<>>)
  /\ UNCHANGED <<activated, starting, runtime, pending_stop, job, disk, cli>>

\* Mutant of RemoteDone: the staged files are swapped in without stopping the process.
RemoteDoneRunning(id) ==
  /\ MainLoop /\ job[id] \in {"remote", "remote_system"}
  /\ stack' = <<Frame(IF job[id] = "remote" THEN "swap" ELSE "swap_system", id)>>
  /\ job' = [job EXCEPT ![id] = "local"]
  /\ UNCHANGED <<activated, starting, runtime, pending_stop, jobs, draining, preview, previewLog,
                 proc, disk, cli>>

\* The remote part of an install or update ends: failed or up to date, or staged, and then the
\* running installed copy is stopped before the swap.  A running preview is left alone.
RemoteDone(id) ==
  /\ MainLoop /\ job[id] \in {"remote", "remote_system"}
  /\ LET swap == IF job[id] = "remote" THEN "swap" ELSE "swap_system"
         Continue(cb) == stack' = <<Frame(cb, id)>> /\ UNCHANGED <<runtime, pending_stop, proc>>
     IN  \/ Continue("release")
         \/ IF runtime[id] # None /\ proc[runtime[id]].rec # "installed"
            THEN Continue(swap)
            ELSE StopProcess(id, <<swap>>, <<>>)
  /\ job' = [job EXCEPT ![id] = "local"]
  /\ UNCHANGED <<activated, starting, jobs, draining, preview, previewLog, disk, cli>>

\* Mutant of HandleExit: the error is saved on top of a new state instead of the cached one.
HandleExitAfresh(p) ==
  /\ MainLoop /\ proc[p].status \in {"crashed", "stopped"}
  /\ ExitHandler(proc[p].id, proc[p].rec, proc[p].status = "crashed", Default, <<>>)
  /\ proc' = [proc EXCEPT ![p] = Free]
  /\ UNCHANGED <<activated, starting, job, userDir, cli>>

\* handle_exit: Gio reports a reaped process; anything but an aborted one is an error.
HandleExit(p) ==
  /\ MainLoop /\ proc[p].status \in {"crashed", "stopped"}
  /\ LET id == proc[p].id
     IN  ExitHandler(id, proc[p].rec, proc[p].status = "crashed", Cached(id), <<>>)
  /\ proc' = [proc EXCEPT ![p] = Free]
  /\ UNCHANGED <<activated, starting, job, userDir, cli>>

\* The app quits and is launched again: its processes go with it, the disk stays.
Relaunch ==
  /\ MainLoop /\ "relaunch" \in Requests
  /\ activated' = FALSE
  /\ runtime' = [i \in Ids |-> None]
  /\ pending_stop' = [i \in Ids |-> None]
  /\ jobs' = [i \in Ids |-> <<>>]
  /\ job' = [i \in Ids |-> "none"]
  /\ preview' = None
  /\ previewLog' = None
  /\ proc' = [p \in Pids |-> Free]
  /\ cache' = [i \in Ids |-> None]
  /\ UNCHANGED <<starting, draining, stack, file, userDir, cli>>

-----------------------------------------------------------------------------
(* Other processes *)

\* An extension process ends, by itself or killed 0.5s after stop(), and is reaped.
ProcDies(p) ==
  /\ proc[p].status \in {"alive", "stopping"}
  /\ proc' = Marked(p, IF proc[p].status = "alive" THEN "crashed" ELSE "stopped")
  /\ UNCHANGED <<service, disk, cli>>

\* ulauncher install / upgrade: the state is read when the record is made ...
CliDownload(id) ==
  /\ "cli_install" \in Requests /\ cli[id].pc = "idle"
  /\ cli' = [cli EXCEPT ![id] = [pc |-> "download", conf |-> Reloaded(id)]]
  /\ UNCHANGED <<service, proc, disk>>

\* ... and the files are swapped and the state saved once the download is there, or it fails.
CliSwap(id) ==
  /\ cli[id].pc = "download"
  /\ \/ /\ \E v \in Versions \ {userDir[id]} : userDir' = [userDir EXCEPT ![id] = v]
        /\ file' = [file EXCEPT ![id] = [cli[id].conf EXCEPT !.error = FALSE]]
        /\ cli' = [cli EXCEPT ![id] = [pc |-> "written", conf |-> Default]]
     \/ cli' = [cli EXCEPT ![id] = CliIdle] /\ UNCHANGED <<userDir, file>>
  /\ UNCHANGED <<service, proc, cache>>

\* ulauncher uninstall: the files and the state file go ...
CliRemove(id) ==
  /\ "cli_uninstall" \in Requests /\ cli[id].pc = "idle" /\ userDir[id] # None
  /\ userDir' = [userDir EXCEPT ![id] = None]
  /\ file' = [file EXCEPT ![id] = None]
  /\ cli' = [cli EXCEPT ![id] = [@ EXCEPT !.pc = "removed"]]
  /\ UNCHANGED <<service, proc, cache>>

\* ... and a system copy of the id is disabled rather than left to take it over.
CliDisable(id) ==
  /\ cli[id].pc = "removed"
  /\ file' = IF id \in SystemIds
             THEN [file EXCEPT ![id] = [Default EXCEPT !.enabled = FALSE]] ELSE file
  /\ cli' = [cli EXCEPT ![id] = [@ EXCEPT !.pc = "written"]]
  /\ UNCHANGED <<service, proc, cache, userDir>>

\* The CLI's D-Bus event reaches the app: reload() restarts an id it knows.  A known id with
\* neither a record nor anything to stop takes a restart that changes nothing; it is left out.
Reload(id) ==
  /\ MainLoop /\ cli[id].pc = "written" /\ Len(jobs[id]) < MaxJobs
  /\ cli' = [cli EXCEPT ![id] = CliIdle]
  /\ IF Resolves(id) THEN Load(id) ELSE UNCHANGED cache
  /\ IF Resolves(id) \/ runtime[id] # None \/ pending_stop[id] # None \/ job[id] # "none"
     THEN jobs' = [jobs EXCEPT ![id] = Append(@, "restart")] /\ EnterDrain(id, <<>>)
     ELSE UNCHANGED <<jobs, draining, stack>>
  /\ UNCHANGED <<activated, starting, runtime, pending_stop, job, preview, previewLog, proc, file, userDir>>

-----------------------------------------------------------------------------
RunFrame(id) ==
  \/ StartJob(id) \/ DrainDone(id) \/ Release(id) \/ Reconcile(id)
  \/ Swap(id) \/ SwapSystem(id) \/ Remove(id) \/ ExitRest(id)

Cli(id) == CliDownload(id) \/ CliSwap(id) \/ CliRemove(id) \/ CliDisable(id)

Next ==
  \/ \E id \in Ids :
       \/ RunFrame(id)
       \/ StartNext(id)
       \/ \E enabled \in BOOLEAN : Toggle(id, enabled)
       \/ \E kind \in Kinds \ {"restart"} : Request(id, kind)
       \/ PreviewExt(id)
       \/ RemoteDone(id)
       \/ Reload(id)
       \/ Cli(id)
  \/ StartExtensions
  \/ StopPreview
  \/ \E p \in Pids : HandleExit(p) \/ ProcDies(p)
  \/ Relaunch

Spec == Init /\ [][Next]_vars

\* The main loop dispatches every ready source and runs every handler to its end; a stopped
\* process ends (SIGKILL after 0.5s) and a remote operation ends.
Fairness ==
  /\ \A id \in Ids : /\ WF_vars(RunFrame(id))
                     /\ WF_vars(StartNext(id))
                     /\ SF_vars(RemoteDone(id))
  /\ SF_vars(StartExtensions)
  /\ \A p \in Pids : /\ SF_vars(HandleExit(p))
                     /\ WF_vars(proc[p].status = "stopping" /\ ProcDies(p))

FairSpec == Spec /\ Fairness

-----------------------------------------------------------------------------
(* Properties *)

Held(id) == {p \in Pids : proc[p].status # "free" /\ proc[p].id = id}

\* No extension id ever has two processes, whatever order requests, exits, jobs and previews
\* come in; a process counts until the loop has handled its exit.
AtMostOneProcess ==
  \A p, q \in Pids :
    proc[p].status # "free" /\ proc[q].status # "free" /\ proc[p].id = proc[q].id => p = q

\* The service never loses a process: one it does not list as running is one it waits for.
NoOrphanProcess ==
  \A p \in Pids : proc[p].status # "free" =>
    runtime[proc[p].id] = p \/ pending_stop[proc[p].id] # None

\* The app replaces or removes a user directory only while no process runs from the
\* installed copy of that id.
NoSwapUnderProcess ==
  [][\A id \in Ids : userDir'[id] # userDir[id] /\ cli' = cli =>
       \A p \in Held(id) : proc[p].rec # "installed"]_vars

\* Between handlers, an id with no job, stop or exit outstanding runs exactly when its record
\* resolves and is enabled, and its process was started from the copy and overlay in force.
Settled(id) ==
  /\ activated /\ MainLoop /\ job[id] = "none" /\ pending_stop[id] = None /\ cli[id].pc = "idle"
  /\ \A p \in Held(id) : proc[p].status = "alive"

Converged ==
  \A id \in Ids : Settled(id) =>
    LET p == runtime[id]
    IN  IF ~(Resolves(id) /\ IsEnabled(id, Cached(id))) THEN p = None
        ELSE /\ p # None
             /\ proc[p].rec = (IF preview = id THEN "preview" ELSE "installed")
             /\ proc[p].copy = (IF preview = id THEN "dev" ELSE Installed(id))

\* A user's "off" in the state file is lifted by the user turning the extension on, never by a
\* process exit, a start or a swap that saves the app's cached copy of the state.
DisabledStaysDisabled ==
  [][\A id \in Ids :
       (/\ file[id] # None /\ ~file[id].enabled
        /\ file'[id] # None /\ file'[id].enabled) => Toggle(id, TRUE)]_vars

\* The state of a removed extension does not resurface: once an id without a copy and without a
\* state file has settled, a record made for it again starts from the defaults.
RemovedStateForgotten ==
  \A id \in Ids :
    Settled(id) /\ ~Resolves(id) /\ file[id] = None => Cached(id) = Default

\* Only one preview process exists at a time, over all ids: the debugger binds a fixed port.
OnePreviewProcess ==
  \A p, q \in Pids :
    (/\ proc[p].status \in {"alive", "stopping"} /\ proc[p].rec # "installed"
     /\ proc[q].status \in {"alive", "stopping"} /\ proc[q].rec # "installed") => p = q

\* The service implements the slots of ProcessSlots: one process per id, and no directory of
\* the installed copy replaced by the app under a process that runs from it.
Slots == INSTANCE ProcessSlots WITH
  slot <- [i \in Ids |-> {[pid |-> p, kind |-> IF proc[p].rec = "installed" THEN "installed" ELSE "dev"]
                           : p \in Held(i)}],
  dir <- userDir,
  foreign <- cli

ImplementsSlots == Slots!Spec

\* Every job releases its id, so no extension is wedged by a stop, an exit or a failed step.
JobsRelease == \A id \in Ids : job[id] # "none" ~> job[id] = "none"

-----------------------------------------------------------------------------
(* The inductive invariant behind AtMostOneProcess and NoSwapUnderProcess *)

\* A process is the running one of its id, or the one a stop in flight waits for.
ProcInv ==
  /\ \A id \in Ids : runtime[id] # None =>
       /\ proc[runtime[id]].id = id
       /\ proc[runtime[id]].status \in {"alive", "crashed"}
       /\ pending_stop[id] = None
  /\ \A p \in Pids : proc[p].status # "free" =>
       /\ proc[p].id \in Ids
       /\ \/ runtime[proc[p].id] = p
          \/ runtime[proc[p].id] = None /\ pending_stop[proc[p].id] # None

\* While stop_preview runs inside an exit handler (exit_rest, the part of the handler still to
\* run), only the restart it queued is above it, and that restart finds the id without a process;
\* callbacks still waiting then are those of the exit being handled.
ExitInv ==
  \A k \in 1..Len(stack) : stack[k].op = "exit_rest" =>
    LET id == stack[k].id
    IN  /\ preview = None
        /\ \/ k = 1
           \/ /\ runtime[id] = None
              /\ \/ k = 2 /\ stack[1] = Frame("reconcile", id)
                 \/ k = 2 /\ stack[1] = Frame("drain", id) /\ draining[id]
                 \/ /\ k = 3 /\ stack[1].op \in Callbacks /\ stack[1].id = id
                    /\ stack[2] = Frame("drain", id) /\ draining[id]
        /\ pending_stop[id] # None => Held(id) = {}

\* The continuation of a job is in one place: a callback waiting for the exit, or the frame that
\* runs next.  One about to touch the directory has no process of the installed copy to fear.
JobInv ==
  /\ \A id \in Ids : pending_stop[id] \notin {None, <<>>} =>
       job[id] = "local" /\ Len(pending_stop[id]) = 1
  /\ \A k \in 1..Len(stack) : stack[k].op \in Callbacks =>
       /\ k = 1
       /\ job[stack[k].id] = "local"
       /\ pending_stop[stack[k].id] \in {None, <<>>}
       /\ stack[k].op \in {"swap", "remove"} =>
            \A p \in Held(stack[k].id) : proc[p].rec # "installed"

\* What every step keeps, and what the process properties rest on: a start finds the id without
\* a process because the exit handler forgets a stop only with its process gone, and a swap or a
\* removal runs only as the continuation of a stop.
IInv == TypeOK /\ AtMostOneProcess /\ ProcInv /\ ExitInv /\ JobInv
=============================================================================
