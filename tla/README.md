# Ulauncher in TLA+

Ulauncher is an application launcher. One process, the *app*, owns the windows, the
query pipeline and the extensions; every extension is a child process that talks to the
app over a socket pair; the `ulauncher` command line (the *CLI*) is a third kind of
process that installs, upgrades, removes and previews extensions and tells the app over
D-Bus. All app code runs on one GLib main loop: nothing is preempted, but handlers nest
through callbacks, and the other processes run between any two of their steps.

These modules model the part of that system whose correctness depends on ordering. They
are translated from the code at `src/ulauncher/`; line references below are to it.

## Modules

| Module | What it is |
| --- | --- |
| `ExtensionService` | the extension lifecycle: processes, job queues, stop callbacks, previews, state files, and the CLI commands that write the same disk |
| `ProcessSlots` | what the lifecycle promises: one process per id, no directory replaced under its process |
| `ExtensionRequests` | queries and activations sent to extensions: request ids, pending callbacks, debounce, listener threads, streams, sockets, restarts |
| `ExtensionInstalls` | one extension's remote operations, step by step: staging, fetch, download, dependencies, the moves of `_swap_dir`, crashes, clean-ups by a quitting app |
| `StateFiles` | file-backed configuration shared by two processes, and what is built on it: extension state, shortcuts, preferences |
| `QueryPipeline` | the operators of the query pipeline: core, result buffer, result list and selection, effects, windows |
| `AppShell` | extends `QueryPipeline`: the actions of users, extensions, timers and D-Bus, and the life of the app |
| `ResultList` | what the launcher promises about a stream of result batches |
| `MCExtensionService`, `MCExtensionRequests`, `MCExtensionInstalls`, `MCStateFiles`, `MCAppShell` | instances for TLC |
| `ExtensionServiceProofs` | TLAPS: lemmas on the building blocks, type correctness, the state files while only the app writes them |
| `ExtensionServiceSafety` | TLAPS: one process per id, no process lost |
| `ExtensionServiceRefinement` | TLAPS: the inductive invariant, no swap under a process, the service implements `ProcessSlots` and converges |
| `ExtensionRequestsProofs` | TLAPS: an ask's answers are its own, and end with the final one |
| `ExtensionRequestsStreams` | TLAPS: the order of a stream, what a visible result's id stands for, types |
| `ExtensionInstallsProofs` | TLAPS: every safety property of `ExtensionInstalls` |
| `StateFilesProofs` | TLAPS: every property of `StateFiles` |
| `AppShellProofs` | TLAPS: every property of `AppShell`, and that the result buffer implements `ResultList` |

`PROJECT.json` lists the runs, the line each definition models, the mutants that show
each property can fail, the hazards, and the theorems.

## Inventory

### 1. Extension lifecycle: `modes/extensions/extension_service.py`
- **State**: per id a `_ExtensionProcessState` (`runtime`, `record`, `pending_stop`, `jobs`,
  `job_active`, `draining`); the preview overlay `preview`; the owner of the preview log.
- **Operations**: `_start_extensions`, `toggle_enabled`, `install`, `uninstall`, `update`,
  `start_extension`, `stop_extension`, `reload`, `preview_ext`, `stop_preview`, and the exit
  handler of a process; internally `_reconcile`, `_enqueue_job`, `_run_next_job`, `_start_job`,
  `release`, `_stop`.
- **Interaction**: called by the preferences window, the CLI (D-Bus) and `ExtensionMode`;
  calls the registry with callbacks, spawns `ExtensionRuntime`s, and is called back by them.
- **Hard**: callbacks that run in the middle of another handler (an exit drains stop callbacks,
  which release a job, which drains the queue, which reconciles, which may spawn and fail);
  a process that has exited but whose exit is still to be dispatched when a stop arrives;
  requests of every kind joining a queue while the process stops.
- **Correct when**: an id has at most one process; the app lists or awaits every process; the
  directory of the installed copy is not swapped under its process; once nothing is outstanding
  the process is what the record asks for; every job releases.

### 2. Registry and finder: `extension_registry.py`, `extension_finder.py`
- **State**: directories under the user and system extension paths, the staging directory.
- **Operations**: `locate`, `get`, `get_installed`, `iterate`, `install`, `update`, `uninstall`,
  `_install_from_remote`, `_swap_dir`.
- **Hard**: three directories renamed in turn, any step of which can fail or be cut short;
  the app and the CLI share one staging directory per id.
- **Correct when**: a failed swap leaves the old copy, or at least a backup; the directory and
  the saved commit hash agree; every operation reports back.

### 3. Records and their state files: `extension_record.py`, `data/json_conf.py`, `data/_file_cache.py`
- **State**: per id, one shared `ExtensionState` instance in each process, and its file.
- **Operations**: load on first use, `reload_state`, `save(...)` (the whole instance is written),
  `remove`.
- **Hard**: two processes with a cached copy each, writing whole files.
- **Correct when**: an "off" is lifted only by the user; a removed extension's state is gone.

### 4. Extension runtimes: `extension_runtime.py`
- **State**: the subprocess, the set of aborted ones, output streams, the message socket.
- **Operations**: spawn, `stop` (closes the socket, SIGKILL 0.5 s later), `handle_exit`, `send_message`.
- **Correct when**: every exit is reported once and classified as stopped or as an error.

### 5. CLI commands: `cli/commands/install.py`, `upgrade.py`, `uninstall.py`, `preview.py`
- **State**: its own registry and caches; the position of the preview log tail.
- **Correct when**: what it wrote is what the app acts on after `reload`; the tail prints
  everything and ends.

### 6. Result stream buffering: `internals/result_buffer.py`
- **State**: the buffered batch, replace or append, whether a batch was painted, a throttle timer.
- **Correct when**: the list shown, or about to be painted, is the list the batches describe, and
  no batch survives a `reset`.

### 7. Query pipeline: `core.py`, `modes/mode.py`
- **State**: mode, query, result buffer, placeholder timer, keyword and trigger caches.
- **Operations**: `set_query`, `handle_change`, `activate_result`, `handle_backspace`,
  `load_triggers`, the mode callback.
- **Correct when**: what is on screen belongs to the current query or the last activation.

### 8. Extension mode and the extension API: `extension_mode.py`, `api/extension.py`, `utils/socket_msg_controller.py`
- **State**: request id, pending callback, active extension, loading timer; on the other side of
  the socket the debounce timer, listener threads, current request and result cache.
- **Correct when**: a response is taken only for the request it answers; a wait for a starting
  extension ends exactly once.

### 9. Application shell: `ui/app.py`, `ui/ulauncher_window.py`, `ui/results_view.py`
- **State**: the windows, the persistent hold, the delayed quit.
- **Correct when**: the app quits only when no window has been opened since, and does quit when it
  is not to stay; the entry, the app and the core agree on the query; the selection follows the
  result the user picked; the tray icon is there only while the app stays.

### 10. Everything else
The forms of the preferences (shortcuts, an extension's preferences) hold unsaved state and are
modelled with the files they write. The app, shortcut and file browser modes answer at once and are
modelled by their results and effects. Manifests and validation rules, the calculator,
X11/hotkey/systemd helpers, migrations and start-up are data-only or I/O-only.

## `ExtensionService`: the model

### State
| Variable | Code |
| --- | --- |
| `runtime` | `_ExtensionProcessState.runtime`; a process slot or `None` |
| `pending_stop` | `None`, or the list of stop callbacks; `<<>>` is a stop nobody waits for |
| `jobs`, `job`, `draining` | `jobs`, `job_active` (with how far the job got), `draining` |
| `stack` | the Python call stack of the running handler, as what each caller still has to run |
| `starting` | the ids `_start_extensions` has still to visit |
| `preview`, `previewLog` | `ExtensionRegistry.preview`, `ExtensionService._preview_log` |
| `proc` | the operating system's processes: which id, from which record and copy, and whether alive, stopping, or reaped with its exit not dispatched |
| `cache`, `file` | the shared `ExtensionState` of an id in the app, and its file |
| `userDir` | what is in the user's directory of the id |
| `cli` | what the CLI is doing to the id |

`ExtensionState` is two booleans, `is_enabled` and whether `error` is set: they decide what
runs, and they are what the app and the CLI overwrite for each other.

### Call stack and atomicity
A handler of the main loop is not one step. `stack` holds the frames still to run and one
action runs the top frame, so that the nested order of the code is kept exactly:

- `drain` is the `while` of `_run_next_job`; `StartJob` runs its body, `DrainDone` leaves it and
  pushes the final `_reconcile`.
- `release`, `swap`, `swap_system`, `remove` are the continuations a job passes on as callbacks:
  `release()` of `_start_job`, `swap_and_finish` and `remove_files`. A callback is either on the
  stack or in `pending_stop`.
- `reconcile` is `_reconcile`; `exit_rest` is the part of `exit_handler` below its call of
  `stop_preview`.

A handler starts only on an empty stack (`MainLoop`). Extension processes and the CLI step
between any two frames, which is where their writes can fall in the code.

### Actions
| Action | Code |
| --- | --- |
| `StartExtensions`, `StartNext` | `_start_extensions` (132-137) |
| `Toggle`, `Request`, `Reload` | `toggle_enabled`, `install`/`update`/`uninstall`, `reload` |
| `PreviewExt`, `StopPreview` | `preview_ext`, `stop_preview` |
| `StartJob`, `DrainDone`, `Release` | `_run_next_job`, `_start_job` |
| `Reconcile` | `_reconcile`, with `start_extension` or `_stop` |
| `RemoteDone`, `Swap`, `SwapSystem`, `Remove` | the asynchronous and local parts of install, update and uninstall |
| `HandleExit`, `ExitRest` | `ExtensionRuntime.handle_exit` and `exit_handler` |
| `ProcDies` | the extension process ends, on its own or by SIGKILL |
| `CliDownload`, `CliSwap`, `CliRemove`, `CliDisable` | the CLI commands |
| `Relaunch` | the app quits and starts again |

`StartExtension`, `StopProcess`, `ExitHandler`, `DrainStop`, `EnterDrain` are the operators for
the functions several actions call.

### Choices worth knowing
- **Failure is nondeterministic.** A start may spawn or fail (`Invalid`, `Incompatible`,
  `FailedToStart`); a remote operation may fail, be up to date, or stage files; a swap may
  succeed, fail with the old copy in place, or fail and lose it; saving the state after a swap may
  fail; a removal may fail before or after the directory is gone.
- **Reaped before dispatched.** `ExtensionRuntime.stop` asks Gio for the pid; a process already
  reaped has none and is not marked aborted. So a `crashed` process that is then stopped is still
  reported as an error, although its stop was intentional.
- **Superseded previews.** When the overlay moves, the process of the old overlay's record stays
  a preview process (`rec = "superseded"`), but `self.preview is record` is false for it.
- **`Relaunch`** happens between handlers and takes the children with it: their end of the socket
  pair closes, on which the extension's client exits. The new app does not know of a child that
  lingers, and neither does the model.

### Left out
- The listener calls (`invalidate_cache`, `started`, `errored`) and messages to extensions
  (`send_message`, `save_user_preferences`): no lifecycle state depends on them. They are in
  `ExtensionRequests`, `QueryPipeline` and `StateFiles`.
- The launch arguments and the wording of errors.
- The bundled `.default-state.json`: a state without a file is the default.
- A remote download's chain of subprocesses and the intermediate directories of `_swap_dir`:
  each outcome is one step here; `ExtensionInstalls` has the steps.
- `ulauncher uninstall` whose `rmtree` fails half-way: it exits without a reload
  (`uninstall.py:18-20`). In the model the CLI's removal succeeds.
- A crash of the app in the middle of a handler.
- Requests from preference-window records that no longer resolve.
- Two CLI commands on one id at the same time.

## `ProcessSlots`: the abstract specification
Each id is a slot holding at most one process; a slot is filled only when empty; the app
replaces the directory of an id only while the slot holds no process of the installed copy;
other programs may write the directories at any time. `Slots` in `ExtensionService` maps the
process table to `slot`, `userDir` to `dir` and `cli` to `foreign`, and `ImplementsSlots` says the
service implements it: queue, callbacks, stack and caches are all invisible there.

## `ExtensionRequests`: the model
`app` is one record: whether the window is open, the query in it (`text`) and in the core (`cur`),
what is on screen, and `ExtensionMode`'s `_active_ext` (`active`), `_pending_callback` (`pending`),
`_loading_timer` (`loading`) and the requests sent so far (`sent`; its length is `_request_id`).
Every query or activation handed to `ExtensionMode` is an *ask* with a callback of its own; `got`
records what that callback was called with, and names the ask a response was made for, so that the
properties can compare the two. `ext[e]` is an extension process: `debounce` and `input` are
`_debounce_timer` and `_input_request_id`, `threads` the listener threads, `idle` the responses
they queued on the main loop, `served` and `cache` are `_cache_request_id` and `_result_cache`.
`toExt` and `toApp` are the socket pair, `late` what was read ahead of a close.

| Action | Code |
| --- | --- |
| `Type`, `Activate`, `Hide`, `Show` | the user, through `core.set_query` and `core.activate_result` to `handle_query` and `activate_result` of `ExtensionMode` |
| `ReloadQuery`, `LoadingTimeout` | the idle call `started` schedules, and `LOADING_TIMEOUT` |
| `Receive`, `ReceiveLate` | `handle_message`, `_handle_response`, with the effect applied |
| `ReadEvent`, `Debounced` | the client's read callback, `trigger_event`, `_do_trigger_event` |
| `Yield`, `EndStream`, `Return`, `Raise` | a listener thread: `run_event_listener`, `_stream_response` |
| `SendIdle` | `_send_response`, `_assign_result_ids` |
| `StartExt`, `StopExt`, `Crash`, `HandleExit` | what the service does to the process, and `started`, `errored` |

Handlers of the app nest, so they are functions from the app's record to its record and what was
written (`HandleQuery`, `SendRequest`, `HandleResponse`, `Apply`). An activated result need not be of
the active extension; the code sends the request to the active one, and so does the model.

## `ExtensionInstalls`: the model
`target`, `staging` and `backup` are the three directories of an id, each by the releases whose
files are in it, whether dependencies are installed, whether it is torn, and whether its mtime is
more than an hour ago (`old`). `saved` is the
`commit_hash` of the state file, `repo` the bare clone, `head` the upstream; `installed` is a history
variable, false from the removal of the files to the next swap. A worker
(`job[w]`) is one operation in the app's queue or in the CLI, at one point of its chain of
subprocesses; `since` and `before` are what it found when it began, for the properties. The actions
follow the chain: `Begin`, `Stage`, `Fetch`, `Resolve`, `Extract` (archive) or `Checkout` (git),
`InstallDeps`, `Stopped`, then `BackUp`, `Replace`, `Restore` with their failures as `_swap_dir` has
them, `Save`, and `Remove` with `Unlink`. A command may fail at any time (`Fail`), and an exception
that no handler takes may end the chain without a report (`Escape`: the worker is `"lost"`); a failing
file system call and a crash are counted. `Crash` loses the worker in the middle of what it writes.

`Save` succeeds also when there is nothing to save for: `ExtensionManifest.load` reads a missing
manifest as an empty one (`json_utils.py:38`), and a state file that could not be written is not
looked at. It fails only when the manifest is there and is rejected. When the write failed the app's
memory has the new hash; `saved` is the file's, which the CLI and the next start read.

`Prune` is one entry of `_cleanup`, when an app quits, whatever operations another process has
under way: the code looks at the entry's mtime alone. A move keeps it, so a `.bak` has the time of the
old copy, and an archive's directory the time of its commit, old or not (`Extract`). A checkout, pip and
a torn write make it new. `HourPasses` ages what is there; it waits for operations that stage, which
are assumed to take less than an hour. Deleting one directory, by `rmtree` or by the clean-up, is one step,
and commits of the upstream are extensions, with a manifest that can be parsed.

Two operations that stage the same id are not started together: the app's queue excludes them, and
of two processes the code says that they clobber each other (`extension_registry.py:232`). A check
or an uninstall does run beside one.

## `StateFiles`: the model
One file is modelled, of the kind chosen at the start: an extension's state (`JsonConf` with class
defaults, app and CLI), the shortcuts (`JsonKeyValueConf`, seeded when there is no file), or
an extension's preferences. `inst[p]` is the instance a process holds, `save[p]` the save it is in
(open the temp file, write it, rename it), `temp[p]` its temp file. Reading (`Load`, `Reload`)
resets or keeps the instance as `_populate_from_file` does; an invalid file is moved aside; an
unreadable one keeps the instance. Empty values are dropped on writing and come back as the
default. `Disturb` makes the file unreadable, missing or invalid; `SaveFails` is a write that fails,
which no caller looks at.

`form` is the form the user has open: of a shortcut (`OpenForm`, `EditForm`, `SaveShortcut`,
`RemoveShortcut`), or of an extension (`ShowDetails`, `EditForm`, `SavePreferences`). Both views rebuild the
form when something else is selected, and the extensions view also when its list changes: unsaved
edits go. `ext` is the running extension with the preference messages on their way to it.

## `QueryPipeline`, `AppShell` and `ResultList`: the model
`ui` is one record for everything on the main loop between the entry and the list: the window
(`main`), the three copies of the query (`input` of the entry, `text` of the app, `query` of the
core), the mode, the placeholder timer (`loading`), the buffer of a stream (`buffered`, `buffer`,
`painted`, `appending`, `throttle` as in `result_buffer.py`), the list with its selection
(`view`), the query history (`picks`), the keywords core has claimed for each mode and those each mode
offers. A method is an operator from a record to the record it leaves: `SetQuery`, `HandleChange`,
`LoadTriggers`, `Enqueue`, `Paint`, `RenderView`, `Callback`, `OpenMain`, `BecomeReady`, `CloseMain`.
`AppShell` calls them from its actions and adds the windows, `persistent` (the hold), the tray icon
and the delayed quits. A window is `"new"` until `deferred_init` has run. `Typed` are the texts of the
entry and of whoever sets a query; the app strips their leading whitespace (`app.py:61, 67`), so that entry and
app may differ by it (`Stripped`). Where the cursor is in the entry, which `ulauncher_window.py:269` compares with the
length of the stripped query, is the user's choice, and so is whether a backspace reaches the file browser.
A result has a name, by which the list finds the user's pick again and the history its default: two results of an
extension may share one (`Twin`). What an extension answers is
free here; which answers reach the callback is the subject of `ExtensionRequests`.

`ResultList` knows whether a window is there, the last batch, and the list all batches add up to.
`Stream` in `AppShell` maps the list to what is painted, or will be with the buffered batches; the
throttle, its timer and the placeholder are invisible there.

## Properties
| `ExtensionService` | Says |
| --- | --- |
| `TypeOK` | types |
| `AtMostOneProcess` | an id never has two processes, counting one until its exit is handled |
| `NoOrphanProcess` | a process is the running one of its id, or a stop is in flight for it |
| `NoSwapUnderProcess` | the app never replaces the directory an installed process runs from |
| `Converged` | an id with nothing outstanding runs iff its record resolves and is on, from the copy and overlay in force |
| `ImplementsSlots` | refinement of `ProcessSlots` |
| `JobsRelease` | every job gives its id back |
| `DisabledStaysDisabled` | only the user lifts an "off" |
| `RemovedStateForgotten` | an extension without copy and file starts from the defaults |
| `OnePreviewProcess` | one preview process at a time over all ids |
| `IInv` | the inductive invariant behind the process properties (see Proofs) |

| `ExtensionRequests` | Says |
| --- | --- |
| `AnsweredOnce` | a callback is not called after its final answer, by a late response, the timeout or a failed start |
| `StreamInOrder` | a stream reaches its callback in order, and without gaps as long as nothing else is asked |
| `AnswersItsAsk` | an ask that was sent is answered with its own response |
| `VisibleResultsResolve` | the id of a result on screen resolves to it while its request is served |
| `InputKeepsCallback` | the last input's callback is pending while the extension has the input to read |

| `ExtensionInstalls` | Says |
| --- | --- |
| `LocatedIsWhole` | an extension that is found is one release with its dependencies, whatever failed or crashed |
| `LastCopySurvives` | at every instant of an operation a whole copy is at its place or in the backup, if no clean-up took an entry of it and at most one call failed |
| `FailureKeepsTarget` | an operation that fails before the new copy is in place leaves the old one, after one failing call or one pruned entry |
| `SuccessIsInstalled` | success means that the resolved commit, at least as new as upstream's at the start, is in place unless uninstalled after the swap, and saved unless the file could not be written |
| `UpToDateIsTrue` | "up to date" is not said from an old fetch |
| `OperationsEnd` | every operation reports, unless an exception that escapes takes its callback |
| `CleanupSparesOngoing` | the clean-up of a quitting app takes nothing an ongoing operation needs |
| `DownloadsReport` | a download ends in its `on_success` or its `on_error` |

| `StateFiles` | Says |
| --- | --- |
| `WholeFile` | the file is never half written |
| `NoForeignLoss` | a save changes only the keys its process set, if it has seen the file |
| `RemovedStaysRemoved` | removed shortcuts do not come back while there is a file |
| `OneShortcutPerForm` | saving a new shortcut's form again makes no second shortcut |
| `ExtensionFollows` | a running extension has every change of its preferences, or a message on its way |

| `QueryPipeline`, `AppShell` | Says |
| --- | --- |
| `StreamsAddUp` | refinement of `ResultList` |
| `LoadingGivesWay` | "Loading..." does not cover an answer |
| `OneQuery` | entry (up to leading whitespace), app and core have one query |
| `PickStays` | while the list changes, the selection stays on a result with the name of the one the user picked |
| `KeywordsUnique`, `KeywordsComplete` | no keyword has two modes; every offered one works when the launcher is ready |
| `NoQuitInUse`, `NobodyLingers` | no quit by the timer while a window is open; an app that is not to stay is about to quit once its windows are closed |
| `TrayNeedsHold` | the tray icon is only there while the app stays |

Every module has a `TypeOK` besides.

## Runs
| Run | Bounds | Result |
| --- | --- | --- |
| `lifecycle` | 1 id with a system copy, 2 versions, 2 process slots, queue of 2, every request | passes: `TypeOK`, `AtMostOneProcess`, `NoOrphanProcess`, `Converged`, `IInv`, `NoSwapUnderProcess`, `ImplementsSlots` |
| `progress` | 1 id, no system copy, 1 version, 2 slots, queue of 2, no CLI, under `FairSpec` | passes: `JobsRelease`, `DisabledStaysDisabled`, `RemovedStateForgotten` |
| `fresh_install` | 1 id, `toggle`, `ulauncher uninstall` | violates `RemovedStateForgotten` |
| `takeover` | 1 id with a system copy, `toggle`, `ulauncher uninstall` | violates `DisabledStaysDisabled` |
| `one_preview` | 2 ids, previews | violates `OnePreviewProcess` |
| `requests` | 2 extensions, 2 asks, 2 starts of one, streams of 2 batches | passes: the safety properties of `ExtensionRequests` |
| `input_callback` | 1 extension, 2 asks, no streams | violates `InputKeepsCallback` |
| `installs` | 2 operations that may overlap, 2 commits, 2 failing file system calls, 1 crash, 1 entry pruned from an ongoing operation, under `FairSpec` | passes: everything on `ExtensionInstalls` but the next two |
| `cleanup` | 1 operation, 1 entry pruned from it, no failing calls | violates `CleanupSparesOngoing` |
| `reports` | 1 operation, no failing calls, no crash, under `FairSpec` | violates `DownloadsReport` |
| `state_files` | 3 keys, one a seed, 2 values, 2 saves, 2 faults, 1 crash, 1 restart | passes: everything on `StateFiles` |
| `launcher` | 1 keyword, 4 queries, one also typed after a space, 2 results shown, 3 batches, 5 events | passes: everything on `AppShell`, and `StreamsAddUp` |

**Bounds.** `Ids`: all of `_ExtensionProcessState` is per id, and ids meet only in the preview
overlay and on the call stack; one id carries the interplay of queue, stops, exits and disk. The overlay that moves between two ids is in
`one_preview` as far as its processes go; that both ids end up right is proved for any number of them
(`Converges`). `Pids`: two slots per id are what it takes to see a second
process. They are interchangeable and reduced by symmetry. `MaxJobs`: how long a queue a new
request may join; with two, a job runs while two wait, so a request can be queued between a stop
and the job behind it; longer queues repeat the same step, and the restart queued by a dead
preview may exceed the bound. `Versions`: with two, a swap can change a directory that stays
installed. `Requests` selects what the environment asks; it removes actions, never guards.
`fresh_install` switches the deadlock check off: with only `toggle` and an uninstall, an id
without a copy offers the environment nothing to do.

In `requests` the second extension only launches: `_active_ext` and the keyword's extension can then
differ. Two asks are what it takes for an answer to meet the wrong callback, two starts for a response
of the process before a restart. In `installs` one operation leaves what the next one finds, or
runs beside it; two faults make a failed swap whose restoration fails too. `MaxPrunes` bounds only the entries a
clean-up takes while an operation stages, one of which is enough to lose what it staged or its backup; leftovers
are pruned freely. In `state_files` two saves
let one process overwrite the other, and two faults let the file be unreadable and readable
again. In `launcher` one keyword that both modes claim decides uniqueness; a list of two is cut by
the limit and moves a selection; five events reach query, pick, stream, change and close, and
the timers and idle callbacks between them are not counted. The deadlock check is off in all runs of these modules, because the
bounds end every behaviour.

**Fairness** (`FairSpec`). In `ExtensionInstalls` every worker's `Step` is weakly fair: a
subprocess that was started ends, and its callback is dispatched. A crash, an escaping exception and
the clean-up are free. In
`ExtensionService`, GLib runs a handler to its end, so the top frame runs (weak
fairness of `RunFrame` and `StartNext`). A ready source of the loop is dispatched although other
handlers come first, so `RemoteDone`, `HandleExit` and the idle `_start_extensions` are strongly
fair: each is disabled while another handler is on the stack. A stopped process ends
(`ProcDies` on `"stopping"`, weakly fair), because `stop` sends SIGKILL after 0.5 s. Nothing is
assumed about the user, the CLI, or the end of a process nobody stopped. That a remote
operation reports back is an assumption about git, pip and the network
with their timeouts, not something the service enforces. The run `reports` shows where it fails: after an
exception that escapes, the job keeps its id, and `JobsRelease` says nothing of that id.

## Findings
- **State of an uninstalled extension survives in the app** (`fresh_install`). `remove` clears
  the cached state so that "the old data won't resurface" (`extension_record.py:220-223`), but
  for `ulauncher uninstall` that happens in the CLI's process. The app's `_reconcile` re-reads
  the state only for an id that still resolves (150-152), so its cached `is_enabled=False` or
  error is what the next install in the app saves.
- **A system copy switched off by the CLI is switched on again** (`takeover`). The CLI saves
  `is_enabled=False` for the copy that would take the id over (`extension_registry.py:154-160`).
  Until the app has handled the reload its cached state says enabled, and a start (290) or the
  handling of a crash (306) saves that whole state over the file.
- **Two preview processes at once** (`one_preview`). `PreviewExtensionRecord` says that only one
  runs at a time because the debugger binds a fixed port; `preview_ext` queues the restart of the
  old id and of the new one on queues that do not wait for each other.
- **The callback of a new input is cleared by the response that caused it** (`input_callback`).
  `_handle_response` calls the callback and clears it afterwards (275-279). An effect that sets the
  query to the extension's own keyword sends the new input, and sets its callback, within that
  call; the clearing takes the new one, and the answer is ignored as outdated. `api/extension.py:236`
  says that the callback is kept "until a closing batch or the next input".
- **The clean-up of a quitting app takes an ongoing install** (`cleanup`). `app.py:306` keeps "recent
  entries (within 1h) since they could be ongoing installs via the cli", but what it compares is the
  entry's mtime: the commit's for an archive that was just unpacked, the old copy's for a `.bak`. In
  the trace the downloaded files are deleted before pip makes `.dependencies` there again, and the swap puts a
  directory without the extension in place. A deleted `.bak` is the rollback of the swap.
- **A download that never reports** (`reports`). `_extract_and_install` "must not let a raw OSError escape"
  (`extension_remote.py:312`), because the caller would wait for ever. `EOFError` and `zlib.error` of an archive
  that is cut short are not caught (334), nor is a failing `NamedTemporaryFile` (182, 255), nor the
  `UnicodeDecodeError` of requirements that are not text (`extension_dependencies.py:48`).

Two comments the code does not keep were seen while modelling and have no run. `PreviewLogTail`
(`cli/commands/preview.py:97`) says the log is removed "when the preview has fully stopped", and `stop_preview`
(480-483) removes it before the stop is requested: what the process still logs is not mirrored. `_apply_selection`
(`results_view.py:140`) says "Keep the user's pick across a streaming replace if it is still present" and takes the
first result with its name: of two with one name, picking the second is undone by the next batch that replaces
the list, and Enter activates the first. `PickStays` says what does hold.

Behaviour the models show that no line of the repository denies, so no property is stated for it:

- Responses of two requests that alternate start a new id space each (`api/extension.py:284-286`):
  a visible result's id may then resolve to another result, or to none; then the handler
  raises in the read callback and the extension's socket is not read any more.
- A query that waits for its extension keeps the previous request id (`extension_mode.py:97`), so the late
  response of the process before the restart answers it.
- A launch of an extension that is not running makes it `_active_ext` before anything is sent
  (`extension_mode.py:168-176`); until then the pending callback is still the query's, and a batch of its
  stream that arrives is dropped as another extension's (219). A later one may be taken, so the stream has a gap.
- An activation goes to `_active_ext`, also when the result is another extension's; a list
  rendered by a launch without a query cannot be activated (`core.py:232-235`).
- A result of the list before the last one painted is activated in the mode of the new query, and
  remembered as its pick (`core.py:208, 232`).
- The list of actions is replaced by the next batch of the stream it interrupted (`core.py:218`);
  activating a result without actions drops a batch that waits for its paint (`core.py:204`).
- A keyword one mode gives up is not given to the mode that was refused until all triggers are
  loaded again; which mode wins depends on the order of a set (`core.py:80`).
- A shortcut removed while core still has its keyword makes `ShortcutMode.handle_query` raise, and nothing is shown.
- A value emptied by the user whose default is not empty returns as the default (`_file_cache.py:14`).
- A file whose first read fails is overwritten with defaults by the next save (`_file_cache.py:20-23`).
- Ctrl+S saves the form of a shortcut just removed with unsaved changes (`views/shortcuts.py:285-288`).
- Unsaved preferences of an extension are lost when the status of any extension changes (`views/extensions.py:133`).
- An extension uninstalled by the CLI between the swap of an update and its save is reported as updated, with
  nothing installed: the missing manifest reads as an empty one. An install whose state could not be written
  is a success too, and keeps the old commit hash in the file.
- The delayed quit does not look at `_persistent` again (`app.py:209`).

One remark that is not a finding: the docstring of `_reconcile` says a job and an in-flight stop
"both reconcile again when done". After an errored exit the handler does not reconcile (326-330,
with its reason); `Converged` shows that nothing is lost, since either a job reconciles on
release or the persisted error means the id is not wanted.

## Proofs
All theorems hold for every value of the constants, under the assumptions the modules declare.

| Assumption | Says |
| --- | --- |
| `ServiceAssumption` | `None` and the marks `"system"` and `"dev"` are not ids, processes, versions, states or lists of callbacks; `SystemIds` are ids; `MaxJobs` is a natural number. `Requests` is arbitrary |
| `RequestsAssumption` | `NoExt` is no extension; handlers and effects are of the kinds there are; the bounds are natural numbers |
| `InstallsAssumption` | the bounds are natural numbers, and upstream has a commit |
| `KeysAssumption`, `DefaultAssumption`, `ValsAssumption`, `BoundsAssumption` | finitely many keys, `Unset` and the empty value are no keys or values, the class default is a value, the bounds are natural numbers |
| `QueryAssumption`, `LimitAssumption`, `EventsAssumption` | the empty text is no query; keywords and parents of queries are of their sets; at least one result is shown; the bounds are natural numbers |
| `TypedAssumption` | queries can be typed; stripping a text gives a query or the empty text, and leaves those as they are |

Two theorems have a hypothesis besides. `AppAlone` says that the CLI is not among the requests: the
findings `takeover` and `fresh_install` are the same properties violated with it.

| Theorem | Statement |
| --- | --- |
| `TypeCorrect` | `Spec => []TypeOK` (`ExtensionService`) |
| `OneProcess` | `Spec => []AtMostOneProcess` |
| `NoProcessLost` | `Spec => []NoOrphanProcess` |
| `Inductive` | `Spec => []IInv` |
| `NoSwap` | `Spec => NoSwapUnderProcess` |
| `Implements` | `Spec => ImplementsSlots` |
| `Converges` | `Spec => []Converged` |
| `OffStaysOff` | `AppAlone /\ Spec => DisabledStaysDisabled` |
| `RemovedIsForgotten` | `AppAlone /\ Spec => []RemovedStateForgotten` |
| `RequestTypes` | `Spec => []TypeOK` (`ExtensionRequests`) |
| `FinalAnswerIsLast` | `Spec => []AnsweredOnce` |
| `SentAskGetsItsAnswer` | `Spec => []AnswersItsAsk` |
| `StreamsArriveInOrder` | `Spec => []StreamInOrder` |
| `VisibleIdsResolve` | `Spec => []VisibleResultsResolve` |
| `InstallTypes` | `Spec => []TypeOK` (`ExtensionInstalls`) |
| `InstalledIsWhole` | `Spec => []LocatedIsWhole` |
| `CopySurvives` | `Spec => []LastCopySurvives` |
| `FailureLeavesTarget` | `Spec => FailureKeepsTarget` |
| `SuccessIsTrue` | `Spec => SuccessIsInstalled` |
| `UpToDate` | `Spec => UpToDateIsTrue` |
| `FileTypes` | `Spec => []TypeOK` (`StateFiles`) |
| `NeverHalfWritten` | `Spec => []WholeFile` |
| `SavesKeepTheRest` | `Spec => NoForeignLoss` |
| `RemovedIsGone` | `Spec => RemovedStaysRemoved` |
| `OneFormOneShortcut` | `Spec => []OneShortcutPerForm` |
| `ExtensionIsTold` | `Spec => []ExtensionFollows` |
| `AppTypes` | `Spec => []TypeOK` (`AppShell`) |
| `StreamsImplementList` | `Spec => StreamsAddUp` |
| `AnswersAreShown` | `Spec => []LoadingGivesWay` |
| `QueriesAgree` | `Spec => []OneQuery` |
| `SelectionStays` | `Spec => PickStays` |
| `OneModePerKeyword` | `Spec => []KeywordsUnique` |
| `ReadyKnowsKeywords` | `Spec => KeywordsComplete` |
| `NoWindowLost` | `Spec => []NoQuitInUse` |
| `AppGoesAway` | `Spec => []NobodyLingers` |
| `TrayIsOfHeldApp` | `Spec => []TrayNeedsHold` |

**The service.** `AtMostOneProcess` is not inductive: a start checks `runtime` and
`pending_stop`, not the process table. `IInv` adds what ties them together.

- `ProcInv`: a process that is not free is the running one of its id, or its id is not running
  and a stop is in flight. So an id that `start_extension` finds with neither has no process
  (`IdleHeld`), and the spawn fills an empty slot.
- `ExitInv`: `exit_handler` forgets the stop (`pending_stop` becomes `None`), which is right only if the
  process is gone by then. Usually that is the step in which the exit is dispatched. But a dead
  preview runs `stop_preview` first, and the restart it queues drains, stops, releases and
  reconciles before the handler comes to its callbacks. `ExitInv` says what can be on the stack
  meanwhile and that a stop then in flight waits for no process: the restart finds the id not
  running, and with the overlay gone, a start that fails cannot nest a second teardown.
- `JobInv`: a job's continuation is in one place. `job_active` keeps `_start_job` away until
  the release, so at most one callback waits for an exit, a callback frame is always on top, and
  none waits beside it. A `swap` or `remove` reaches the stack only because the id was idle, its
  process has just exited, or its running process is a preview's: no installed copy runs.

`NoSwap` is read off `JobInv`: a step that changes a user directory without a step of the CLI is
`Swap` or `Remove`. `Implements` maps a start to `Start`, a dispatched exit to `Exit`, `Swap` and
`Remove` to `Replace`, `Relaunch` to `Shutdown`, the CLI and `Reload` to `Foreign`, and everything
else to a stutter; `Start` needs `IdleHeld`, `Exit` needs `AtMostOneProcess`, `Replace` needs `JobInv`.

`Converged` speaks of states where nothing is outstanding. `ConvInv` says what holds on the way there, of
each id by itself. `Aligned`: an id without a job, a stop, a frame that ends in a reconcile, a command of the
CLI or an exit to be dispatched runs only if its record resolves and is on, and does run if the app has
come to it. `Queued`: a queue that is not empty has a job, or its loop on the stack, so that no request is left
lying; and while the rest of an exit handler is on the stack, a stop in flight has a callback. `Recorded`: a
process whose copy or overlay is no longer the one in force has a restart queued, or a stop with a
callback, or the CLI's reload still to come. Every step is about one id and leaves what the three say of
the others as it is (`SameAt`), so each action has one lemma about its own id.

With `AppAlone` the app's cached state is not loaded or is what the file holds (`CacheInv`), since
every save writes both. So a save of the whole state, by a start or a crash, writes an "off" back as
it was, and an id whose file is gone is read as the default.

**The requests.** Three invariants, each about one way of an answer. `AskInv` is the app's: an ask is
sent once, later than those before it; the pending callback is the last ask's and has had no final
answer; what a callback got is of its own ask unless that ask was never sent. A response is of request
`_request_id` or is dropped, and the request is sent in the step that sets the callback, which gives
`AnsweredOnce` and `AnswersItsAsk`. For the order, batch k of a request is in one place of its
extension's line: still to be made by a listener thread, queued on the extension's main loop, in the
socket, or in what was read ahead of a close. `Side` says that each line has its batches in order and a
request in one place; `PlaceInv` that a request is of one extension, the newest of the active one; `GotInv`
that what a callback got is below all that is still to come for it; `ChainInv` that nothing is missing
between, as long as the newest ask's callback waits. A step of an extension only moves batches along its
line (`Moves`); a step of the app takes the first one or drops it. For `VisibleResultsResolve`, ids count on
from the cache of the request served (`CacheInv`), so the result of an id in a message, or on screen, is
the cache's at that id (`Fits`) until another request is served.

**The remote operations.** A swap is right only because of what its chain did before it, so
`InstallsInv` follows the chain. `OneStages` (one operation that stages at a time, which `Begin` keeps and every
step preserves) lets `Staged` say what the staging directory holds at each point: empty before the
download, the release of the resolved commit after it, the same with its dependencies from `"stop"` on,
whatever crash left what before; once a clean-up has taken it, nothing, or what pip made anew. `Placed` is
then inductive: what `Replace` puts in place is such a release or no extension, what `Restore` puts back was
in place before or is torn, and between `Replace` and `Save` an uninstall only takes files away. So at `Save` the target
has no files but the commit's, and without a clean-up it has them as long as it is `installed` or is torn: that
is `SuccessIsTrue`, with `Placed` for the dependencies. `Fetched` says that what an
operation has fetched, and what it has resolved, is at least what was upstream when it began; it gives the commit of
a success and, with `Resolve`, `UpToDate`.

For the copy that was there, `CopyInv` says, while no clean-up has taken an entry, that once a swap has taken
the target away the backup is whole and the worker knows of it (`backedUp`), so that no crash or second
worker meets an id without either. `KeptInv` follows `before` through the swap, counted against the failing calls
and pruned entries so far: still the target; or in the backup, unless the one failure was that; a staging
directory that is gone is the one failure, and then the backup is there to be restored.

**The files.** `WholeInv`: a process about to rename has written its own temp file to the end, and the
other process cannot touch that file. `ForeignInv`: the temp file of a save is what its process holds,
and the instance of a process that has seen the file differs from it only in the keys it has set itself, so
the rename changes no others. `FormsInv`: a form without an id has made nothing yet, and the save that
makes its shortcut gives it the id. `FollowInv`: a running extension means that the app holds its
preferences, and the last message about a key, or what the extension began with, is what the app has, or had
before the save under way.

**The launcher.** `PipelineInv` is about the record of the launcher alone: what is on screen and what the
buffer holds (`StreamOK`), that entry and app agree, up to leading whitespace, with each other and the core (`Entry`), and that no keyword is claimed
twice. A method that starts over begins a stream (`Begins`), a batch is taken by one (`Takes`), and every
step goes from one such record to another as `ResultList` allows and keeps the name that is selected (`Goes`),
or is the user's own moving of the selection (`Selects`): from that come the refinement
and every property of `QueryPipeline`. That the selection finds the name again rests on the
least index of it in the new list, which exists because the naturals are well-founded. A text that was stripped is
its own stripped form, so that a query set by the app leaves all three copies the same. `LifeInv`: why the
app has quit is recorded in the step in which the timer looks at the windows, and nothing opens one
afterwards. `LingerInv` adds that an app not yet started has no window to close. `TrayNeedsHold` is
inductive.

The proofs are laid out alike: a lemma per operator several actions call, a lemma per action or
group of like actions, then the step over the disjuncts of `Next`.

**Model-checked only**: `JobsRelease` and `OperationsEnd`, which are liveness under fairness and out of
TLAPS's reach. The properties of the six runs that expect a violation are false. No module declares a
RECURSIVE operator.

## Plan
The modules of the system are written, and every safety and action property that holds is proved. What is
left is to shorten the longest proofs, and to look for the properties that the hazards without one would need.

## Not modelled
- Extension manifests and their validation: rules over data; their outcome is a failing start or save.
- The event bus and GLib scheduling: modelled where they are used.
- X11, hotkeys, systemd and D-Bus helpers, migrations and the start script: I/O without state of
  its own, or run once before the main loop.
- The tail of the preview log (`cli/commands/preview.py`): it polls and prints.
- The framing and partial writes of the message socket: a channel delivers in order, and what a close
  loses is a choice.
- Legacy extension API (custom actions, `LEGACY_RUN_MANY`, event subscriptions), fuzzy scoring, app rankings,
  the calculator's arithmetic, icons, layout, dialogs and wording.
- Two installs of one id by two processes at once, which the code gives up on, and a command of the CLI
  that fails and therefore sends no reload.
- A window destroyed by the window manager without `close()`.
