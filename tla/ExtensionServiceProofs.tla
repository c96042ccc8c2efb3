----------------------- MODULE ExtensionServiceProofs -----------------------
(* Theorems about ExtensionService, for any ids, versions, process slots   *)
(* and queue bound: types, and what becomes of the state files while only  *)
(* the app writes them.                                                    *)
EXTENDS ExtensionService, TLAPS

-----------------------------------------------------------------------------
(* Sequences *)

\* Push puts the frame first and moves the rest by one.
LEMMA PushFacts ==
  ASSUME NEW S, NEW f \in S, NEW s \in Seq(S)
  PROVE  /\ Push(f, s) \in Seq(S)
         /\ Len(Push(f, s)) = Len(s) + 1
         /\ Push(f, s)[1] = f
         /\ \A k \in 1..Len(s) : Push(f, s)[k + 1] = s[k]
BY DEF Push

\* Taking the head off a non-empty sequence.
LEMMA TailFacts ==
  ASSUME NEW S, NEW s \in Seq(S), s # <<>>
  PROVE  /\ Head(s) = s[1] /\ Head(s) \in S
         /\ Len(s) \in Nat /\ Len(s) >= 1
         /\ Tail(s) \in Seq(S)
         /\ Len(Tail(s)) = Len(s) - 1
         /\ \A k \in 1..(Len(s) - 1) : Tail(s)[k] = s[k + 1]
OBVIOUS

\* The frames of a list of callbacks.
LEMMA CallsType ==
  ASSUME NEW id \in Ids, NEW cbs \in Seq(Callbacks)
  PROVE  /\ Calls(id, cbs) \in Seq(Frames)
         /\ Len(Calls(id, cbs)) = Len(cbs)
         /\ \A k \in 1..Len(cbs) : Calls(id, cbs)[k] = Frame(cbs[k], id)
<1>1. DOMAIN cbs = 1..Len(cbs) /\ Len(cbs) \in Nat
  OBVIOUS
<1>2. \A k \in 1..Len(cbs) : Frame(cbs[k], id) \in Frames
  BY DEF Frame, Frames, Ops
<1>3. QED
  BY <1>1, <1>2 DEF Calls

-----------------------------------------------------------------------------
(* Records of a state file and of a process *)

\* Setting or clearing a field of a state keeps it a state.
LEMMA ConfFacts ==
  ASSUME NEW c \in Conf
  PROVE  /\ [c EXCEPT !.error = TRUE] \in Conf
         /\ [c EXCEPT !.error = FALSE] \in Conf
         /\ [c EXCEPT !.enabled = FALSE] \in Conf
BY DEF Conf

LEMMA DefaultType == Default \in Conf
BY DEF Default, Conf

\* Marking a process changes its status only.
LEMMA MarkedFacts ==
  ASSUME proc \in [Pids -> Procs], NEW p \in Pids, proc[p].status # "free",
         NEW status \in {"alive", "stopping", "crashed", "stopped"}
  PROVE  /\ Marked(p, status) \in [Pids -> Procs]
         /\ \A q \in Pids : /\ Marked(p, status)[q].status = IF q = p THEN status ELSE proc[q].status
                            /\ Marked(p, status)[q].id = proc[q].id
                            /\ Marked(p, status)[q].rec = proc[q].rec
<1>1. ASSUME NEW r \in Procs, r.status # "free"
      PROVE  /\ [r EXCEPT !.status = status] \in Procs
             /\ [r EXCEPT !.status = status].status = status
             /\ [r EXCEPT !.status = status].id = r.id
             /\ [r EXCEPT !.status = status].rec = r.rec
  <2> DEFINE Rows == [status : {"free", "alive", "stopping", "crashed", "stopped"}, id : Ids \cup {None},
                      rec : {"installed", "preview", "superseded"}, copy : Copies]
  <2>1. r \in Rows /\ r.id \in Ids
    BY <1>1 DEF Procs
  <2>2. /\ [r EXCEPT !.status = status] \in Rows
        /\ [r EXCEPT !.status = status].status = status
        /\ [r EXCEPT !.status = status].id = r.id
        /\ [r EXCEPT !.status = status].rec = r.rec
    BY <2>1
  <2> HIDE DEF Rows
  <2>3. QED
    BY <2>1, <2>2 DEF Procs, Rows
<1>2. proc[p] \in Procs
  OBVIOUS
<1>3. DEFINE marked == [proc[p] EXCEPT !.status = status]
<1>4. marked \in Procs /\ marked.status = status /\ marked.id = proc[p].id /\ marked.rec = proc[p].rec
  BY <1>1, <1>2
<1>5. Marked(p, status) = [proc EXCEPT ![p] = marked]
  BY DEF Marked
<1>6. HIDE DEF marked
<1>7. QED
  BY <1>4, <1>5

\* Superseding the previews changes their records only.
LEMMA SupersedeType ==
  ASSUME proc \in [Pids -> Procs]
  PROVE  /\ Supersede(proc) \in [Pids -> Procs]
         /\ \A q \in Pids : /\ Supersede(proc)[q].status = proc[q].status
                            /\ Supersede(proc)[q].id = proc[q].id
                            /\ Supersede(proc)[q].rec = "installed" <=> proc[q].rec = "installed"
<1>1. ASSUME NEW r \in Procs
      PROVE  /\ [r EXCEPT !.rec = "superseded"] \in Procs
             /\ [r EXCEPT !.rec = "superseded"].status = r.status
             /\ [r EXCEPT !.rec = "superseded"].id = r.id
             /\ [r EXCEPT !.rec = "superseded"].rec = "superseded"
  BY DEF Procs
<1>2. QED
  BY <1>1 DEF Supersede

-----------------------------------------------------------------------------
(* The types of what the building blocks assign *)

LEMMA FrameType ==
  ASSUME NEW op \in Ops, NEW id \in Ids
  PROVE  /\ Frame(op, id) \in Frames
         /\ Frame(op, id).op = op /\ Frame(op, id).id = id
BY DEF Frame, Frames

\* A record's state and the copy a record is found in are of their types.
LEMMA RecordTypes ==
  ASSUME TypeOK, NEW id \in Ids
  PROVE  /\ Reloaded(id) \in Conf
         /\ Cached(id) \in Conf
         /\ Installed(id) \in Copies \cup {None}
<1>1. Reloaded(id) \in Conf
  BY DefaultType DEF Reloaded, TypeOK
<1>2. Cached(id) \in Conf
  BY <1>1 DEF Cached, TypeOK
<1>3. Installed(id) \in Copies \cup {None}
  BY DEF Installed, TypeOK, Copies
<1>4. QED
  BY <1>1, <1>2, <1>3

LEMMA LoadType ==
  ASSUME TypeOK, NEW id \in Ids, Load(id)
  PROVE  cache' \in [Ids -> Conf \cup {None}]
BY RecordTypes DEF Load, TypeOK

LEMMA EnterDrainType ==
  ASSUME TypeOK, NEW id \in Ids, NEW rest \in Seq(Frames), EnterDrain(id, rest)
  PROVE  /\ draining' \in [Ids -> BOOLEAN]
         /\ stack' \in Seq(Frames)
<1>1. Push(Frame("drain", id), rest) \in Seq(Frames)
  BY FrameType, PushFacts DEF Ops
<1>2. draining' \in [Ids -> BOOLEAN]
  BY DEF EnterDrain, TypeOK
<1>3. QED
  BY <1>1, <1>2 DEF EnterDrain

LEMMA StopProcessType ==
  ASSUME TypeOK, NEW id \in Ids, NEW cbs \in Seq(Callbacks), NEW rest \in Seq(Frames),
         StopProcess(id, cbs, rest)
  PROVE  /\ runtime' \in [Ids -> Pids \cup {None}]
         /\ pending_stop' \in [Ids -> Seq(Callbacks) \cup {None}]
         /\ proc' \in [Pids -> Procs]
         /\ stack' \in Seq(Frames)
<1>1. Calls(id, cbs) \o rest \in Seq(Frames)
  BY CallsType
<1>2. ASSUME pending_stop[id] # None
      PROVE  pending_stop[id] \o cbs \in Seq(Callbacks)
  BY <1>2 DEF TypeOK
<1>3. \A p \in Pids : proc[p].status = "alive" => Marked(p, "stopping") \in [Pids -> Procs]
  BY MarkedFacts DEF TypeOK
<1>4. CASE runtime[id] # None
  <2>1. runtime[id] \in Pids
    BY <1>4 DEF TypeOK
  <2>2. /\ runtime' = [runtime EXCEPT ![id] = None]
        /\ pending_stop' = [pending_stop EXCEPT ![id] = cbs]
        /\ proc' = IF proc[runtime[id]].status = "alive" THEN Marked(runtime[id], "stopping") ELSE proc
        /\ stack' = rest
    BY <1>4 DEF StopProcess
  <2>3. proc' \in [Pids -> Procs]
    BY <2>1, <2>2, <1>3 DEF TypeOK
  <2>4. QED
    BY <2>2, <2>3 DEF TypeOK
<1>5. CASE runtime[id] = None /\ pending_stop[id] # None
  BY <1>2, <1>5 DEF TypeOK, StopProcess
<1>6. CASE runtime[id] = None /\ pending_stop[id] = None
  BY <1>1, <1>6 DEF TypeOK, StopProcess
<1>7. QED
  BY <1>4, <1>5, <1>6

LEMMA DrainStopType ==
  ASSUME TypeOK, NEW id \in Ids, NEW errored \in BOOLEAN, NEW rest \in Seq(Frames),
         DrainStop(id, errored, rest)
  PROVE  /\ pending_stop' \in [Ids -> Seq(Callbacks) \cup {None}]
         /\ stack' \in Seq(Frames)
<1> DEFINE callbacks == IF pending_stop[id] = None THEN <<>> ELSE pending_stop[id]
           recon     == IF errored THEN <<>> ELSE <<Frame("reconcile", id)>>
<1>1. callbacks \in Seq(Callbacks)
  BY DEF TypeOK
<1>2. Calls(id, callbacks) \in Seq(Frames)
  BY <1>1, CallsType
<1>3. Frame("reconcile", id) \in Frames
  BY FrameType DEF Ops
<1>4. recon \in Seq(Frames)
  BY <1>3
<1>5. stack' = Calls(id, callbacks) \o recon \o rest
  BY DEF DrainStop
<1>6. stack' \in Seq(Frames)
  <2> HIDE DEF callbacks, recon
  <2> QED BY <1>2, <1>4, <1>5
<1>7. pending_stop' \in [Ids -> Seq(Callbacks) \cup {None}]
  BY DEF DrainStop, TypeOK
<1>8. QED
  BY <1>6, <1>7

LEMMA ExitHandlerType ==
  ASSUME TypeOK, NEW id \in Ids, NEW rec, NEW errored \in BOOLEAN, NEW conf \in Conf,
         NEW rest \in Seq(Frames), ExitHandler(id, rec, errored, conf, rest)
  PROVE  /\ runtime' \in [Ids -> Pids \cup {None}]
         /\ pending_stop' \in [Ids -> Seq(Callbacks) \cup {None}]
         /\ jobs' \in [Ids -> Seq(Kinds)]
         /\ draining' \in [Ids -> BOOLEAN]
         /\ stack' \in Seq(Frames)
         /\ preview' \in Ids \cup {None}
         /\ previewLog' \in Ids \cup {None}
         /\ cache' \in [Ids -> Conf \cup {None}]
         /\ file' \in [Ids -> Conf \cup {None}]
<1>1. runtime' \in [Ids -> Pids \cup {None}]
  BY DEF ExitHandler, TypeOK
<1>2. /\ cache' \in [Ids -> Conf \cup {None}]
      /\ file' \in [Ids -> Conf \cup {None}]
  BY ConfFacts DEF ExitHandler, TypeOK
<1>3. CASE errored /\ rec = "preview"
  <2>1. /\ preview' = None
        /\ previewLog' = None
        /\ jobs' = [jobs EXCEPT ![id] = Append(@, "restart")]
        /\ EnterDrain(id, Push(Frame("exit_rest", id), rest))
        /\ UNCHANGED pending_stop
    BY <1>3 DEF ExitHandler
  <2>2. Push(Frame("exit_rest", id), rest) \in Seq(Frames)
    BY FrameType, PushFacts DEF Ops
  <2>3. Append(jobs[id], "restart") \in Seq(Kinds)
    BY DEF TypeOK, Kinds
  <2>4. jobs' \in [Ids -> Seq(Kinds)]
    BY <2>1, <2>3 DEF TypeOK
  <2>5. draining' \in [Ids -> BOOLEAN] /\ stack' \in Seq(Frames)
    BY <2>1, <2>2, EnterDrainType
  <2>6. QED
    BY <1>1, <1>2, <2>1, <2>4, <2>5 DEF TypeOK
<1>4. CASE ~(errored /\ rec = "preview")
  <2>1. /\ DrainStop(id, errored, rest)
        /\ UNCHANGED <<preview, previewLog, jobs, draining>>
    BY <1>4 DEF ExitHandler
  <2>2. QED
    BY <1>1, <1>2, <2>1, DrainStopType DEF TypeOK
<1>5. QED
  BY <1>3, <1>4

LEMMA StartExtensionType ==
  ASSUME TypeOK, NEW id \in Ids, NEW conf \in Conf, NEW rest \in Seq(Frames),
         StartExtension(id, conf, rest)
  PROVE  /\ runtime' \in [Ids -> Pids \cup {None}]
         /\ pending_stop' \in [Ids -> Seq(Callbacks) \cup {None}]
         /\ jobs' \in [Ids -> Seq(Kinds)]
         /\ draining' \in [Ids -> BOOLEAN]
         /\ stack' \in Seq(Frames)
         /\ preview' \in Ids \cup {None}
         /\ previewLog' \in Ids \cup {None}
         /\ proc' \in [Pids -> Procs]
         /\ cache' \in [Ids -> Conf \cup {None}]
         /\ file' \in [Ids -> Conf \cup {None}]
<1> DEFINE rec     == IF preview = id THEN "preview" ELSE "installed"
           copy    == IF preview = id THEN "dev" ELSE Installed(id)
           cleared == IF preview = id THEN conf ELSE [conf EXCEPT !.error = FALSE]
<1>1. cleared \in Conf
  BY ConfFacts
<1>2. CASE \E p \in Pids :
             /\ proc[p].status = "free" /\ copy # None
             /\ proc' = [proc EXCEPT ![p] = [status |-> "alive", id |-> id, rec |-> rec, copy |-> copy]]
             /\ runtime' = [runtime EXCEPT ![id] = p]
             /\ cache' = [cache EXCEPT ![id] = cleared]
             /\ file' = IF preview = id THEN file ELSE [file EXCEPT ![id] = cleared]
             /\ stack' = rest
             /\ UNCHANGED <<pending_stop, jobs, draining, preview, previewLog>>
  <2>1. PICK p \in Pids :
             /\ copy # None
             /\ proc' = [proc EXCEPT ![p] = [status |-> "alive", id |-> id, rec |-> rec, copy |-> copy]]
             /\ runtime' = [runtime EXCEPT ![id] = p]
             /\ cache' = [cache EXCEPT ![id] = cleared]
             /\ file' = IF preview = id THEN file ELSE [file EXCEPT ![id] = cleared]
             /\ stack' = rest
             /\ UNCHANGED <<pending_stop, jobs, draining, preview, previewLog>>
    BY <1>2
  <2>2. copy \in Copies
    BY <2>1, RecordTypes DEF Copies
  <2>3. [status |-> "alive", id |-> id, rec |-> rec, copy |-> copy] \in Procs
    BY <2>2 DEF Procs
  <2>4. proc' \in [Pids -> Procs]
    <3> HIDE DEF rec, copy
    <3> QED BY <2>1, <2>3 DEF TypeOK
  <2>5. cache' \in [Ids -> Conf \cup {None}] /\ file' \in [Ids -> Conf \cup {None}]
    <3> HIDE DEF cleared
    <3> QED BY <1>1, <2>1 DEF TypeOK
  <2>6. QED
    BY <2>1, <2>4, <2>5 DEF TypeOK
<1>3. CASE ExitHandler(id, rec, TRUE, cleared, rest) /\ UNCHANGED proc
  BY <1>1, <1>3, ExitHandlerType DEF TypeOK
<1>4. QED
  BY <1>2, <1>3 DEF StartExtension

-----------------------------------------------------------------------------
(* Type correctness, one lemma per group of actions *)

LEMMA TypeFrames ==
  ASSUME TypeOK, NEW id \in Ids, RunFrame(id)
  PROVE  TypeOK'
<1> USE DEF disk
<1>1. ASSUME NEW op \in Ops, Runs(op, id)
      PROVE  /\ stack \in Seq(Frames) /\ stack # <<>>
             /\ Tail(stack) \in Seq(Frames)
             /\ \A f \in Ops : /\ Push(Frame(f, id), Tail(stack)) \in Seq(Frames)
                               /\ Push(Frame(f, id), stack) \in Seq(Frames)
  <2>1. stack \in Seq(Frames) /\ stack # <<>>
    BY <1>1 DEF Runs, TypeOK
  <2>2. Tail(stack) \in Seq(Frames)
    BY <2>1, TailFacts
  <2>3. QED
    BY <2>1, <2>2, FrameType, PushFacts
<1>2. CASE StartJob(id)
  <2> DEFINE kind == Head(jobs[id])
  <2>1. stack \in Seq(Frames) /\ \A f \in Ops : Push(Frame(f, id), stack) \in Seq(Frames)
    BY <1>1, <1>2 DEF StartJob, Ops
  <2>2. jobs' \in [Ids -> Seq(Kinds)]
    <3>1. jobs[id] \in Seq(Kinds) /\ jobs[id] # <<>> /\ jobs' = [jobs EXCEPT ![id] = Tail(@)]
      BY <1>2 DEF StartJob, TypeOK
    <3>2. Tail(jobs[id]) \in Seq(Kinds)
      BY <3>1, TailFacts
    <3>3. QED
      BY <3>1, <3>2 DEF TypeOK
  <2>3. cache' \in [Ids -> Conf \cup {None}]
    <3>1. Load(id) \/ UNCHANGED cache
      BY <1>2 DEF StartJob
    <3>2. QED
      BY <3>1, LoadType DEF TypeOK
  <2>4. \E stage \in Stages : job' = [job EXCEPT ![id] = stage]
    BY <1>2 DEF StartJob, Stages
  <2>5. \/ stack' \in {stack, Push(Frame("release", id), stack), Push(Frame("remove", id), stack)}
           /\ UNCHANGED <<runtime, pending_stop, proc>>
        \/ \E cb \in Callbacks : StopProcess(id, <<cb>>, stack)
    BY <1>2 DEF StartJob, Callbacks
  <2>6. /\ runtime' \in [Ids -> Pids \cup {None}]
        /\ pending_stop' \in [Ids -> Seq(Callbacks) \cup {None}]
        /\ proc' \in [Pids -> Procs]
        /\ stack' \in Seq(Frames)
    <3>1. CASE stack' \in {stack, Push(Frame("release", id), stack), Push(Frame("remove", id), stack)}
               /\ UNCHANGED <<runtime, pending_stop, proc>>
      BY <2>1, <3>1 DEF TypeOK, Ops, Callbacks
    <3>2. CASE \E cb \in Callbacks : StopProcess(id, <<cb>>, stack)
      <4>1. PICK cb \in Callbacks : StopProcess(id, <<cb>>, stack)
        BY <3>2
      <4>2. <<cb>> \in Seq(Callbacks)
        OBVIOUS
      <4>3. QED
        BY <2>1, <4>1, <4>2, StopProcessType
    <3>3. QED
      BY <2>5, <3>1, <3>2
  <2>7. job' \in [Ids -> Stages]
    BY <2>4 DEF TypeOK
  <2>8. UNCHANGED <<activated, starting, draining, preview, previewLog, file, userDir, cli>>
    BY <1>2 DEF StartJob
  <2>9. QED
    BY <2>2, <2>3, <2>6, <2>7, <2>8 DEF TypeOK
<1>3. CASE DrainDone(id)
  <2>1. stack' \in Seq(Frames)
    BY <1>1, <1>3 DEF DrainDone, Ops
  <2>2. QED
    BY <1>3, <2>1 DEF DrainDone, TypeOK
<1>4. CASE Release(id)
  <2>1. EnterDrain(id, Tail(stack)) /\ Tail(stack) \in Seq(Frames)
    BY <1>1, <1>4 DEF Release, Ops, Callbacks
  <2>2. draining' \in [Ids -> BOOLEAN] /\ stack' \in Seq(Frames)
    BY <2>1, EnterDrainType
  <2>3. job' \in [Ids -> Stages]
    BY <1>4 DEF Release, TypeOK, Stages
  <2>4. QED
    BY <1>4, <2>2, <2>3 DEF Release, TypeOK
<1>5. CASE Reconcile(id)
  <2> DEFINE conf == IF Resolves(id) THEN Reloaded(id) ELSE cache[id]
  <2>1. Tail(stack) \in Seq(Frames)
    BY <1>1, <1>5 DEF Reconcile, Ops
  <2>2. conf \in Conf \cup {None}
    BY RecordTypes DEF TypeOK
  <2>3. UNCHANGED <<activated, starting, job, userDir, cli>>
    BY <1>5 DEF Reconcile
  <2>4. CASE Resolves(id) /\ StartExtension(id, conf, Tail(stack))
    <3>1. conf \in Conf
      BY <2>4, RecordTypes
    <3>2. QED
      BY <2>1, <2>3, <2>4, <3>1, StartExtensionType DEF TypeOK
  <2>5. CASE /\ StopProcess(id, <<>>, Tail(stack))
             /\ cache' = [cache EXCEPT ![id] = conf]
             /\ UNCHANGED <<jobs, draining, preview, previewLog, file>>
    <3>1. cache' \in [Ids -> Conf \cup {None}]
      BY <2>2, <2>5 DEF TypeOK
    <3>2. <<>> \in Seq(Callbacks)
      OBVIOUS
    <3>3. QED
      BY <2>1, <2>3, <2>5, <3>1, <3>2, StopProcessType DEF TypeOK
  <2>6. CASE /\ stack' = Tail(stack)
             /\ cache' \in {cache, [cache EXCEPT ![id] = conf]}
             /\ UNCHANGED <<runtime, pending_stop, jobs, draining, preview, previewLog, proc, file>>
    <3>1. cache' \in [Ids -> Conf \cup {None}]
      BY <2>2, <2>6 DEF TypeOK
    <3>2. QED
      BY <2>1, <2>3, <2>6, <3>1 DEF TypeOK
  <2>7. \/ Resolves(id) /\ StartExtension(id, conf, Tail(stack))
        \/ /\ StopProcess(id, <<>>, Tail(stack))
           /\ cache' = [cache EXCEPT ![id] = conf]
           /\ UNCHANGED <<jobs, draining, preview, previewLog, file>>
        \/ /\ stack' = Tail(stack)
           /\ cache' \in {cache, [cache EXCEPT ![id] = conf]}
           /\ UNCHANGED <<runtime, pending_stop, jobs, draining, preview, previewLog, proc, file>>
    BY <1>5, Zenon DEF Reconcile
  <2>8. QED
    BY <2>4, <2>5, <2>6, <2>7
<1>6. CASE Swap(id)
  <2>1. stack' \in Seq(Frames)
    BY <1>1, <1>6 DEF Swap, Ops, Callbacks
  <2>2. userDir' \in [Ids -> Versions \cup {None}]
    BY <1>6 DEF Swap, TypeOK
  <2> DEFINE saved == [Cached(id) EXCEPT !.error = FALSE]
  <2>3. saved \in Conf
    BY RecordTypes, ConfFacts
  <2>4. \/ cache' = [cache EXCEPT ![id] = saved] /\ file' = [file EXCEPT ![id] = saved]
        \/ UNCHANGED <<cache, file>>
    BY <1>6, Zenon DEF Swap
  <2>5. cache' \in [Ids -> Conf \cup {None}] /\ file' \in [Ids -> Conf \cup {None}]
    <3> HIDE DEF saved
    <3> QED BY <2>3, <2>4 DEF TypeOK
  <2>6. UNCHANGED <<activated, starting, runtime, pending_stop, jobs, job, draining,
                    preview, previewLog, proc, cli>>
    BY <1>6 DEF Swap
  <2>7. QED
    BY <2>1, <2>2, <2>5, <2>6 DEF TypeOK
<1>7. CASE SwapSystem(id)
  <2>1. stack' \in Seq(Frames)
    BY <1>1, <1>7 DEF SwapSystem, Ops, Callbacks
  <2>2. QED
    BY <1>7, <2>1 DEF SwapSystem, TypeOK
<1>8. CASE Remove(id)
  <2>1. stack' \in Seq(Frames)
    BY <1>1, <1>8 DEF Remove, Ops, Callbacks
  <2>2. userDir' \in [Ids -> Versions \cup {None}]
    BY <1>8 DEF Remove, TypeOK
  <2> DEFINE kept == [Default EXCEPT !.enabled = FALSE]
  <2>3. kept \in Conf /\ Default \in Conf
    BY DefaultType, ConfFacts
  <2>4. \/ cache' = [cache EXCEPT ![id] = kept] /\ file' = [file EXCEPT ![id] = kept]
        \/ cache' = [cache EXCEPT ![id] = Default] /\ file' = [file EXCEPT ![id] = None]
        \/ UNCHANGED <<cache, file>>
    BY <1>8, Zenon DEF Remove
  <2>5. cache' \in [Ids -> Conf \cup {None}] /\ file' \in [Ids -> Conf \cup {None}]
    <3> HIDE DEF kept
    <3>1. cache \in [Ids -> Conf \cup {None}] /\ file \in [Ids -> Conf \cup {None}]
      BY DEF TypeOK
    <3>2. QED
      BY <2>3, <2>4, <3>1
  <2>6. UNCHANGED <<activated, starting, runtime, pending_stop, jobs, job, draining,
                    preview, previewLog, proc, cli>>
    BY <1>8 DEF Remove
  <2>7. QED
    BY <2>1, <2>2, <2>5, <2>6 DEF TypeOK
<1>9. CASE ExitRest(id)
  <2>1. DrainStop(id, TRUE, Tail(stack)) /\ Tail(stack) \in Seq(Frames)
    BY <1>1, <1>9 DEF ExitRest, Ops
  <2>2. QED
    BY <1>9, <2>1, DrainStopType DEF ExitRest, TypeOK
<1>10. QED
  BY <1>2, <1>3, <1>4, <1>5, <1>6, <1>7, <1>8, <1>9 DEF RunFrame

LEMMA TypeHandlers ==
  ASSUME TypeOK, NEW id \in Ids,
         \/ StartNext(id)
         \/ \E enabled \in BOOLEAN : Toggle(id, enabled)
         \/ \E kind \in Kinds \ {"restart"} : Request(id, kind)
         \/ PreviewExt(id)
         \/ RemoteDone(id)
         \/ Reload(id)
  PROVE  TypeOK'
<1> USE DEF disk
<1>1. <<>> \in Seq(Frames) /\ Cached(id) \in Conf
  BY RecordTypes
<1>2. CASE StartNext(id)
  <2>1. UNCHANGED <<activated, job, userDir, cli>> /\ starting' \subseteq Ids
    BY <1>2 DEF StartNext, TypeOK
  <2>2. CASE StartExtension(id, Cached(id), <<>>)
    BY <1>1, <2>1, <2>2, StartExtensionType DEF TypeOK
  <2> DEFINE cleared == [Cached(id) EXCEPT !.error = FALSE]
  <2>3. CASE /\ \/ UNCHANGED <<cache, file>>
                \/ cache' = [cache EXCEPT ![id] = cleared] /\ file' = [file EXCEPT ![id] = cleared]
             /\ UNCHANGED <<runtime, pending_stop, jobs, draining, stack, preview, previewLog, proc>>
    <3>1. cleared \in Conf
      BY <1>1, ConfFacts
    <3>2. cache' \in [Ids -> Conf \cup {None}] /\ file' \in [Ids -> Conf \cup {None}]
      <4> HIDE DEF cleared
      <4> QED BY <2>3, <3>1 DEF TypeOK
    <3>3. QED
      BY <2>1, <2>3, <3>2 DEF TypeOK
  <2>4. \/ StartExtension(id, Cached(id), <<>>)
        \/ /\ \/ UNCHANGED <<cache, file>>
              \/ cache' = [cache EXCEPT ![id] = cleared] /\ file' = [file EXCEPT ![id] = cleared]
           /\ UNCHANGED <<runtime, pending_stop, jobs, draining, stack, preview, previewLog, proc>>
    BY <1>2, Zenon DEF StartNext
  <2>5. QED
    BY <2>2, <2>3, <2>4
<1>3. ASSUME NEW enabled \in BOOLEAN, Toggle(id, enabled)
      PROVE  TypeOK'
  <2> DEFINE saved == [enabled |-> enabled, error |-> FALSE]
  <2>1. saved \in Conf
    BY DEF Conf
  <2>2. cache' = [cache EXCEPT ![id] = saved] /\ file' = [file EXCEPT ![id] = saved]
    BY <1>3 DEF Toggle
  <2>3. cache' \in [Ids -> Conf \cup {None}] /\ file' \in [Ids -> Conf \cup {None}]
    <3> HIDE DEF saved
    <3> QED BY <2>1, <2>2 DEF TypeOK
  <2>4. Frame("reconcile", id) \in Frames
    BY FrameType DEF Ops
  <2>5. stack' \in Seq(Frames)
    BY <1>3, <2>4 DEF Toggle
  <2>6. UNCHANGED <<activated, starting, runtime, pending_stop, jobs, job, draining,
                    preview, previewLog, proc, userDir, cli>>
    BY <1>3 DEF Toggle
  <2>7. QED
    BY <2>3, <2>5, <2>6 DEF TypeOK
<1>4. ASSUME NEW kind \in Kinds, Request(id, kind)
      PROVE  TypeOK'
  <2>1. EnterDrain(id, <<>>) /\ (Load(id) \/ UNCHANGED cache)
    BY <1>4 DEF Request
  <2>2. draining' \in [Ids -> BOOLEAN] /\ stack' \in Seq(Frames)
    BY <1>1, <2>1, EnterDrainType
  <2>3. cache' \in [Ids -> Conf \cup {None}]
    BY <2>1, LoadType DEF TypeOK
  <2>4. jobs' \in [Ids -> Seq(Kinds)]
    <3>1. Append(jobs[id], kind) \in Seq(Kinds)
      BY DEF TypeOK
    <3>2. QED
      BY <1>4, <3>1 DEF Request, TypeOK
  <2>5. QED
    BY <1>4, <2>2, <2>3, <2>4 DEF Request, TypeOK
<1>5. CASE PreviewExt(id)
  <2> DEFINE restarts == IF preview \in {None, id} THEN <<id>> ELSE <<preview, id>>
             touched  == {restarts[k] : k \in DOMAIN restarts}
  <2>1. restarts \in Seq(Ids)
    BY DEF TypeOK
  <2>2. \A i \in Ids : Append(jobs[i], "restart") \in Seq(Kinds)
    BY DEF TypeOK, Kinds
  <2>3. jobs' = [i \in Ids |-> IF i \in touched THEN Append(jobs[i], "restart") ELSE jobs[i]]
    BY <1>5 DEF PreviewExt
  <2>4. jobs' \in [Ids -> Seq(Kinds)]
    <3> HIDE DEF touched
    <3> QED BY <2>2, <2>3 DEF TypeOK
  <2>5. draining' \in [Ids -> BOOLEAN]
    BY <1>5 DEF PreviewExt, TypeOK
  <2>6. stack' \in Seq(Frames)
    <3>1. stack' = [k \in DOMAIN restarts |-> Frame("drain", restarts[k])]
      BY <1>5 DEF PreviewExt
    <3> HIDE DEF restarts
    <3>2. \A i \in Ids : Frame("drain", i) \in Frames
      BY FrameType DEF Ops
    <3>3. DOMAIN restarts = 1..Len(restarts) /\ Len(restarts) \in Nat
      BY <2>1
    <3>4. \A k \in 1..Len(restarts) : restarts[k] \in Ids
      BY <2>1
    <3>5. QED
      BY <3>1, <3>2, <3>3, <3>4
  <2>7. proc' \in [Pids -> Procs]
    BY <1>5, SupersedeType DEF PreviewExt, TypeOK
  <2>8. cache' \in [Ids -> Conf \cup {None}]
    BY <1>5, LoadType DEF PreviewExt
  <2>9. preview' = id /\ previewLog' = id
        /\ UNCHANGED <<activated, starting, runtime, pending_stop, job, file, userDir, cli>>
    BY <1>5 DEF PreviewExt
  <2>10. QED
    BY <2>4, <2>5, <2>6, <2>7, <2>8, <2>9 DEF TypeOK
<1>6. CASE RemoteDone(id)
  <2>1. \A cb \in Callbacks : <<Frame(cb, id)>> \in Seq(Frames) /\ <<cb>> \in Seq(Callbacks)
    BY FrameType DEF Ops
  <2>2. \E cb \in Callbacks : \/ stack' = <<Frame(cb, id)>> /\ UNCHANGED <<runtime, pending_stop, proc>>
                              \/ StopProcess(id, <<cb>>, <<>>)
    BY <1>6 DEF RemoteDone, Callbacks
  <2>3. /\ runtime' \in [Ids -> Pids \cup {None}]
        /\ pending_stop' \in [Ids -> Seq(Callbacks) \cup {None}]
        /\ proc' \in [Pids -> Procs]
        /\ stack' \in Seq(Frames)
    <3>1. PICK cb \in Callbacks : \/ stack' = <<Frame(cb, id)>> /\ UNCHANGED <<runtime, pending_stop, proc>>
                                  \/ StopProcess(id, <<cb>>, <<>>)
      BY <2>2
    <3>2. CASE stack' = <<Frame(cb, id)>> /\ UNCHANGED <<runtime, pending_stop, proc>>
      BY <2>1, <3>2 DEF TypeOK
    <3>3. CASE StopProcess(id, <<cb>>, <<>>)
      BY <1>1, <2>1, <3>3, StopProcessType
    <3>4. QED
      BY <3>1, <3>2, <3>3
  <2>4. job' \in [Ids -> Stages]
    BY <1>6 DEF RemoteDone, TypeOK, Stages
  <2>5. QED
    BY <1>6, <2>3, <2>4 DEF RemoteDone, TypeOK
<1>7. CASE Reload(id)
  <2>1. cache' \in [Ids -> Conf \cup {None}]
    <3>1. Load(id) \/ UNCHANGED cache
      BY <1>7 DEF Reload
    <3>2. QED
      BY <3>1, LoadType DEF TypeOK
  <2>2. Append(jobs[id], "restart") \in Seq(Kinds)
    BY DEF TypeOK, Kinds
  <2>3. \/ jobs' = [jobs EXCEPT ![id] = Append(@, "restart")] /\ EnterDrain(id, <<>>)
        \/ UNCHANGED <<jobs, draining, stack>>
    BY <1>7 DEF Reload
  <2>4. jobs' \in [Ids -> Seq(Kinds)]
    BY <2>2, <2>3 DEF TypeOK
  <2>5. draining' \in [Ids -> BOOLEAN] /\ stack' \in Seq(Frames)
    BY <1>1, <2>3, EnterDrainType DEF TypeOK
  <2>6. cli' \in [Ids -> [pc : {"idle", "download", "removed", "written"}, conf : Conf]]
    BY <1>7, DefaultType DEF Reload, TypeOK, CliIdle
  <2>7. UNCHANGED <<activated, starting, runtime, pending_stop, job, preview, previewLog,
                    proc, file, userDir>>
    BY <1>7 DEF Reload
  <2>8. QED
    BY <2>1, <2>4, <2>5, <2>6, <2>7 DEF TypeOK
<1>8. QED
  BY <1>2, <1>3, <1>4, <1>5, <1>6, <1>7

LEMMA TypeOthers ==
  ASSUME TypeOK,
         \/ \E id \in Ids : Cli(id)
         \/ StartExtensions
         \/ StopPreview
         \/ \E p \in Pids : HandleExit(p) \/ ProcDies(p)
         \/ Relaunch
  PROVE  TypeOK'
<1> USE DEF disk, service
<1>1. <<>> \in Seq(Frames)
  OBVIOUS
<1>2. ASSUME NEW id \in Ids, Cli(id)
      PROVE  TypeOK'
  <2> DEFINE Clis == [pc : {"idle", "download", "removed", "written"}, conf : Conf]
  <2>1. UNCHANGED <<service, proc, cache>>
    BY <1>2 DEF Cli, CliDownload, CliSwap, CliRemove, CliDisable
  <2>2. userDir' \in [Ids -> Versions \cup {None}]
    BY <1>2 DEF Cli, CliDownload, CliSwap, CliRemove, CliDisable, TypeOK
  <2>3. cli[id] \in Clis /\ cli[id].conf \in Conf
    BY DEF TypeOK
  <2>4. /\ [cli[id].conf EXCEPT !.error = FALSE] \in Conf
        /\ [Default EXCEPT !.enabled = FALSE] \in Conf
    BY <2>3, DefaultType, ConfFacts
  <2>5. file' \in [Ids -> Conf \cup {None}]
    <3>1. \E c \in Conf \cup {None} : file' \in {file, [file EXCEPT ![id] = c]}
      BY <1>2, <2>4, Zenon DEF Cli, CliDownload, CliSwap, CliRemove, CliDisable
    <3>2. QED
      BY <3>1 DEF TypeOK
  <2>6. cli' \in [Ids -> Clis]
    <3>1. /\ [pc |-> "download", conf |-> Reloaded(id)] \in Clis
          /\ [pc |-> "written", conf |-> Default] \in Clis
          /\ CliIdle \in Clis
      BY DefaultType, RecordTypes DEF CliIdle
    <3>2. ASSUME NEW c \in Clis
          PROVE  [c EXCEPT !.pc = "removed"] \in Clis /\ [c EXCEPT !.pc = "written"] \in Clis
      OBVIOUS
    <3>3. [cli[id] EXCEPT !.pc = "removed"] \in Clis /\ [cli[id] EXCEPT !.pc = "written"] \in Clis
      BY <2>3, <3>2
    <3>4. \E c \in Clis : cli' = [cli EXCEPT ![id] = c]
      <4>1. CASE CliDownload(id)
        BY <4>1, <3>1 DEF CliDownload
      <4>2. CASE CliSwap(id)
        BY <4>2, <3>1 DEF CliSwap
      <4>3. CASE CliRemove(id)
        BY <4>3, <3>3 DEF CliRemove
      <4>4. CASE CliDisable(id)
        BY <4>4, <3>3 DEF CliDisable
      <4>5. QED
        BY <1>2, <4>1, <4>2, <4>3, <4>4 DEF Cli
    <3> HIDE DEF Clis
    <3>5. cli \in [Ids -> Clis]
      BY DEF TypeOK, Clis
    <3>6. QED
      BY <3>4, <3>5
  <2>7. QED
    BY <2>1, <2>2, <2>5, <2>6 DEF TypeOK
<1>3. CASE StartExtensions
  <2>1. cache' \in [Ids -> Conf \cup {None}]
    <3>1. \A i \in Ids : Cached(i) \in Conf /\ cache[i] \in Conf \cup {None}
      BY RecordTypes DEF TypeOK
    <3>2. cache' = [i \in Ids |-> IF Resolves(i) THEN Cached(i) ELSE cache[i]]
      BY <1>3 DEF StartExtensions
    <3>3. QED
      BY <3>1, <3>2
  <2>2. QED
    BY <1>3, <2>1 DEF StartExtensions, TypeOK
<1>4. CASE StopPreview
  <2>1. preview \in Ids
    BY <1>4 DEF StopPreview, TypeOK
  <2>2. draining' \in [Ids -> BOOLEAN] /\ stack' \in Seq(Frames)
    BY <1>1, <1>4, <2>1, EnterDrainType DEF StopPreview
  <2>3. jobs' \in [Ids -> Seq(Kinds)]
    <3>1. Append(jobs[preview], "restart") \in Seq(Kinds)
      BY <2>1 DEF TypeOK, Kinds
    <3>2. QED
      BY <1>4, <2>1, <3>1 DEF StopPreview, TypeOK
  <2>4. proc' \in [Pids -> Procs]
    BY <1>4, SupersedeType DEF StopPreview, TypeOK
  <2>5. preview' = None /\ previewLog' = None
        /\ UNCHANGED <<activated, starting, runtime, pending_stop, job, disk, cli>>
    BY <1>4 DEF StopPreview
  <2>6. QED
    BY <2>2, <2>3, <2>4, <2>5 DEF TypeOK
<1>5. ASSUME NEW p \in Pids, HandleExit(p)
      PROVE  TypeOK'
  <2> DEFINE id == proc[p].id
             errored == proc[p].status = "crashed"
  <2>1. id \in Ids
    BY <1>5 DEF HandleExit, TypeOK, Procs
  <2>2. Cached(id) \in Conf /\ errored \in BOOLEAN
    BY <2>1, RecordTypes
  <2>3. /\ ExitHandler(id, proc[p].rec, errored, Cached(id), <<>>)
        /\ proc' = [proc EXCEPT ![p] = Free]
        /\ UNCHANGED <<activated, starting, job, userDir, cli>>
    BY <1>5 DEF HandleExit
  <2>4. proc' \in [Pids -> Procs]
    BY <2>3 DEF TypeOK, Procs, Free, Copies
  <2>5. QED
    <3> HIDE DEF errored, id
    <3>1. /\ runtime' \in [Ids -> Pids \cup {None}]
          /\ pending_stop' \in [Ids -> Seq(Callbacks) \cup {None}]
          /\ jobs' \in [Ids -> Seq(Kinds)]
          /\ draining' \in [Ids -> BOOLEAN]
          /\ stack' \in Seq(Frames)
          /\ preview' \in Ids \cup {None}
          /\ previewLog' \in Ids \cup {None}
          /\ cache' \in [Ids -> Conf \cup {None}]
          /\ file' \in [Ids -> Conf \cup {None}]
      BY <1>1, <2>1, <2>2, <2>3, ExitHandlerType
    <3>2. QED
      BY <2>3, <2>4, <3>1 DEF TypeOK
<1>6. ASSUME NEW p \in Pids, ProcDies(p)
      PROVE  TypeOK'
  <2>1. proc' \in [Pids -> Procs]
    BY <1>6, MarkedFacts DEF ProcDies, TypeOK
  <2>2. QED
    BY <1>6, <2>1 DEF ProcDies, TypeOK
<1>7. CASE Relaunch
  <2>1. /\ runtime' \in [Ids -> Pids \cup {None}]
        /\ pending_stop' \in [Ids -> Seq(Callbacks) \cup {None}]
        /\ jobs' \in [Ids -> Seq(Kinds)]
        /\ job' \in [Ids -> Stages]
        /\ cache' \in [Ids -> Conf \cup {None}]
    BY <1>7 DEF Relaunch, Stages
  <2>2. proc' \in [Pids -> Procs]
    BY <1>7 DEF Relaunch, Procs, Free, Copies
  <2>3. QED
    BY <1>7, <2>1, <2>2 DEF Relaunch, TypeOK
<1>8. QED
  BY <1>2, <1>3, <1>4, <1>5, <1>6, <1>7

LEMMA TypeInit == Init => TypeOK
<1> SUFFICES ASSUME Init PROVE TypeOK
  OBVIOUS
<1>1. proc \in [Pids -> Procs]
  BY DEF Init, Procs, Free, Copies
<1>2. cli \in [Ids -> [pc : {"idle", "download", "removed", "written"}, conf : Conf]]
  BY DefaultType DEF Init, CliIdle
<1>3. /\ pending_stop \in [Ids -> Seq(Callbacks) \cup {None}]
      /\ jobs \in [Ids -> Seq(Kinds)]
      /\ stack \in Seq(Frames)
  BY DEF Init
<1>4. /\ activated \in BOOLEAN /\ starting \subseteq Ids
      /\ runtime \in [Ids -> Pids \cup {None}]
      /\ job \in [Ids -> Stages] /\ draining \in [Ids -> BOOLEAN]
      /\ preview \in Ids \cup {None} /\ previewLog \in Ids \cup {None}
      /\ cache \in [Ids -> Conf \cup {None}] /\ file \in [Ids -> Conf \cup {None}]
      /\ userDir \in [Ids -> Versions \cup {None}]
  BY DEF Init, Stages
<1>5. QED
  BY <1>1, <1>2, <1>3, <1>4 DEF TypeOK

LEMMA TypeStep == TypeOK /\ [Next]_vars => TypeOK'
<1> SUFFICES ASSUME TypeOK, [Next]_vars PROVE TypeOK'
  OBVIOUS
<1>1. CASE Next
  <2>1. CASE \E id \in Ids : RunFrame(id)
    BY <2>1, TypeFrames
  <2>2. CASE \E id \in Ids : \/ StartNext(id)
                             \/ \E enabled \in BOOLEAN : Toggle(id, enabled)
                             \/ \E kind \in Kinds \ {"restart"} : Request(id, kind)
                             \/ PreviewExt(id)
                             \/ RemoteDone(id)
                             \/ Reload(id)
    BY <2>2, TypeHandlers
  <2>3. CASE \/ \E id \in Ids : Cli(id)
             \/ StartExtensions
             \/ StopPreview
             \/ \E p \in Pids : HandleExit(p) \/ ProcDies(p)
             \/ Relaunch
    BY <2>3, TypeOthers
  <2>4. QED
    BY <1>1, <2>1, <2>2, <2>3, Zenon DEF Next
<1>2. CASE UNCHANGED vars
  BY <1>2 DEF vars, service, disk, TypeOK
<1>3. QED
  BY <1>1, <1>2

\* The service's state, the call stack, the processes and the files keep their types in every
\* behaviour, for any number of ids, processes and queued jobs.
THEOREM TypeCorrect == Spec => []TypeOK
BY TypeInit, TypeStep, PTL DEF Spec


-----------------------------------------------------------------------------
(* The state files, when only the app writes them *)

\* The CLI installs, upgrades and removes nothing.
AppAlone == Requests \cap {"cli_install", "cli_uninstall"} = {}

\* What the app has cached of a state file is what the file holds.
CacheInv ==
  /\ \A id \in Ids : cli[id].pc = "idle"
  /\ \A id \in Ids : cache[id] \in {None, Reloaded(id)}

LEMMA CachedIsFile ==
  ASSUME CacheInv, NEW id \in Ids
  PROVE  Cached(id) = Reloaded(id)
BY DEF CacheInv, Cached

\* What a step may do to the state of an id: nothing, drop the cached one, read
\* the file, or write both; only turning the extension on lifts an "off".
Keeps(id) == file'[id] = file[id] /\ cache'[id] \in {None, cache[id], Reloaded(id)}
Saves(id) ==
  \/ /\ cache'[id] = file'[id] /\ file'[id] # None
     /\ file'[id].enabled => Reloaded(id).enabled
  \/ /\ cache'[id] = Default /\ file'[id] = None

LEMMA KeepsOrSaves ==
  ASSUME CacheInv, NEW id \in Ids, Keeps(id) \/ Saves(id)
  PROVE  /\ cache'[id] \in {None, Reloaded(id)'}
         /\ file[id] # None /\ ~file[id].enabled /\ file'[id] # None => ~file'[id].enabled
BY DEF CacheInv, Keeps, Saves, Reloaded

\* The operators that write states, for one id and all others.
Others(id) == \A i \in Ids \ {id} : cache'[i] = cache[i] /\ file'[i] = file[i]

LEMMA OthersKeep ==
  ASSUME NEW id, Others(id), NEW i \in Ids, i # id
  PROVE  Keeps(i)
BY DEF Others, Keeps

LEMMA ClearedFacts ==
  ASSUME NEW c \in Conf
  PROVE  /\ [c EXCEPT !.error = TRUE].enabled = c.enabled /\ [c EXCEPT !.error = TRUE] # None
         /\ [c EXCEPT !.error = FALSE].enabled = c.enabled /\ [c EXCEPT !.error = FALSE] # None
<1>1. \A d \in Conf : d # None
  BY ServiceAssumption
<1>2. [c EXCEPT !.error = TRUE].enabled = c.enabled /\ [c EXCEPT !.error = FALSE].enabled = c.enabled
  BY DEF Conf
<1>. QED  BY <1>1, <1>2, ConfFacts

LEMMA ExitHandlerSaves ==
  ASSUME TypeOK, NEW id \in Ids, NEW rec, NEW errored, NEW conf \in Conf, NEW rest,
         ExitHandler(id, rec, errored, conf, rest)
  PROVE  /\ Others(id)
         /\ \/ cache'[id] = conf /\ file'[id] = file[id]
            \/ /\ cache'[id] = file'[id] /\ file'[id] # None
               /\ file'[id].enabled = conf.enabled
<1>1. [conf EXCEPT !.error = TRUE].enabled = conf.enabled /\ [conf EXCEPT !.error = TRUE] # None
  BY ClearedFacts
<1>2. cache \in [Ids -> Conf \cup {None}] /\ file \in [Ids -> Conf \cup {None}]
  BY DEF TypeOK
<1>. QED  BY <1>1, <1>2 DEF ExitHandler, Others

LEMMA StartExtensionSaves ==
  ASSUME TypeOK, NEW id \in Ids, NEW conf \in Conf, NEW rest, StartExtension(id, conf, rest),
         conf = Reloaded(id)
  PROVE  Others(id) /\ (Keeps(id) \/ Saves(id))
<1>. DEFINE cleared == IF preview = id THEN conf ELSE [conf EXCEPT !.error = FALSE]
            rec == IF preview = id THEN "preview" ELSE "installed"
<1>1. /\ cleared \in Conf /\ cleared.enabled = conf.enabled /\ cleared # None
      /\ preview = id => cleared = conf
  BY ClearedFacts, ConfFacts, ServiceAssumption
<1>2. cache \in [Ids -> Conf \cup {None}] /\ file \in [Ids -> Conf \cup {None}]
  BY DEF TypeOK
<1>3. \/ /\ cache' = [cache EXCEPT ![id] = cleared]
         /\ file' = IF preview = id THEN file ELSE [file EXCEPT ![id] = cleared]
      \/ ExitHandler(id, rec, TRUE, cleared, rest)
  BY DEF StartExtension
<1>. HIDE DEF cleared
<1>4. CASE /\ cache' = [cache EXCEPT ![id] = cleared]
           /\ file' = IF preview = id THEN file ELSE [file EXCEPT ![id] = cleared]
  BY <1>1, <1>2, <1>4 DEF Others, Keeps, Saves
<1>5. CASE ExitHandler(id, rec, TRUE, cleared, rest)
  <2>. HIDE DEF rec
  <2>1. /\ Others(id)
        /\ \/ cache'[id] = cleared /\ file'[id] = file[id]
           \/ cache'[id] = file'[id] /\ file'[id] # None /\ file'[id].enabled = cleared.enabled
    BY <1>1, <1>5, ExitHandlerSaves
  <2>2. CASE preview = id
    BY <1>1, <2>1, <2>2 DEF Keeps, Saves
  <2>3. CASE preview # id
    \* an installed record's failure is always saved
    <3>1. cache'[id] = file'[id] /\ file'[id] # None /\ file'[id].enabled = cleared.enabled
      <4>1. [cleared EXCEPT !.error = TRUE].enabled = cleared.enabled
            /\ [cleared EXCEPT !.error = TRUE] # None
        BY <1>1, ClearedFacts
      <4>2. rec = "installed"
        BY <2>3 DEF rec
      <4>. QED  BY <1>2, <1>5, <4>1, <4>2 DEF ExitHandler
    <3>. QED  BY <1>1, <2>1, <3>1 DEF Saves
  <2>. QED  BY <2>2, <2>3
<1>. QED  BY <1>3, <1>4, <1>5

LEMMA LoadKeeps ==
  ASSUME TypeOK, CacheInv, NEW id \in Ids, Load(id) \/ UNCHANGED cache, UNCHANGED file
  PROVE  \A i \in Ids : Keeps(i)
BY CachedIsFile DEF Load, TypeOK, Keeps

\* A step of the app keeps or saves the state of every id, but for Toggle.
LEMMA FrameStates ==
  ASSUME TypeOK, CacheInv, NEW id \in Ids, RunFrame(id)
  PROVE  /\ \A i \in Ids : Keeps(i) \/ Saves(i)
         /\ UNCHANGED cli
<1>1. /\ cache \in [Ids -> Conf \cup {None}] /\ file \in [Ids -> Conf \cup {None}]
      /\ Reloaded(id) \in Conf /\ Cached(id) \in Conf
  BY RecordTypes DEF TypeOK
<1>2. CASE StartJob(id)
  BY <1>2, LoadKeeps DEF StartJob
<1>3. CASE DrainDone(id) \/ Release(id) \/ SwapSystem(id) \/ ExitRest(id)
  BY <1>3 DEF DrainDone, Release, SwapSystem, ExitRest, disk, Keeps
<1>4. CASE Reconcile(id)
  <2>. DEFINE conf == IF Resolves(id) THEN Reloaded(id) ELSE cache[id]
  <2>1. UNCHANGED cli
    BY <1>4 DEF Reconcile
  <2>2. \/ Resolves(id) /\ StartExtension(id, Reloaded(id), Tail(stack))
        \/ (cache' = cache \/ cache' = [cache EXCEPT ![id] = conf]) /\ file' = file
    BY <1>4 DEF Reconcile
  <2>3. CASE StartExtension(id, Reloaded(id), Tail(stack))
    BY <1>1, <2>1, <2>3, StartExtensionSaves, OthersKeep
  <2>4. CASE (cache' = cache \/ cache' = [cache EXCEPT ![id] = conf]) /\ file' = file
    BY <1>1, <2>1, <2>4 DEF Keeps
  <2>. QED  BY <2>2, <2>3, <2>4
<1>5. CASE Swap(id)
  <2>. DEFINE saved == [Cached(id) EXCEPT !.error = FALSE]
  <2>1. saved.enabled = Reloaded(id).enabled /\ saved # None
    BY <1>1, ClearedFacts, CachedIsFile
  <2>2. /\ UNCHANGED cli
        /\ \/ cache' = [cache EXCEPT ![id] = saved] /\ file' = [file EXCEPT ![id] = saved]
           \/ UNCHANGED <<cache, file>>
    BY <1>5 DEF Swap
  <2>. HIDE DEF saved
  <2>. QED  BY <1>1, <2>1, <2>2 DEF Keeps, Saves
<1>6. CASE Remove(id)
  <2>. DEFINE kept == [Default EXCEPT !.enabled = FALSE]
  <2>1. kept \in Conf /\ kept.enabled = FALSE /\ kept # None
    BY DefaultType, ConfFacts, ServiceAssumption DEF Default
  <2>2. /\ UNCHANGED cli
        /\ \/ cache' = [cache EXCEPT ![id] = kept] /\ file' = [file EXCEPT ![id] = kept]
           \/ cache' = [cache EXCEPT ![id] = Default] /\ file' = [file EXCEPT ![id] = None]
           \/ UNCHANGED <<cache, file>>
    BY <1>6 DEF Remove
  <2>. HIDE DEF kept
  <2>. QED  BY <1>1, <2>1, <2>2 DEF Keeps, Saves
<1>. QED  BY <1>2, <1>3, <1>4, <1>5, <1>6 DEF RunFrame

LEMMA HandlerStates ==
  ASSUME TypeOK, CacheInv,
         \/ \E id \in Ids : \/ StartNext(id) \/ PreviewExt(id) \/ RemoteDone(id)
                            \/ \E kind \in Kinds \ {"restart"} : Request(id, kind)
         \/ StartExtensions \/ StopPreview \/ Relaunch
         \/ \E p \in Pids : HandleExit(p) \/ ProcDies(p)
         \/ UNCHANGED vars
  PROVE  /\ \A i \in Ids : Keeps(i) \/ Saves(i)
         /\ UNCHANGED cli
<1>1. /\ cache \in [Ids -> Conf \cup {None}] /\ file \in [Ids -> Conf \cup {None}]
      /\ \A id \in Ids : Reloaded(id) \in Conf /\ Cached(id) \in Conf
                         /\ Cached(id) = Reloaded(id)
  BY RecordTypes, CachedIsFile DEF TypeOK
<1>2. ASSUME NEW id \in Ids, StartNext(id) PROVE (\A i \in Ids : Keeps(i) \/ Saves(i)) /\ UNCHANGED cli
  <2>. DEFINE cleared == [Cached(id) EXCEPT !.error = FALSE]
  <2>1. cleared.enabled = Reloaded(id).enabled /\ cleared # None
    BY <1>1, ClearedFacts
  <2>2. /\ UNCHANGED cli
        /\ \/ StartExtension(id, Cached(id), <<>>)
           \/ cache' = [cache EXCEPT ![id] = cleared] /\ file' = [file EXCEPT ![id] = cleared]
           \/ UNCHANGED <<cache, file>>
    BY <1>2 DEF StartNext
  <2>. HIDE DEF cleared
  <2>3. CASE StartExtension(id, Cached(id), <<>>)
    BY <1>1, <2>2, <2>3, StartExtensionSaves, OthersKeep
  <2>. QED  BY <1>1, <2>1, <2>2, <2>3 DEF Keeps, Saves
<1>3. ASSUME NEW id \in Ids, PreviewExt(id) PROVE (\A i \in Ids : Keeps(i) \/ Saves(i)) /\ UNCHANGED cli
  BY <1>3, LoadKeeps DEF PreviewExt
<1>4. ASSUME NEW id \in Ids, RemoteDone(id) PROVE (\A i \in Ids : Keeps(i) \/ Saves(i)) /\ UNCHANGED cli
  BY <1>4 DEF RemoteDone, disk, Keeps
<1>5. ASSUME NEW id \in Ids, NEW kind, Request(id, kind)
      PROVE  (\A i \in Ids : Keeps(i) \/ Saves(i)) /\ UNCHANGED cli
  BY <1>5, LoadKeeps DEF Request
<1>6. CASE StartExtensions
  BY <1>1, <1>6 DEF StartExtensions, Keeps
<1>7. CASE StopPreview \/ (\E p \in Pids : ProcDies(p)) \/ UNCHANGED vars
  BY <1>7 DEF StopPreview, ProcDies, vars, disk, Keeps
<1>8. CASE Relaunch
  BY <1>8 DEF Relaunch, Keeps
<1>9. ASSUME NEW p \in Pids, HandleExit(p) PROVE (\A i \in Ids : Keeps(i) \/ Saves(i)) /\ UNCHANGED cli
  <2>. DEFINE id == proc[p].id
  <2>1. id \in Ids /\ UNCHANGED cli
        /\ ExitHandler(id, proc[p].rec, proc[p].status = "crashed", Cached(id), <<>>)
    BY <1>9 DEF HandleExit, TypeOK, Procs
  <2>. HIDE DEF id
  <2>2. /\ Others(id)
        /\ \/ cache'[id] = Cached(id) /\ file'[id] = file[id]
           \/ cache'[id] = file'[id] /\ file'[id] # None /\ file'[id].enabled = Cached(id).enabled
    BY <1>1, <2>1, ExitHandlerSaves
  <2>3. Keeps(id) \/ Saves(id)
    BY <1>1, <2>1, <2>2 DEF Keeps, Saves
  <2>. QED  BY <2>1, <2>2, <2>3, OthersKeep
<1>. QED  BY <1>2, <1>3, <1>4, <1>5, <1>6, <1>7, <1>8, <1>9

LEMMA ToggleStates ==
  ASSUME TypeOK, CacheInv, NEW id \in Ids, NEW enabled \in BOOLEAN, Toggle(id, enabled)
  PROVE  /\ \A i \in Ids \ {id} : Keeps(i)
         /\ cache'[id] = file'[id] /\ file'[id] # None /\ file'[id].enabled = enabled
         /\ UNCHANGED cli
<1>. DEFINE saved == [enabled |-> enabled, error |-> FALSE]
<1>1. saved \in Conf /\ saved # None /\ saved.enabled = enabled
  <2>1. saved \in Conf /\ saved.enabled = enabled
    BY DEF Conf
  <2>. QED  BY <2>1, ServiceAssumption
<1>2. cache' = [cache EXCEPT ![id] = saved] /\ file' = [file EXCEPT ![id] = saved] /\ UNCHANGED cli
  BY DEF Toggle
<1>. HIDE DEF saved
<1>. QED  BY <1>1, <1>2 DEF TypeOK, Keeps

\* Without the CLI, a step is one of the above.
LEMMA AloneSteps ==
  ASSUME AppAlone, TypeOK, CacheInv, [Next]_vars
  PROVE  \/ (\A i \in Ids : Keeps(i) \/ Saves(i)) /\ UNCHANGED cli
         \/ \E id \in Ids, enabled \in BOOLEAN : Toggle(id, enabled)
<1>1. \A id \in Ids : ~Cli(id) /\ ~Reload(id)
  BY DEF AppAlone, CacheInv, Cli, CliDownload, CliSwap, CliRemove, CliDisable, Reload
<1>. QED  BY <1>1, FrameStates, HandlerStates DEF Next

LEMMA AloneKeepsCache ==
  ASSUME AppAlone, TypeOK, CacheInv, [Next]_vars
  PROVE  CacheInv'
<1>1. CASE (\A i \in Ids : Keeps(i) \/ Saves(i)) /\ UNCHANGED cli
  BY <1>1, KeepsOrSaves DEF CacheInv
<1>2. ASSUME NEW id \in Ids, NEW enabled \in BOOLEAN, Toggle(id, enabled) PROVE CacheInv'
  <2>1. \A i \in Ids : cache'[i] \in {None, Reloaded(i)'}
    BY <1>2, ToggleStates, KeepsOrSaves DEF Reloaded
  <2>. QED  BY <1>2, <2>1, ToggleStates DEF CacheInv
<1>. QED  BY <1>1, <1>2, AloneSteps

LEMMA InitCache == Init => CacheInv
BY DEF Init, CacheInv, CliIdle

\* While only the app writes state files, an extension the user has switched
\* off is only switched on by the user; with the CLI's writes it is not so.
THEOREM OffStaysOff == AppAlone /\ Spec => DisabledStaysDisabled
<1>. SUFFICES ASSUME AppAlone PROVE Spec => DisabledStaysDisabled
  OBVIOUS
<1>. DEFINE Step == \A id \in Ids :
                      (/\ file[id] # None /\ ~file[id].enabled
                       /\ file'[id] # None /\ file'[id].enabled) => Toggle(id, TRUE)
<1>1. ASSUME TypeOK, CacheInv, [Next]_vars PROVE Step
  <2>1. CASE (\A i \in Ids : Keeps(i) \/ Saves(i)) /\ UNCHANGED cli
    BY <1>1, <2>1, KeepsOrSaves
  <2>2. ASSUME NEW id \in Ids, NEW enabled \in BOOLEAN, Toggle(id, enabled) PROVE Step
    <3>1. \A i \in Ids \ {id} : file[i] # None /\ ~file[i].enabled /\ file'[i] # None => ~file'[i].enabled
      BY <1>1, <2>2, ToggleStates, KeepsOrSaves
    <3>2. file'[id].enabled => Toggle(id, TRUE)
      BY <1>1, <2>2, ToggleStates
    <3>. QED  BY <3>1, <3>2
  <2>. QED  BY <1>1, <2>1, <2>2, AloneSteps
<1>2. TypeOK /\ CacheInv /\ [Next]_vars => [Step]_vars
  BY <1>1
<1>3. TypeOK /\ CacheInv /\ [Next]_vars => CacheInv'
  BY AloneKeepsCache
<1>. QED  BY <1>2, <1>3, InitCache, TypeInit, TypeStep, PTL DEF Spec, DisabledStaysDisabled

\* While only the app writes state files, the state of a removed extension is
\* forgotten; with `ulauncher uninstall` it is not (extension_record.py:220).
THEOREM RemovedIsForgotten == AppAlone /\ Spec => []RemovedStateForgotten
<1>. SUFFICES ASSUME AppAlone PROVE Spec => []RemovedStateForgotten
  OBVIOUS
<1>1. CacheInv => RemovedStateForgotten
  BY CachedIsFile DEF RemovedStateForgotten, Reloaded
<1>2. TypeOK /\ CacheInv /\ [Next]_vars => CacheInv'
  BY AloneKeepsCache
<1>. QED  BY <1>1, <1>2, InitCache, TypeInit, TypeStep, PTL DEF Spec
=============================================================================
