--------------------- MODULE ExtensionServiceRefinement ---------------------
(* The inductive invariant IInv of ExtensionService, and what follows from  *)
(* it: the app never replaces or removes a directory under a process of the *)
(* installed copy, the service implements ProcessSlots, and an id that has   *)
(* nothing outstanding is as its record asks.                                *)
EXTENDS ExtensionServiceSafety

NoCallback(s) == \A k \in 1..Len(s) : s[k].op \notin Callbacks

\* Only a job waits for the exit of a process, and with one callback.
PendingJob ==
  \A id \in Ids : pending_stop[id] \notin {None, <<>>} =>
    job[id] = "local" /\ Len(pending_stop[id]) = 1

\* No process runs from the installed copy of the id.
Clear(id) == \A p \in Held(id) : proc[p].rec # "installed"

\* What JobInv asks of the callback `cb` of `id` on top of the stack.
Continues(cb, id) ==
  /\ job[id] = "local"
  /\ pending_stop[id] \in {None, <<>>}
  /\ cb \in {"swap", "remove"} => Clear(id)

-----------------------------------------------------------------------------
(* Callbacks on a stack *)

LEMMA JobInvParts ==
  ASSUME TypeOK, JobInv
  PROVE  /\ PendingJob
         /\ \A op \in Ops, id \in Ids : Runs(op, id) =>
              /\ NoCallback(Tail(stack))
              /\ op \notin Callbacks => NoCallback(stack)
              /\ op \in Callbacks => Continues(op, id)
<1>1. PendingJob
  BY DEF JobInv, PendingJob
<1>2. ASSUME NEW op \in Ops, NEW id \in Ids, Runs(op, id)
      PROVE  /\ NoCallback(Tail(stack))
             /\ op \notin Callbacks => NoCallback(stack)
             /\ op \in Callbacks => Continues(op, id)
  <2>1. stack \in Seq(Frames) /\ stack # <<>> /\ Head(stack) = Frame(op, id)
    BY <1>2 DEF Runs, TypeOK
  <2>2. /\ Head(stack) = stack[1]
        /\ Len(stack) \in Nat /\ Len(stack) >= 1
        /\ Len(Tail(stack)) = Len(stack) - 1
        /\ \A k \in 1..(Len(stack) - 1) : Tail(stack)[k] = stack[k + 1]
    BY <2>1, TailFacts
  <2>3. stack[1] = Frame(op, id) /\ stack[1].op = op /\ stack[1].id = id
    BY <2>1, <2>2, FrameType
  <2>4. \A k \in 1..Len(stack) : stack[k].op \in Callbacks => k = 1
    BY DEF JobInv
  <2>5. NoCallback(Tail(stack))
    <3>1. \A k \in 1..Len(Tail(stack)) : k + 1 \in 1..Len(stack) /\ k + 1 # 1 /\ Tail(stack)[k] = stack[k + 1]
      BY <2>2
    <3>2. QED
      BY <2>4, <3>1 DEF NoCallback
  <2>6. op \notin Callbacks => NoCallback(stack)
    BY <2>3, <2>4 DEF NoCallback
  <2>7. op \in Callbacks => Continues(op, id)
    <3>1. 1 \in 1..Len(stack)
      BY <2>2
    <3>2. QED
      BY <2>3, <3>1 DEF JobInv, Continues, Clear
  <2>8. QED
    BY <2>5, <2>6, <2>7
<1>3. QED
  BY <1>1, <1>2

LEMMA CallbackPush ==
  ASSUME NEW s \in Seq(Frames), NoCallback(s), NEW f \in Frames
  PROVE  /\ Push(f, s) \in Seq(Frames)
         /\ Push(f, s)[1] = f
         /\ \A k \in 1..Len(Push(f, s)) : Push(f, s)[k].op \in Callbacks => k = 1
         /\ f.op \notin Callbacks => NoCallback(Push(f, s))
<1>1. /\ Push(f, s) \in Seq(Frames) /\ Len(Push(f, s)) = Len(s) + 1 /\ Len(s) \in Nat
      /\ Push(f, s)[1] = f
      /\ \A k \in 1..Len(s) : Push(f, s)[k + 1] = s[k]
  BY PushFacts DEF Push
<1>2. ASSUME NEW k \in 1..Len(Push(f, s)), k # 1
      PROVE  Push(f, s)[k].op \notin Callbacks
  <2>1. k - 1 \in 1..Len(s) /\ (k - 1) + 1 = k
    BY <1>1, <1>2
  <2>2. QED
    BY <1>1, <2>1 DEF NoCallback
<1>3. QED
  BY <1>1, <1>2 DEF NoCallback

LEMMA CallbackConcat ==
  ASSUME NEW s \in Seq(Frames), NEW t \in Seq(Frames), NoCallback(s), NoCallback(t)
  PROVE  NoCallback(s \o t)
<1>1. /\ Len(s \o t) = Len(s) + Len(t) /\ Len(s) \in Nat /\ Len(t) \in Nat
      /\ \A k \in 1..Len(s) : (s \o t)[k] = s[k]
      /\ \A k \in 1..(Len(s) + Len(t)) : k > Len(s) => (s \o t)[k] = t[k - Len(s)]
  OBVIOUS
<1>2. ASSUME NEW k \in 1..Len(s \o t) PROVE (s \o t)[k].op \notin Callbacks
  <2>1. CASE k \in 1..Len(s)
    BY <1>1, <2>1 DEF NoCallback
  <2>2. CASE k > Len(s)
    <3>1. k - Len(s) \in 1..Len(t)
      BY <1>1, <2>2
    <3>2. QED
      BY <1>1, <2>2, <3>1 DEF NoCallback
  <2>3. QED
    BY <1>1, <2>1, <2>2
<1>3. QED
  BY <1>2 DEF NoCallback

\* JobInv after a step that leaves no callback on the stack, and after one that pushes one.
LEMMA JobInvNone == ASSUME NoCallback(stack'), PendingJob' PROVE JobInv'
BY DEF NoCallback, PendingJob, JobInv

LEMMA JobInvTop ==
  ASSUME NEW id \in Ids, NEW cb \in Callbacks, NEW rest \in Seq(Frames), NoCallback(rest),
         stack' = Push(Frame(cb, id), rest), PendingJob', Continues(cb, id)'
  PROVE  JobInv'
<1>1. Frame(cb, id) \in Frames /\ Frame(cb, id).op = cb /\ Frame(cb, id).id = id
  BY DEF Frame, Frames, Ops
<1>2. /\ stack'[1] = Frame(cb, id)
      /\ \A k \in 1..Len(stack') : stack'[k].op \in Callbacks => k = 1
  BY <1>1, CallbackPush
<1>3. QED
  BY <1>1, <1>2 DEF PendingJob, Continues, Clear, JobInv

-----------------------------------------------------------------------------
(* The building blocks *)

\* A step that only pushes other frames, forgets a stop, or records one nobody waits for.
LEMMA QuietJob ==
  ASSUME PendingJob, NoCallback(stack'), job' = job,
         \A i \in Ids : pending_stop'[i] \in {pending_stop[i], None, <<>>}
  PROVE  JobInv'
<1>1. PendingJob'
  BY DEF PendingJob
<1>2. QED
  BY <1>1, JobInvNone

\* Beside the running process of an overlay there is no other process of the id.
LEMMA OverlayClear ==
  ASSUME TypeOK, ProcOK, NEW id \in Ids, runtime[id] # None, proc[runtime[id]].rec # "installed"
  PROVE  Clear(id)
<1>1. runtime[id] \in Held(id)
  <2>1. runtime[id] \in Pids
    BY DEF TypeOK
  <2>2. proc[runtime[id]].id = id /\ proc[runtime[id]].status \in {"alive", "crashed"}
    BY DEF ProcOK, ProcInv
  <2>3. QED
    BY <2>1, <2>2 DEF Held
<1>2. \A p \in Held(id) : p = runtime[id]
  BY <1>1 DEF ProcOK, AtMostOneProcess, Held
<1>3. QED
  BY <1>2 DEF Clear

\* A job that goes on at once with the callback `cb`.
LEMMA DirectJob ==
  ASSUME TypeOK, PendingJob, NEW id \in Ids, NEW cb \in Callbacks,
         NEW rest \in Seq(Frames), NoCallback(rest),
         pending_stop[id] \in {None, <<>>}, job' = [job EXCEPT ![id] = "local"],
         stack' = Push(Frame(cb, id), rest), UNCHANGED <<pending_stop, proc>>,
         cb \in {"swap", "remove"} => Clear(id)
  PROVE  JobInv'
<1>1. job'[id] = "local" /\ \A i \in Ids : i # id => job'[i] = job[i]
  BY DEF TypeOK
<1>2. PendingJob'
  BY <1>1 DEF PendingJob
<1>3. Continues(cb, id)'
  BY <1>1 DEF Continues, Clear, Held
<1>4. QED
  BY <1>2, <1>3, JobInvTop

\* A job that goes on with the callback `cb` once the process of the id has stopped.
LEMMA StopJob ==
  ASSUME TypeOK, ProcOK, PendingJob, NEW id \in Ids, NEW cb \in Callbacks,
         NEW rest \in Seq(Frames), NoCallback(rest),
         pending_stop[id] \in {None, <<>>}, job' = [job EXCEPT ![id] = "local"],
         StopProcess(id, <<cb>>, rest)
  PROVE  JobInv'
<1>1. job'[id] = "local" /\ \A i \in Ids : i # id => job'[i] = job[i]
  BY DEF TypeOK
<1>2. <<cb>> \in Seq(Callbacks) /\ Len(<<cb>>) = 1 /\ <<>> \o <<cb>> = <<cb>>
  OBVIOUS
<1>3. CASE pending_stop' = [pending_stop EXCEPT ![id] = <<cb>>] /\ stack' = rest
  <2>1. pending_stop'[id] = <<cb>> /\ \A i \in Ids : i # id => pending_stop'[i] = pending_stop[i]
    BY <1>3 DEF TypeOK
  <2>2. PendingJob'
    BY <1>1, <1>2, <2>1 DEF PendingJob
  <2>3. QED
    BY <1>3, <2>2, JobInvNone
<1>4. CASE /\ runtime[id] = None /\ pending_stop[id] = None
           /\ stack' = Calls(id, <<cb>>) \o rest /\ UNCHANGED <<pending_stop, proc>>
  <2>1. Clear(id)
    BY <1>4, IdleHeld DEF Clear
  <2>2. CASE stack' = rest
    <3>1. PendingJob'
      BY <1>1, <1>4 DEF PendingJob
    <3>2. QED
      BY <2>2, <3>1, JobInvNone
  <2>3. CASE stack' = Push(Frame(cb, id), rest)
    BY <1>4, <2>1, <2>3, DirectJob
  <2>4. QED
    BY <2>2, <2>3, StopStack
<1>5. CASE /\ pending_stop[id] # None /\ stack' = rest
           /\ pending_stop' = [pending_stop EXCEPT ![id] = pending_stop[id] \o <<cb>>]
  <2>1. pending_stop[id] = <<>>
    BY <1>5
  <2>2. pending_stop' = [pending_stop EXCEPT ![id] = <<cb>>]
    BY <1>2, <1>5, <2>1
  <2>3. QED
    BY <1>3, <1>5, <2>2
<1>6. QED
  BY <1>3, <1>4, <1>5, Zenon DEF StopProcess

\* The end of an exit handler: it fires the callback of the job that waits for the exit.
LEMMA DrainStopJob ==
  ASSUME TypeOK, PendingJob, NEW id \in Ids, NEW errored \in BOOLEAN,
         NEW rest \in Seq(Frames), NoCallback(rest), job' = job,
         DrainStop(id, errored, rest),
         pending_stop[id] \notin {None, <<>>} => Held(id)' = {}
  PROVE  JobInv'
<1> DEFINE cbs   == IF pending_stop[id] = None THEN <<>> ELSE pending_stop[id]
           recon == IF errored THEN <<>> ELSE <<Frame("reconcile", id)>>
<1>1. /\ stack' = (Calls(id, cbs) \o recon) \o rest
      /\ pending_stop'[id] = None /\ \A i \in Ids : i # id => pending_stop'[i] = pending_stop[i]
  BY DEF DrainStop, TypeOK
<1>2. PendingJob'
  BY <1>1 DEF PendingJob
<1>3. cbs \in Seq(Callbacks) /\ Len(<<>>) = 0
  BY DEF TypeOK
<1>4. recon \in Seq(Frames) /\ NoCallback(recon)
  <2>1. Frame("reconcile", id) \in Frames /\ Frame("reconcile", id).op \notin Callbacks
    BY DEF Frame, Frames, Ops, Callbacks
  <2>2. QED
    BY <2>1 DEF NoCallback
<1>5. recon \o rest \in Seq(Frames) /\ NoCallback(recon \o rest)
  <2> HIDE DEF recon
  <2> QED BY <1>4, CallbackConcat
<1>6. CASE cbs = <<>>
  <2>1. Calls(id, cbs) \in Seq(Frames) /\ Len(Calls(id, cbs)) = 0
    <3> HIDE DEF cbs
    <3> QED BY <1>3, <1>6, CallsType
  <2>2. Calls(id, cbs) = <<>>
    BY <2>1
  <2>3. stack' = recon \o rest
    BY <1>1, <1>4, <2>2
  <2>4. QED
    BY <1>2, <1>5, <2>3, JobInvNone
<1>7. CASE cbs # <<>>
  <2>1. /\ pending_stop[id] \notin {None, <<>>} /\ cbs = pending_stop[id]
        /\ Len(cbs) = 1 /\ job[id] = "local" /\ Held(id)' = {}
    BY <1>7 DEF PendingJob
  <2>2. PICK cb \in Callbacks : cb = cbs[1]
    BY <1>3, <2>1
  <2>3. /\ Calls(id, cbs) \in Seq(Frames) /\ Len(Calls(id, cbs)) = 1
        /\ Calls(id, cbs)[1] = Frame(cb, id)
    <3> HIDE DEF cbs
    <3> QED BY <1>3, <2>1, <2>2, CallsType
  <2>4. Calls(id, cbs) = <<Frame(cb, id)>>
    BY <2>3
  <2>5. Frame(cb, id) \in Frames
    BY DEF Frame, Frames, Ops
  <2>6. stack' = Push(Frame(cb, id), recon \o rest)
    <3> HIDE DEF cbs, recon
    <3> QED BY <1>1, <1>4, <2>4, <2>5 DEF Push
  <2>7. Continues(cb, id)'
    BY <1>1, <2>1 DEF Continues, Clear
  <2>8. QED
    <3> HIDE DEF cbs, recon
    <3> QED BY <1>2, <1>5, <2>2, <2>6, <2>7, JobInvTop
<1>8. QED
  BY <1>6, <1>7

\* An exit handler, and a start that may fail, leave no callback but the one of a stop.
LEMMA ExitHandlerJob ==
  ASSUME TypeOK, PendingJob, NEW id \in Ids, NEW rec, NEW errored \in BOOLEAN, NEW conf,
         NEW rest \in Seq(Frames), NoCallback(rest), job' = job,
         ExitHandler(id, rec, errored, conf, rest),
         pending_stop[id] \notin {None, <<>>} => Held(id)' = {}
  PROVE  JobInv'
<1>1. CASE DrainStop(id, errored, rest)
  BY <1>1, DrainStopJob
<1>2. CASE EnterDrain(id, Push(Frame("exit_rest", id), rest)) /\ UNCHANGED pending_stop
  <2> DEFINE below == Push(Frame("exit_rest", id), rest)
  <2>1. \A f \in {"drain", "exit_rest"} : Frame(f, id) \in Frames /\ Frame(f, id).op \notin Callbacks
    BY DEF Frame, Frames, Ops, Callbacks
  <2>2. below \in Seq(Frames) /\ NoCallback(below)
    BY <2>1, CallbackPush
  <2> HIDE DEF below
  <2>3. stack' = below \/ stack' = Push(Frame("drain", id), below)
    BY <1>2 DEF EnterDrain, below
  <2>4. NoCallback(stack')
    BY <2>1, <2>2, <2>3, CallbackPush
  <2>5. QED
    BY <1>2, <2>4, QuietJob
<1>3. QED
  BY <1>1, <1>2, Zenon DEF ExitHandler

LEMMA StartExtensionJob ==
  ASSUME TypeOK, PendingJob, NEW id \in Ids, NEW conf, NEW rest \in Seq(Frames), NoCallback(rest),
         job' = job, pending_stop[id] = None, StartExtension(id, conf, rest)
  PROVE  JobInv'
<1> DEFINE rec     == IF preview = id THEN "preview" ELSE "installed"
           cleared == IF preview = id THEN conf ELSE [conf EXCEPT !.error = FALSE]
<1>1. CASE stack' = rest /\ UNCHANGED pending_stop
  BY <1>1, QuietJob
<1>2. CASE ExitHandler(id, rec, TRUE, cleared, rest)
  <2> HIDE DEF rec, cleared
  <2> QED BY <1>2, ExitHandlerJob
<1>3. (stack' = rest /\ UNCHANGED pending_stop) \/ ExitHandler(id, rec, TRUE, cleared, rest)
  BY Zenon DEF StartExtension
<1>4. QED
  BY <1>1, <1>2, <1>3

-----------------------------------------------------------------------------
(* The frames *)

LEMMA FrameJob ==
  ASSUME TypeOK, JobInv, NEW id \in Ids, DrainDone(id) \/ Release(id)
  PROVE  JobInv'
<1>1. /\ PendingJob
      /\ \A f \in {"drain", "reconcile"} : Frame(f, id) \in Frames /\ Frame(f, id).op \notin Callbacks
  BY JobInvParts DEF Frame, Frames, Ops, Callbacks
<1>2. CASE DrainDone(id)
  <2>1. /\ Runs("drain", id) /\ "drain" \in Ops /\ UNCHANGED <<pending_stop, job>>
        /\ stack' = Tail(stack) \/ stack' = Push(Frame("reconcile", id), Tail(stack))
    BY <1>2 DEF DrainDone, Ops
  <2>2. Tail(stack) \in Seq(Frames) /\ NoCallback(Tail(stack))
    BY <2>1, FrameStack, JobInvParts
  <2>3. NoCallback(stack')
    BY <1>1, <2>1, <2>2, CallbackPush
  <2>4. QED
    BY <1>1, <2>1, <2>3, QuietJob
<1>3. CASE Release(id)
  <2>1. /\ Runs("release", id) /\ "release" \in Ops /\ "release" \in Callbacks
        /\ job' = [job EXCEPT ![id] = "none"] /\ UNCHANGED pending_stop
        /\ stack' = Tail(stack) \/ stack' = Push(Frame("drain", id), Tail(stack))
    BY <1>3 DEF Release, EnterDrain, Ops, Callbacks
  <2>2. /\ Tail(stack) \in Seq(Frames) /\ NoCallback(Tail(stack))
        /\ pending_stop[id] \in {None, <<>>}
    BY <2>1, FrameStack, JobInvParts DEF Continues
  <2>3. NoCallback(stack')
    BY <1>1, <2>1, <2>2, CallbackPush
  <2>4. \A i \in Ids : i # id => job'[i] = job[i]
    BY <2>1 DEF TypeOK
  <2>5. PendingJob'
    BY <1>1, <2>1, <2>2, <2>4 DEF PendingJob
  <2>6. QED
    BY <2>3, <2>5, JobInvNone
<1>4. QED
  BY <1>2, <1>3

LEMMA CallbackJob ==
  ASSUME TypeOK, JobInv, NEW id \in Ids, Swap(id) \/ SwapSystem(id) \/ Remove(id)
  PROVE  JobInv'
<1>1. /\ \E cb \in Callbacks : Runs(cb, id)
      /\ UNCHANGED <<pending_stop, job>>
      /\ stack' = Push(Frame("release", id), Tail(stack))
  BY DEF Swap, SwapSystem, Remove, Callbacks
<1>2. PICK cb \in Callbacks : Runs(cb, id)
  BY <1>1
<1>3. cb \in Ops /\ "release" \in Callbacks
  BY DEF Ops, Callbacks
<1>4. PendingJob /\ NoCallback(Tail(stack)) /\ Tail(stack) \in Seq(Frames) /\ Continues(cb, id)
  BY <1>2, <1>3, JobInvParts, FrameStack
<1>5. PendingJob' /\ Continues("release", id)'
  BY <1>1, <1>4 DEF PendingJob, Continues
<1>6. QED
  BY <1>1, <1>3, <1>4, <1>5, JobInvTop

LEMMA ReconcileJob ==
  ASSUME TypeOK, ProcOK, JobInv, NEW id \in Ids, Reconcile(id)
  PROVE  JobInv'
<1> DEFINE conf == IF Resolves(id) THEN Reloaded(id) ELSE cache[id]
           rest == Tail(stack)
<1>1. Runs("reconcile", id) /\ "reconcile" \in Ops /\ UNCHANGED job
  BY DEF Reconcile, Ops
<1>2. rest \in Seq(Frames) /\ NoCallback(rest) /\ PendingJob
  BY <1>1, FrameStack, JobInvParts
<1>3. CASE pending_stop[id] = None /\ StartExtension(id, conf, rest)
  <2> HIDE DEF conf, rest
  <2> QED BY <1>1, <1>2, <1>3, StartExtensionJob
<1>4. CASE runtime[id] # None /\ StopProcess(id, <<>>, rest)
  <2>1. stack' = rest /\ pending_stop' = [pending_stop EXCEPT ![id] = <<>>]
    BY <1>4, Zenon DEF StopProcess
  <2>2. \A i \in Ids : pending_stop'[i] \in {pending_stop[i], None, <<>>}
    BY <2>1 DEF TypeOK
  <2>3. QED
    BY <1>1, <1>2, <2>1, <2>2, QuietJob
<1>5. CASE stack' = rest /\ UNCHANGED pending_stop
  BY <1>1, <1>2, <1>5, QuietJob
<1>6. \/ pending_stop[id] = None /\ StartExtension(id, conf, rest)
      \/ runtime[id] # None /\ StopProcess(id, <<>>, rest)
      \/ stack' = rest /\ UNCHANGED pending_stop
  BY Zenon DEF Reconcile
<1>7. QED
  BY <1>3, <1>4, <1>5, <1>6

\* The queue goes on only with no job active, so no callback of a job waits then.
LEMMA StartJobJob ==
  ASSUME TypeOK, ProcOK, JobInv, NEW id \in Ids, StartJob(id)
  PROVE  JobInv'
<1>1. Runs("drain", id) /\ "drain" \in Ops /\ "drain" \notin Callbacks /\ job[id] = "none"
  BY DEF StartJob, Ops, Callbacks
<1>2. /\ stack \in Seq(Frames) /\ NoCallback(stack) /\ PendingJob
      /\ pending_stop[id] \in {None, <<>>}
  BY <1>1, FrameStack, JobInvParts DEF PendingJob
<1>3. CASE \E cb \in Callbacks :
             /\ job' = [job EXCEPT ![id] = "local"]
             /\ \/ StopProcess(id, <<cb>>, stack)
                \/ /\ stack' = Push(Frame(cb, id), stack) /\ UNCHANGED <<runtime, pending_stop, proc>>
                   /\ cb = "release" \/ (runtime[id] # None /\ proc[runtime[id]].rec # "installed")
  <2>1. PICK cb \in Callbacks :
             /\ job' = [job EXCEPT ![id] = "local"]
             /\ \/ StopProcess(id, <<cb>>, stack)
                \/ /\ stack' = Push(Frame(cb, id), stack) /\ UNCHANGED <<runtime, pending_stop, proc>>
                   /\ cb = "release" \/ (runtime[id] # None /\ proc[runtime[id]].rec # "installed")
    BY <1>3
  <2>2. CASE StopProcess(id, <<cb>>, stack)
    BY <1>2, <2>1, <2>2, StopJob
  <2>3. CASE /\ stack' = Push(Frame(cb, id), stack) /\ UNCHANGED <<runtime, pending_stop, proc>>
             /\ cb = "release" \/ (runtime[id] # None /\ proc[runtime[id]].rec # "installed")
    <3>1. cb # "release" => Clear(id)
      BY <2>3, OverlayClear
    <3>2. QED
      BY <1>2, <2>1, <2>3, <3>1, DirectJob
  <2>4. QED
    BY <2>1, <2>2, <2>3
<1>4. CASE /\ \E stage \in Stages : job' = [job EXCEPT ![id] = stage]
           /\ UNCHANGED <<stack, pending_stop>>
  <2>1. \A i \in Ids : i # id => job'[i] = job[i]
    BY <1>4 DEF TypeOK
  <2>2. PendingJob'
    BY <1>2, <1>4, <2>1 DEF PendingJob
  <2>3. QED
    BY <1>2, <1>4, <2>2, JobInvNone
<1>5. QED
  BY <1>3, <1>4 DEF StartJob, Callbacks, Stages

LEMMA ExitRestJob ==
  ASSUME TypeOK, ProcOK, ExitInv, JobInv, NEW id \in Ids, ExitRest(id)
  PROVE  JobInv'
<1>1. /\ Runs("exit_rest", id) /\ "exit_rest" \in Ops
      /\ DrainStop(id, TRUE, Tail(stack)) /\ UNCHANGED <<runtime, proc, job>>
  BY DEF ExitRest, Ops
<1>2. PendingJob /\ NoCallback(Tail(stack)) /\ Tail(stack) \in Seq(Frames)
  BY <1>1, FrameStack, JobInvParts
<1>3. pending_stop[id] # None => Held(id) = {}
  <2>1. stack[1] = Frame("exit_rest", id) /\ 1 \in 1..Len(stack)
    BY <1>1, FrameStack, TailFacts DEF Runs
  <2>2. stack[1].op = "exit_rest" /\ stack[1].id = id
    BY <2>1 DEF Frame
  <2>3. QED
    BY <2>1, <2>2 DEF ExitInv
<1>4. Held(id)' = Held(id)
  BY <1>1 DEF Held
<1>5. QED
  BY <1>1, <1>2, <1>3, <1>4, DrainStopJob

-----------------------------------------------------------------------------
(* The handlers *)

LEMMA HandleExitJob ==
  ASSUME TypeOK, ProcOK, PendingJob, NEW p \in Pids, HandleExit(p)
  PROVE  JobInv'
<1> DEFINE id      == proc[p].id
           errored == proc[p].status = "crashed"
<1>1. /\ proc[p].status \in {"crashed", "stopped"}
      /\ ExitHandler(id, proc[p].rec, errored, Cached(id), <<>>)
      /\ proc' = [proc EXCEPT ![p] = Free] /\ UNCHANGED job
  BY DEF HandleExit
<1>2. id \in Ids /\ errored \in BOOLEAN
  BY <1>1 DEF TypeOK, Procs
<1>3. proc'[p].status = "free" /\ \A q \in Pids : q # p => proc'[q] = proc[q]
  BY <1>1 DEF TypeOK, Free
<1>4. \A q \in Pids : q # p /\ proc[q].status # "free" => proc[q].id # id
  BY <1>1 DEF ProcOK, AtMostOneProcess
<1>5. \A q \in Pids : proc'[q].status # "free" => proc'[q].id # id
  BY <1>3, <1>4
<1>6. <<>> \in Seq(Frames) /\ NoCallback(<<>>)
  BY DEF NoCallback
<1>7. PICK i \in Ids : i = id
  BY <1>2
<1>8. Held(i)' = {}
  BY <1>5, <1>7 DEF Held
<1>9. QED
  <2> HIDE DEF id, errored
  <2> QED BY <1>1, <1>2, <1>6, <1>7, <1>8, ExitHandlerJob

\* The remote part of a job ends with the job still active, so nothing waits for an exit yet.
LEMMA RemoteDoneJob ==
  ASSUME TypeOK, ProcOK, PendingJob, NEW id \in Ids, RemoteDone(id)
  PROVE  JobInv'
<1>1. /\ job[id] \in {"remote", "remote_system"} /\ job' = [job EXCEPT ![id] = "local"]
      /\ \E cb \in Callbacks :
           \/ /\ stack' = <<Frame(cb, id)>> /\ UNCHANGED <<runtime, pending_stop, proc>>
              /\ cb = "release" \/ (runtime[id] # None /\ proc[runtime[id]].rec # "installed")
           \/ StopProcess(id, <<cb>>, <<>>)
  BY DEF RemoteDone, Callbacks
<1>2. pending_stop[id] \in {None, <<>>}
  BY <1>1 DEF PendingJob
<1>3. <<>> \in Seq(Frames) /\ NoCallback(<<>>)
  BY DEF NoCallback
<1>4. PICK cb \in Callbacks :
        \/ /\ stack' = <<Frame(cb, id)>> /\ UNCHANGED <<runtime, pending_stop, proc>>
           /\ cb = "release" \/ (runtime[id] # None /\ proc[runtime[id]].rec # "installed")
        \/ StopProcess(id, <<cb>>, <<>>)
  BY <1>1
<1>5. CASE StopProcess(id, <<cb>>, <<>>)
  BY <1>1, <1>2, <1>3, <1>5, StopJob
<1>6. CASE /\ stack' = <<Frame(cb, id)>> /\ UNCHANGED <<runtime, pending_stop, proc>>
           /\ cb = "release" \/ (runtime[id] # None /\ proc[runtime[id]].rec # "installed")
  <2>1. cb # "release" => Clear(id)
    BY <1>6, OverlayClear
  <2>2. stack' = Push(Frame(cb, id), <<>>)
    BY <1>6 DEF Push
  <2>3. QED
    BY <1>1, <1>2, <1>3, <1>6, <2>1, <2>2, DirectJob
<1>7. QED
  BY <1>4, <1>5, <1>6

LEMMA StartNextJob ==
  ASSUME TypeOK, ProcOK, PendingJob, NEW id \in Ids, StartNext(id)
  PROVE  JobInv'
<1>1. <<>> \in Seq(Frames) /\ NoCallback(<<>>) /\ stack = <<>> /\ UNCHANGED job
  BY DEF StartNext, NoCallback
<1>2. CASE pending_stop[id] = None /\ StartExtension(id, Cached(id), <<>>)
  BY <1>1, <1>2, StartExtensionJob
<1>3. CASE UNCHANGED <<pending_stop, stack>>
  BY <1>1, <1>3, QuietJob
<1>4. \/ pending_stop[id] = None /\ StartExtension(id, Cached(id), <<>>)
      \/ UNCHANGED <<pending_stop, stack>>
  BY Zenon DEF StartNext
<1>5. QED
  BY <1>2, <1>3, <1>4

\* The handlers that only queue work or leave the call stack empty.
LEMMA RequestJob ==
  ASSUME TypeOK, PendingJob,
         \/ \E id \in Ids : \/ \E enabled \in BOOLEAN : Toggle(id, enabled)
                            \/ \E kind \in Kinds \ {"restart"} : Request(id, kind)
                            \/ PreviewExt(id)
                            \/ Reload(id)
         \/ StartExtensions
         \/ StopPreview
  PROVE  JobInv'
<1>1. \A f, id : f \notin Callbacks => NoCallback(<<Frame(f, id)>>)
  BY DEF NoCallback, Frame
<1>2. NoCallback(<<>>)
  BY DEF NoCallback
<1>3. \A id : EnterDrain(id, <<>>) => NoCallback(stack')
  <2> SUFFICES ASSUME NEW id, EnterDrain(id, <<>>) PROVE NoCallback(stack')
    OBVIOUS
  <2>1. stack' = <<>> \/ stack' = <<Frame("drain", id)>>
    BY DEF EnterDrain, Push
  <2>2. "drain" \notin Callbacks
    BY DEF Callbacks
  <2>3. QED
    BY <1>1, <1>2, <2>1, <2>2
<1>4. ASSUME NEW id \in Ids, NEW enabled \in BOOLEAN, Toggle(id, enabled) PROVE JobInv'
  <2>1. stack' = <<Frame("reconcile", id)>> /\ UNCHANGED <<pending_stop, job>>
    BY <1>4 DEF Toggle
  <2>2. "reconcile" \notin Callbacks
    BY DEF Callbacks
  <2>3. NoCallback(stack')
    BY <1>1, <2>1, <2>2
  <2>4. QED
    BY <2>1, <2>3, QuietJob
<1>5. ASSUME NEW id \in Ids, NEW kind \in Kinds, Request(id, kind) PROVE JobInv'
  <2>1. EnterDrain(id, <<>>) /\ UNCHANGED <<pending_stop, job>>
    BY <1>5 DEF Request
  <2>2. QED
    BY <1>3, <2>1, QuietJob
<1>6. ASSUME NEW id \in Ids, PreviewExt(id) PROVE JobInv'
  <2> DEFINE restarts == IF preview \in {None, id} THEN <<id>> ELSE <<preview, id>>
  <2>1. /\ stack' = [k \in DOMAIN restarts |-> Frame("drain", restarts[k])]
        /\ UNCHANGED <<pending_stop, job>>
    BY <1>6 DEF PreviewExt
  <2>2. restarts \in Seq(Ids)
    BY DEF TypeOK
  <2> HIDE DEF restarts
  <2>3. DOMAIN restarts = 1..Len(restarts) /\ Len(restarts) \in Nat
    BY <2>2
  <2>4. \A i : Frame("drain", i).op \notin Callbacks
    BY DEF Frame, Callbacks
  <2>5. Len(stack') = Len(restarts)
        /\ \A k \in 1..Len(restarts) : stack'[k] = Frame("drain", restarts[k])
    BY <2>1, <2>3
  <2>6. NoCallback(stack')
    BY <2>4, <2>5 DEF NoCallback
  <2>7. QED
    BY <2>1, <2>6, QuietJob
<1>7. ASSUME NEW id \in Ids, Reload(id) PROVE JobInv'
  <2>1. /\ EnterDrain(id, <<>>) \/ stack' = <<>>
        /\ UNCHANGED <<pending_stop, job>>
    BY <1>7 DEF Reload, MainLoop
  <2>2. NoCallback(stack')
    BY <1>2, <1>3, <2>1
  <2>3. QED
    BY <2>1, <2>2, QuietJob
<1>8. CASE StartExtensions
  BY <1>2, <1>8, QuietJob DEF StartExtensions, MainLoop
<1>9. CASE StopPreview
  <2>1. EnterDrain(preview, <<>>) /\ UNCHANGED <<pending_stop, job>>
    BY <1>9 DEF StopPreview
  <2>2. QED
    BY <1>3, <2>1, QuietJob
<1>10. QED
  BY <1>4, <1>5, <1>6, <1>7, <1>8, <1>9

\* A step outside the service leaves every process the copy it runs from.
LEMMA AsideJob ==
  ASSUME TypeOK, JobInv, SameProcs, \A q \in Pids : proc'[q].rec = proc[q].rec, UNCHANGED service
  PROVE  JobInv'
<1> USE DEF service
<1>1. \A k \in 1..Len(stack) : stack[k].id \in Ids
  <2>1. \A k \in 1..Len(stack) : stack[k] \in Frames
    BY DEF TypeOK
  <2>2. QED
    BY <2>1 DEF Frames
<1>2. \A i \in Ids : Held(i)' = Held(i) /\ Held(i) \subseteq Pids
  BY DEF SameProcs, Held
<1>3. \A i \in Ids : Clear(i) => Clear(i)'
  BY <1>2 DEF Clear
<1>4. PendingJob'
  BY DEF JobInv, PendingJob
<1>5. QED
  BY <1>1, <1>3, <1>4 DEF JobInv, PendingJob, Clear

LEMMA OthersJob ==
  ASSUME TypeOK, JobInv,
         \/ \E id \in Ids : Cli(id)
         \/ \E p \in Pids : ProcDies(p)
         \/ Relaunch
         \/ UNCHANGED vars
  PROVE  JobInv'
<1>1. CASE UNCHANGED <<service, proc>>
  BY <1>1, AsideJob DEF SameProcs
<1>2. CASE Relaunch
  <2>1. stack' = <<>> /\ pending_stop' = [i \in Ids |-> None]
    BY <1>2 DEF Relaunch, MainLoop
  <2>2. NoCallback(stack') /\ PendingJob'
    BY <2>1 DEF NoCallback, PendingJob
  <2>3. QED
    BY <2>2, JobInvNone
<1>3. ASSUME NEW p \in Pids, ProcDies(p)
      PROVE  JobInv'
  <2> DEFINE status == IF proc[p].status = "alive" THEN "crashed" ELSE "stopped"
  <2>1. /\ proc[p].status \in {"alive", "stopping"}
        /\ proc' = Marked(p, status) /\ UNCHANGED service
    BY <1>3 DEF ProcDies
  <2>2. /\ proc \in [Pids -> Procs] /\ proc[p].status # "free"
        /\ status \in {"alive", "stopping", "crashed", "stopped"}
    BY <2>1 DEF TypeOK
  <2>3. \A q \in Pids : /\ Marked(p, status)[q].status = IF q = p THEN status ELSE proc[q].status
                        /\ Marked(p, status)[q].id = proc[q].id
                        /\ Marked(p, status)[q].rec = proc[q].rec
    <3> HIDE DEF status
    <3> QED BY <2>2, MarkedFacts
  <2>4. SameProcs
    BY <2>1, <2>3 DEF SameProcs
  <2>5. QED
    BY <2>1, <2>3, <2>4, AsideJob
<1>4. CASE \E id \in Ids : Cli(id)
  BY <1>1, <1>4 DEF Cli, CliDownload, CliSwap, CliRemove, CliDisable
<1>5. QED
  BY <1>1, <1>2, <1>3, <1>4 DEF vars

-----------------------------------------------------------------------------
(* The theorems *)

LEMMA InvInit == Init => IInv
<1>1. Init => BaseInv
  BY BaseInit
<1>2. Init => JobInv
  BY DEF Init, JobInv
<1>3. QED
  BY <1>1, <1>2 DEF BaseInv, ProcOK, IInv

LEMMA InvStep == IInv /\ [Next]_vars => IInv'
<1> SUFFICES ASSUME IInv, [Next]_vars PROVE IInv'
  OBVIOUS
<1>1. BaseInv /\ TypeOK /\ ProcOK /\ ExitInv /\ JobInv
  BY DEF IInv, BaseInv, ProcOK
<1>2. BaseInv'
  BY <1>1, BaseStep
<1>3. PendingJob
  BY <1>1 DEF JobInv, PendingJob
<1>4. ASSUME NEW id \in Ids, RunFrame(id)
      PROVE  JobInv'
  BY <1>1, <1>4, StartJobJob, FrameJob, ReconcileJob, CallbackJob, ExitRestJob DEF RunFrame
<1>5. ASSUME NEW id \in Ids, StartNext(id) \/ RemoteDone(id)
      PROVE  JobInv'
  BY <1>1, <1>3, <1>5, StartNextJob, RemoteDoneJob
<1>6. ASSUME \/ \E id \in Ids : \/ \E enabled \in BOOLEAN : Toggle(id, enabled)
                                \/ \E kind \in Kinds \ {"restart"} : Request(id, kind)
                                \/ PreviewExt(id)
                                \/ Reload(id)
             \/ StartExtensions
             \/ StopPreview
      PROVE  JobInv'
  BY <1>1, <1>3, <1>6, RequestJob
<1>7. ASSUME NEW p \in Pids, HandleExit(p)
      PROVE  JobInv'
  BY <1>1, <1>3, <1>7, HandleExitJob
<1>8. ASSUME \/ \E id \in Ids : Cli(id)
             \/ \E p \in Pids : ProcDies(p)
             \/ Relaunch
             \/ UNCHANGED vars
      PROVE  JobInv'
  BY <1>1, <1>8, OthersJob
<1>9. JobInv'
  <2>1. CASE Next
    BY <1>4, <1>5, <1>6, <1>7, <1>8, <2>1, Zenon DEF Next
  <2>2. QED
    BY <1>8, <2>1
<1>10. QED
  BY <1>2, <1>9 DEF IInv, BaseInv, ProcOK

\* The inductive invariant holds throughout: a process is listed or awaited, an exit handler cut in
\* two forgets no live process, and a job's continuation waits for the stop it asked for.
THEOREM Inductive == Spec => []IInv
BY InvInit, InvStep, PTL DEF Spec

\* A callback that replaces or removes files runs with no process of the installed copy.
LEMMA SwapStep == IInv /\ [Next]_vars =>
  [\A id \in Ids : userDir'[id] # userDir[id] /\ cli' = cli => Clear(id)]_vars
<1> SUFFICES ASSUME IInv, Next, NEW id \in Ids, userDir'[id] # userDir[id], cli' = cli
             PROVE  Clear(id)
  OBVIOUS
<1>1. TypeOK /\ JobInv
  BY DEF IInv
<1>2. \E i \in Ids : Swap(i) \/ Remove(i)
  <2>1. userDir' # userDir
    OBVIOUS
  <2>2. ASSUME NEW i \in Ids, Cli(i) PROVE FALSE
    <3>1. cli[i].pc \in {"idle", "download", "removed"} /\ cli'[i].pc # cli[i].pc
      BY <1>1, <2>1, <2>2 DEF Cli, CliDownload, CliSwap, CliRemove, CliDisable, CliIdle, TypeOK
    <3>2. QED
      BY <3>1
  <2>3. ASSUME NEW i \in Ids, RunFrame(i) PROVE Swap(i) \/ Remove(i)
    BY <2>1, <2>3 DEF RunFrame, StartJob, DrainDone, Release, Reconcile, SwapSystem, ExitRest, disk
  <2>4. ~StartExtensions /\ ~StopPreview /\ ~Relaunch /\ \A p \in Pids : ~HandleExit(p) /\ ~ProcDies(p)
    BY <2>1 DEF StartExtensions, StopPreview, Relaunch, HandleExit, ProcDies, disk
  <2>5. ASSUME NEW i \in Ids
        PROVE  /\ ~StartNext(i) /\ ~PreviewExt(i) /\ ~RemoteDone(i) /\ ~Reload(i)
               /\ \A enabled \in BOOLEAN : ~Toggle(i, enabled)
               /\ \A kind \in Kinds : ~Request(i, kind)
    BY <2>1 DEF StartNext, PreviewExt, RemoteDone, Reload, Toggle, Request, disk
  <2>6. QED
    BY <2>2, <2>3, <2>4, <2>5, Zenon DEF Next
<1>3. PICK i \in Ids : Swap(i) \/ Remove(i)
  BY <1>2
<1>4. \E cb \in {"swap", "remove"} : Runs(cb, i)
  BY <1>3 DEF Swap, Remove
<1>5. Clear(i)
  <2>1. PICK cb \in {"swap", "remove"} : Runs(cb, i)
    BY <1>4
  <2>2. cb \in Ops /\ cb \in Callbacks
    BY DEF Ops, Callbacks
  <2>3. QED
    BY <1>1, <2>1, <2>2, JobInvParts DEF Continues
<1>6. \A j \in Ids : j # i => userDir'[j] = userDir[j]
  BY <1>1, <1>3 DEF Swap, Remove, TypeOK
<1>7. QED
  BY <1>5, <1>6

\* The app never replaces or removes the directory of an extension whose process runs from it: an
\* update, an install over a copy, and an uninstall all wait for the stop they asked for.
THEOREM NoSwap == Spec => NoSwapUnderProcess
<1>1. IInv /\ [Next]_vars =>
        [\A id \in Ids : userDir'[id] # userDir[id] /\ cli' = cli =>
           \A p \in Held(id) : proc[p].rec # "installed"]_vars
  BY SwapStep DEF Clear
<1>2. QED
  BY <1>1, Inductive, PTL DEF Spec, NoSwapUnderProcess

-----------------------------------------------------------------------------
(* The service implements ProcessSlots *)

Kind(p) == IF proc[p].rec = "installed" THEN "installed" ELSE "dev"
SlotOf(id) == {[pid |-> p, kind |-> Kind(p)] : p \in Held(id)}

SlotStep == Slots!Next \/ UNCHANGED Slots!vars

\* A step that leaves the slots and what surrounds them alone.
LEMMA SlotsStutter ==
  ASSUME \A i \in Ids : SlotOf(i)' = SlotOf(i), UNCHANGED <<userDir, cli>>
  PROVE  SlotStep
<1>1. UNCHANGED [i \in Ids |-> SlotOf(i)]
  BY DEF SlotOf
<1>2. QED
  BY <1>1 DEF SlotStep, Slots!vars, SlotOf, Kind

LEMMA SlotsReplace ==
  ASSUME NEW id \in Ids, Clear(id), UNCHANGED <<proc, cli>>,
         NEW v \in Versions \cup {None}, userDir' = [userDir EXCEPT ![id] = v]
  PROVE  SlotStep
<1>1. \A s \in SlotOf(id) : s.kind # "installed"
  BY DEF SlotOf, Kind, Clear
<1>2. UNCHANGED [i \in Ids |-> SlotOf(i)]
  BY DEF SlotOf, Kind, Held
<1>3. Slots!Replace(id)
  BY <1>1, <1>2 DEF Slots!Replace, SlotOf, Kind
<1>4. QED
  BY <1>3 DEF SlotStep, Slots!Next

\* The processes keep their ids and their kind of copy.
SamePlaces ==
  \A q \in Pids :
    /\ proc'[q].status = "free" <=> proc[q].status = "free"
    /\ proc'[q].id = proc[q].id
    /\ proc'[q].rec = "installed" <=> proc[q].rec = "installed"

LEMMA SlotsKeep ==
  ASSUME SamePlaces
  PROVE  \A i \in Ids : SlotOf(i)' = SlotOf(i)
<1> SUFFICES ASSUME NEW i \in Ids PROVE SlotOf(i)' = SlotOf(i)
  OBVIOUS
<1>1. Held(i)' = Held(i) /\ Held(i) \subseteq Pids
  BY DEF SamePlaces, Held
<1>2. \A q \in Pids : Kind(q)' = Kind(q)
  BY DEF SamePlaces, Kind
<1>3. QED
  BY <1>1, <1>2 DEF SlotOf

LEMMA SlotsForeign ==
  ASSUME TypeOK', cli' # cli, UNCHANGED proc
  PROVE  SlotStep
<1>1. UNCHANGED [i \in Ids |-> SlotOf(i)]
  BY DEF SlotOf, Kind, Held
<1>2. Slots!Foreign
  BY <1>1 DEF Slots!Foreign, SlotOf, Kind, TypeOK
<1>3. QED
  BY <1>2 DEF SlotStep, Slots!Next

LEMMA SlotsStart ==
  ASSUME TypeOK, NEW id \in Ids, Held(id) = {}, NEW p \in Pids, proc[p].status = "free",
         NEW r \in Procs, r.status = "alive", r.id = id, proc' = [proc EXCEPT ![p] = r],
         UNCHANGED <<userDir, cli>>
  PROVE  SlotStep
<1>1. proc'[p] = r /\ \A q \in Pids : q # p => proc'[q] = proc[q]
  BY DEF TypeOK
<1>2. Held(id)' = {p}
  BY <1>1 DEF Held
<1>3. \A i \in Ids : i # id => Held(i)' = Held(i) /\ p \notin Held(i) /\ Held(i) \subseteq Pids
  BY <1>1 DEF Held
<1>4. \A q \in Pids : q # p => Kind(q)' = Kind(q)
  BY <1>1 DEF Kind
<1>5. PICK kind \in {"installed", "dev"} : kind = Kind(p)'
  BY DEF Kind
<1>6. SlotOf(id)' = {[pid |-> p, kind |-> kind]}
  BY <1>2, <1>5 DEF SlotOf
<1>7. \A i \in Ids : i # id => SlotOf(i)' = SlotOf(i)
  BY <1>3, <1>4 DEF SlotOf
<1>8. SlotOf(id) = {}
  BY DEF SlotOf
<1>9. [i \in Ids |-> SlotOf(i)]' = [[i \in Ids |-> SlotOf(i)] EXCEPT ![id] = {[pid |-> p, kind |-> kind]}]
  BY <1>6, <1>7
<1>10. Slots!Start(id, p, kind)
  BY <1>8, <1>9 DEF Slots!Start, SlotOf, Kind
<1>11. kind \in Slots!Kinds
  BY DEF Slots!Kinds
<1>12. QED
  BY <1>10, <1>11 DEF SlotStep, Slots!Next

LEMMA SlotsExit ==
  ASSUME NEW id \in Ids, Held(id) # {}, Held(id)' = {}, UNCHANGED <<userDir, cli>>,
         \A i \in Ids : i # id => SlotOf(i)' = SlotOf(i)
  PROVE  SlotStep
<1>1. SlotOf(id) # {} /\ SlotOf(id)' = {}
  <2>1. PICK p : p \in Held(id)
    OBVIOUS
  <2>2. [pid |-> p, kind |-> Kind(p)] \in SlotOf(id)
    BY <2>1 DEF SlotOf
  <2>3. SlotOf(id)' = {}
    BY DEF SlotOf
  <2>4. QED
    BY <2>2, <2>3
<1>2. [i \in Ids |-> SlotOf(i)]' = [[i \in Ids |-> SlotOf(i)] EXCEPT ![id] = {}]
  BY <1>1
<1>3. Slots!Exit(id)
  BY <1>1, <1>2 DEF Slots!Exit, SlotOf, Kind
<1>4. QED
  BY <1>3 DEF SlotStep, Slots!Next

LEMMA StopSlots ==
  ASSUME TypeOK, ProcOK, NEW id \in Ids, NEW cbs, NEW rest, StopProcess(id, cbs, rest)
  PROVE  \A i \in Ids : SlotOf(i)' = SlotOf(i)
<1> DEFINE p == runtime[id]
<1>1. UNCHANGED proc \/ (p # None /\ proc[p].status = "alive" /\ proc' = Marked(p, "stopping"))
  BY Zenon DEF StopProcess
<1>2. CASE UNCHANGED proc
  BY <1>2, SlotsKeep DEF SamePlaces
<1>3. CASE p # None /\ proc[p].status = "alive" /\ proc' = Marked(p, "stopping")
  <2>1. p \in Pids /\ proc[p].status # "free" /\ proc \in [Pids -> Procs]
    BY <1>3 DEF TypeOK
  <2>2. \A q \in Pids : /\ Marked(p, "stopping")[q].status = IF q = p THEN "stopping" ELSE proc[q].status
                        /\ Marked(p, "stopping")[q].id = proc[q].id
                        /\ Marked(p, "stopping")[q].rec = proc[q].rec
    <3> HIDE DEF p
    <3> QED BY <2>1, MarkedFacts
  <2>3. SamePlaces
    BY <1>3, <2>1, <2>2 DEF SamePlaces
  <2>4. QED
    BY <2>3, SlotsKeep
<1>4. QED
  BY <1>1, <1>2, <1>3

LEMMA StartSlots ==
  ASSUME TypeOK, ProcOK, NEW id \in Ids, NEW conf, NEW rest,
         runtime[id] = None, pending_stop[id] = None,
         StartExtension(id, conf, rest), UNCHANGED <<userDir, cli>>
  PROVE  SlotStep
<1> DEFINE rec  == IF preview = id THEN "preview" ELSE "installed"
           copy == IF preview = id THEN "dev" ELSE Installed(id)
           r    == [status |-> "alive", id |-> id, rec |-> rec, copy |-> copy]
<1>1. CASE \E p \in Pids : /\ proc[p].status = "free" /\ copy # None
                           /\ proc' = [proc EXCEPT ![p] = r]
  <2>1. PICK p \in Pids : /\ proc[p].status = "free" /\ copy # None
                          /\ proc' = [proc EXCEPT ![p] = r]
    BY <1>1
  <2>2. copy \in Copies
    BY <2>1, RecordTypes DEF Copies
  <2>3. r \in Procs /\ r.status = "alive" /\ r.id = id
    BY <2>2 DEF Procs
  <2>4. QED
    <3> HIDE DEF r
    <3> QED BY <2>1, <2>3, IdleHeld, SlotsStart
<1>2. CASE UNCHANGED proc
  <2>1. SamePlaces
    BY <1>2 DEF SamePlaces
  <2>2. QED
    BY <2>1, SlotsKeep, SlotsStutter
<1>3. \/ \E p \in Pids : /\ proc[p].status = "free" /\ copy # None
                         /\ proc' = [proc EXCEPT ![p] = r]
      \/ UNCHANGED proc
  BY Zenon DEF StartExtension
<1>4. QED
  BY <1>1, <1>2, <1>3

LEMMA HandleExitSlots ==
  ASSUME TypeOK, ProcOK, NEW p \in Pids, HandleExit(p)
  PROVE  SlotStep
<1>1. /\ proc[p].status \in {"crashed", "stopped"} /\ proc[p].id \in Ids
      /\ proc' = [proc EXCEPT ![p] = Free] /\ UNCHANGED <<userDir, cli>>
  BY DEF HandleExit, TypeOK, Procs
<1>2. proc'[p].status = "free" /\ \A q \in Pids : q # p => proc'[q] = proc[q]
  BY <1>1 DEF TypeOK, Free
<1>3. \A q \in Pids : q # p /\ proc[q].status # "free" => proc[q].id # proc[p].id
  BY <1>1 DEF ProcOK, AtMostOneProcess
<1>4. PICK id \in Ids : id = proc[p].id
  BY <1>1
<1>5. Held(id) # {}
  BY <1>1, <1>4 DEF Held
<1>6. Held(id)' = {}
  BY <1>2, <1>3, <1>4 DEF Held
<1>7. \A i \in Ids : i # id => Held(i)' = Held(i) /\ p \notin Held(i) /\ Held(i) \subseteq Pids
  BY <1>2, <1>4 DEF Held
<1>8. \A q \in Pids : q # p => Kind(q)' = Kind(q)
  BY <1>2 DEF Kind
<1>9. \A i \in Ids : i # id => SlotOf(i)' = SlotOf(i)
  BY <1>7, <1>8 DEF SlotOf
<1>10. QED
  BY <1>1, <1>5, <1>6, <1>9, SlotsExit

\* The frames: a start fills an empty slot, a swap or a removal finds no installed process.
LEMMA FrameSlots ==
  ASSUME TypeOK, ProcOK, JobInv, NEW id \in Ids, RunFrame(id)
  PROVE  SlotStep
<1>1. CASE UNCHANGED <<proc, userDir, cli>>
  <2>1. SamePlaces
    BY <1>1 DEF SamePlaces
  <2>2. QED
    BY <1>1, <2>1, SlotsKeep, SlotsStutter
<1>2. CASE UNCHANGED <<userDir, cli>> /\ \E cbs : StopProcess(id, cbs, stack) \/ StopProcess(id, cbs, Tail(stack))
  BY <1>2, StopSlots, SlotsStutter
<1>3. CASE StartJob(id)
  <2>1. /\ UNCHANGED <<userDir, cli>>
        /\ UNCHANGED proc \/ StopProcess(id, <<"release">>, stack) \/ StopProcess(id, <<"remove">>, stack)
    BY <1>3 DEF StartJob
  <2>2. QED
    BY <1>1, <1>2, <2>1
<1>4. CASE DrainDone(id) \/ Release(id) \/ SwapSystem(id) \/ ExitRest(id)
  BY <1>1, <1>4 DEF DrainDone, Release, SwapSystem, ExitRest, disk
<1>5. CASE Reconcile(id)
  <2> DEFINE conf == IF Resolves(id) THEN Reloaded(id) ELSE cache[id]
  <2>1. /\ UNCHANGED <<userDir, cli>>
        /\ \/ /\ runtime[id] = None /\ pending_stop[id] = None
              /\ StartExtension(id, conf, Tail(stack))
           \/ StopProcess(id, <<>>, Tail(stack))
           \/ UNCHANGED proc
    BY <1>5, Zenon DEF Reconcile
  <2> HIDE DEF conf
  <2>2. QED
    BY <1>1, <1>2, <2>1, StartSlots
<1>6. CASE Swap(id) \/ Remove(id)
  <2>1. \E cb \in {"swap", "remove"} : Runs(cb, id)
    BY <1>6 DEF Swap, Remove
  <2>2. PICK cb \in {"swap", "remove"} : Runs(cb, id)
    BY <2>1
  <2>3. cb \in Ops /\ cb \in Callbacks
    BY DEF Ops, Callbacks
  <2>4. Clear(id)
    BY <2>2, <2>3, JobInvParts DEF Continues
  <2>5. /\ UNCHANGED <<proc, cli>>
        /\ \/ UNCHANGED userDir
           \/ \E v \in Versions \cup {None} : userDir' = [userDir EXCEPT ![id] = v]
    BY <1>6 DEF Swap, Remove
  <2>6. QED
    BY <1>1, <2>4, <2>5, SlotsReplace
<1>7. QED
  BY <1>3, <1>4, <1>5, <1>6 DEF RunFrame

LEMMA HandlerSlots ==
  ASSUME TypeOK, ProcOK, TypeOK', NEW id \in Ids,
         \/ StartNext(id)
         \/ \E enabled \in BOOLEAN : Toggle(id, enabled)
         \/ \E kind \in Kinds \ {"restart"} : Request(id, kind)
         \/ PreviewExt(id)
         \/ RemoteDone(id)
         \/ Reload(id)
         \/ Cli(id)
  PROVE  SlotStep
<1>1. CASE SamePlaces /\ UNCHANGED <<userDir, cli>>
  BY <1>1, SlotsKeep, SlotsStutter
<1>2. CASE UNCHANGED proc /\ cli' # cli
  BY <1>2, SlotsForeign
<1>3. CASE StartNext(id)
  <2>1. /\ UNCHANGED <<userDir, cli>>
        /\ \/ /\ runtime[id] = None /\ pending_stop[id] = None
              /\ StartExtension(id, Cached(id), <<>>)
           \/ UNCHANGED proc
    BY <1>3, Zenon DEF StartNext
  <2>2. UNCHANGED proc => SamePlaces
    BY DEF SamePlaces
  <2>3. QED
    BY <1>1, <2>1, <2>2, StartSlots
<1>4. CASE \/ \E enabled \in BOOLEAN : Toggle(id, enabled)
           \/ \E kind \in Kinds \ {"restart"} : Request(id, kind)
  <2>1. UNCHANGED <<proc, userDir, cli>>
    BY <1>4 DEF Toggle, Request
  <2>2. QED
    BY <1>1, <2>1 DEF SamePlaces
<1>5. CASE PreviewExt(id)
  <2>1. proc' = Supersede(proc) /\ UNCHANGED <<userDir, cli>>
    BY <1>5 DEF PreviewExt
  <2>2. SamePlaces
    BY <2>1, SupersedeType DEF SamePlaces, TypeOK
  <2>3. QED
    BY <1>1, <2>1, <2>2
<1>6. CASE RemoteDone(id)
  <2>1. /\ UNCHANGED <<userDir, cli>>
        /\ UNCHANGED proc \/ \E cb : StopProcess(id, <<cb>>, <<>>)
    BY <1>6 DEF RemoteDone, disk
  <2>2. CASE UNCHANGED proc
    BY <1>1, <2>1, <2>2 DEF SamePlaces
  <2>3. CASE \E cb : StopProcess(id, <<cb>>, <<>>)
    BY <2>1, <2>3, StopSlots, SlotsStutter
  <2>4. QED
    BY <2>1, <2>2, <2>3
<1>7. CASE Reload(id)
  <2>1. cli[id].pc = "written" /\ cli'[id].pc = "idle" /\ UNCHANGED proc
    BY <1>7 DEF Reload, CliIdle, TypeOK
  <2>2. cli' # cli
    BY <2>1
  <2>3. QED
    BY <1>2, <2>1, <2>2
<1>8. CASE Cli(id)
  <2>1. cli'[id].pc # cli[id].pc /\ UNCHANGED proc
    BY <1>8 DEF Cli, CliDownload, CliSwap, CliRemove, CliDisable, CliIdle, TypeOK
  <2>2. cli' # cli
    BY <2>1
  <2>3. QED
    BY <1>2, <2>1, <2>2
<1>9. QED
  BY <1>3, <1>4, <1>5, <1>6, <1>7, <1>8

LEMMA OtherSlots ==
  ASSUME TypeOK,
         StartExtensions \/ StopPreview \/ Relaunch \/ UNCHANGED vars \/ \E p \in Pids : ProcDies(p)
  PROVE  SlotStep
<1>1. CASE SamePlaces /\ UNCHANGED <<userDir, cli>>
  BY <1>1, SlotsKeep, SlotsStutter
<1>2. CASE StartExtensions \/ UNCHANGED vars
  <2>1. UNCHANGED <<proc, userDir, cli>>
    BY <1>2 DEF StartExtensions, vars, disk
  <2>2. QED
    BY <1>1, <2>1 DEF SamePlaces
<1>3. CASE StopPreview
  <2>1. proc' = Supersede(proc) /\ UNCHANGED <<userDir, cli>>
    BY <1>3 DEF StopPreview, disk
  <2>2. SamePlaces
    BY <2>1, SupersedeType DEF SamePlaces, TypeOK
  <2>3. QED
    BY <1>1, <2>1, <2>2
<1>4. ASSUME NEW p \in Pids, ProcDies(p)
      PROVE  SlotStep
  <2> DEFINE status == IF proc[p].status = "alive" THEN "crashed" ELSE "stopped"
  <2>1. /\ proc[p].status \in {"alive", "stopping"}
        /\ proc' = Marked(p, status) /\ UNCHANGED <<userDir, cli>>
    BY <1>4 DEF ProcDies, disk
  <2>2. /\ proc \in [Pids -> Procs] /\ proc[p].status # "free"
        /\ status \in {"alive", "stopping", "crashed", "stopped"}
    BY <2>1 DEF TypeOK
  <2>3. \A q \in Pids : /\ Marked(p, status)[q].status = IF q = p THEN status ELSE proc[q].status
                        /\ Marked(p, status)[q].id = proc[q].id
                        /\ Marked(p, status)[q].rec = proc[q].rec
    <3> HIDE DEF status
    <3> QED BY <2>2, MarkedFacts
  <2>4. SamePlaces
    BY <2>1, <2>3 DEF SamePlaces
  <2>5. QED
    BY <1>1, <2>1, <2>4
<1>5. CASE Relaunch
  <2>1. \A q \in Pids : proc'[q].status = "free"
    BY <1>5 DEF Relaunch, Free
  <2>2. UNCHANGED <<userDir, cli>>
    BY <1>5 DEF Relaunch
  <2>3. \A i \in Ids : SlotOf(i)' = {}
    BY <2>1 DEF SlotOf, Held
  <2>4. [i \in Ids |-> SlotOf(i)]' = [i \in Ids |-> {}]
    BY <2>3
  <2>5. Slots!Shutdown
    BY <2>2, <2>4 DEF Slots!Shutdown, SlotOf, Kind
  <2>6. QED
    BY <2>5 DEF SlotStep, Slots!Next
<1>6. QED
  BY <1>2, <1>3, <1>4, <1>5

\* The service implements ProcessSlots: behind its queues, callbacks, call stack and caches, all
\* the rest of the system sees is one slot per id, filled when empty, and directories that the app
\* replaces only while their slot holds no process of the installed copy.
THEOREM Implements == Spec => ImplementsSlots
<1>1. Init => Slots!Init
  <2> SUFFICES ASSUME Init PROVE Slots!Init
    OBVIOUS
  <2>1. \A i \in Ids : Held(i) = {}
    BY DEF Init, Held, Free
  <2>2. [i \in Ids |-> SlotOf(i)] = [i \in Ids |-> {}]
    BY <2>1 DEF SlotOf
  <2>3. QED
    BY <2>2 DEF Slots!Init, SlotOf, Kind, Init
<1>2. IInv /\ [Next]_vars => SlotStep
  <2> SUFFICES ASSUME IInv, [Next]_vars PROVE SlotStep
    OBVIOUS
  <2>1. TypeOK /\ ProcOK /\ JobInv /\ TypeOK'
    BY TypeStep DEF IInv, ProcOK
  <2>2. ASSUME NEW id \in Ids, RunFrame(id)
        PROVE  SlotStep
    BY <2>1, <2>2, FrameSlots
  <2>3. ASSUME NEW id \in Ids,
               \/ StartNext(id)
               \/ \E enabled \in BOOLEAN : Toggle(id, enabled)
               \/ \E kind \in Kinds \ {"restart"} : Request(id, kind)
               \/ PreviewExt(id)
               \/ RemoteDone(id)
               \/ Reload(id)
               \/ Cli(id)
        PROVE  SlotStep
    BY <2>1, <2>3, HandlerSlots
  <2>4. ASSUME NEW p \in Pids, HandleExit(p)
        PROVE  SlotStep
    BY <2>1, <2>4, HandleExitSlots
  <2>5. ASSUME StartExtensions \/ StopPreview \/ Relaunch \/ UNCHANGED vars \/ \E p \in Pids : ProcDies(p)
        PROVE  SlotStep
    BY <2>1, <2>5, OtherSlots
  <2>6. CASE Next
    BY <2>2, <2>3, <2>4, <2>5, <2>6, Zenon DEF Next
  <2>7. QED
    BY <2>5, <2>6
<1>3. IInv /\ [Next]_vars => [Slots!Next]_(Slots!vars)
  BY <1>2 DEF SlotStep
<1>4. QED
  BY <1>1, <1>3, Inductive, PTL DEF Spec, ImplementsSlots, Slots!Spec

-----------------------------------------------------------------------------
(* Convergence.  An id that is not as its record asks has something under  *)
(* way that ends in a reconcile of it.                                     *)

On(s, op, id) == \E k \in 1..Len(s) : s[k] = Frame(op, id)

\* What ends in a reconcile of an id: its frames, but for the rest of an exit
\* handler, which reconciles nothing by itself.
Leads == Callbacks \cup {"drain", "reconcile"}
Leading(s, id) == \E op \in Leads : On(s, op, id)

\* The CLI has changed the disk and has still to tell the app.
Writing == {"removed", "written"}

\* Nothing is under way that ends in a reconcile of the id.
Quiet(id) ==
  /\ job[id] = "none" /\ pending_stop[id] = None
  /\ ~Leading(stack, id)
  /\ cli[id].pc \notin Writing
  /\ \A p \in Held(id) : proc[p].status = "alive"

Wanted(id) == Resolves(id) /\ IsEnabled(id, Cached(id))
\* The app has come to the id: before, it runs nothing but what is asked for.
Visited(id) == (activated /\ id \notin starting) \/ preview = id

\* A quiet id runs only if it is wanted, and, once the app has come to it, runs
\* if it is.
Aligned(id) ==
  Quiet(id) => /\ runtime[id] # None => Wanted(id)
               /\ Visited(id) /\ Wanted(id) => runtime[id] # None

\* A queue is worked off: its job runs, or the loop is on the stack.
Queued(id) ==
  /\ draining[id] => On(stack, "drain", id)
  /\ jobs[id] # <<>> => job[id] # "none" \/ On(stack, "drain", id)
  /\ On(stack, "exit_rest", id) => pending_stop[id] # <<>>

\* A restart is queued, or a callback waits for the exit.
Restarts(id) == \E k \in 1..Len(jobs[id]) : jobs[id][k] = "restart"
Due(id) == Restarts(id) \/ pending_stop[id] \notin {None, <<>>}

\* The record and the copy a process was started from are those in force, or
\* it is about to be restarted.
RecordOf(id) == IF preview = id THEN "preview" ELSE "installed"
Recorded(id) ==
  \A p \in Held(id) :
    /\ proc[p].rec = "preview" => preview = id /\ proc[p].copy = "dev" /\ pending_stop[id] # <<>>
    /\ proc[p].rec # RecordOf(id) => Due(id)
    /\ proc[p].rec = "installed" /\ proc[p].copy # Installed(id) => Due(id) \/ cli[id].pc \in Writing

ConvAt(id) == Aligned(id) /\ Queued(id) /\ Recorded(id)
ConvInv == \A id \in Ids : ConvAt(id)

-----------------------------------------------------------------------------
(* Frames of an id *)

LEMMA FrameEq ==
  ASSUME NEW a, NEW b, NEW i, NEW j
  PROVE  Frame(a, i) = Frame(b, j) <=> a = b /\ i = j
BY DEF Frame

LEMMA OnEmpty == \A op, id : ~On(<<>>, op, id)
BY DEF On

LEMMA OnPush ==
  ASSUME NEW s \in Seq(Frames), NEW f \in Frames
  PROVE  \A op, id : On(Push(f, s), op, id) <=> f = Frame(op, id) \/ On(s, op, id)
<1>. DEFINE t == Push(f, s)
<1>0. Len(s) \in Nat
  OBVIOUS
<1>1. /\ t \in Seq(Frames) /\ Len(t) = Len(s) + 1 /\ t[1] = f /\ Len(s) \in Nat
      /\ \A k \in 1..Len(s) : t[k + 1] = s[k]
  BY <1>0, PushFacts
<1>. HIDE DEF t
<1>2. ASSUME NEW op, NEW id, On(t, op, id), f # Frame(op, id)
      PROVE  On(s, op, id)
  <2>1. PICK k \in 1..Len(t) : t[k] = Frame(op, id)
    BY <1>2 DEF On
  <2>2. k # 1 /\ k - 1 \in 1..Len(s) /\ (k - 1) + 1 = k
    BY <1>1, <1>2, <2>1
  <2>3. s[k - 1] = Frame(op, id)
    BY <1>1, <2>1, <2>2
  <2>. QED  BY <2>2, <2>3 DEF On
<1>3. ASSUME NEW op, NEW id, On(s, op, id)
      PROVE  On(t, op, id)
  <2>1. PICK k \in 1..Len(s) : s[k] = Frame(op, id)
    BY <1>3 DEF On
  <2>2. k + 1 \in 1..Len(t) /\ t[k + 1] = Frame(op, id)
    BY <1>1, <2>1
  <2>. QED  BY <2>2 DEF On
<1>4. ASSUME NEW op, NEW id, f = Frame(op, id)
      PROVE  On(t, op, id)
  <2>1. 1 \in 1..Len(t)
    BY <1>1
  <2>. QED  BY <1>1, <1>4, <2>1 DEF On
<1>. QED  BY <1>2, <1>3, <1>4 DEF t

LEMMA OnTail ==
  ASSUME NEW s \in Seq(Frames), s # <<>>
  PROVE  \A op, id : On(s, op, id) <=> Head(s) = Frame(op, id) \/ On(Tail(s), op, id)
<1>. DEFINE t == Tail(s)
<1>1. /\ Head(s) = s[1] /\ Head(s) \in Frames /\ Len(s) \in Nat /\ Len(s) >= 1
      /\ t \in Seq(Frames) /\ Len(t) = Len(s) - 1
      /\ \A k \in 1..(Len(s) - 1) : t[k] = s[k + 1]
  BY TailFacts
<1>. HIDE DEF t
<1>2. ASSUME NEW op, NEW id, On(s, op, id), Head(s) # Frame(op, id)
      PROVE  On(t, op, id)
  <2>1. PICK k \in 1..Len(s) : s[k] = Frame(op, id)
    BY <1>2 DEF On
  <2>2. k # 1 /\ k - 1 \in 1..(Len(s) - 1) /\ (k - 1) + 1 = k
    BY <1>1, <1>2, <2>1
  <2>3. t[k - 1] = Frame(op, id)
    BY <1>1, <2>1, <2>2
  <2>. QED  BY <1>1, <2>2, <2>3 DEF On
<1>3. ASSUME NEW op, NEW id, On(t, op, id)
      PROVE  On(s, op, id)
  <2>1. PICK k \in 1..Len(t) : t[k] = Frame(op, id)
    BY <1>3 DEF On
  <2>2. k + 1 \in 1..Len(s) /\ s[k + 1] = Frame(op, id)
    BY <1>1, <2>1
  <2>. QED  BY <2>2 DEF On
<1>4. ASSUME NEW op, NEW id, Head(s) = Frame(op, id)
      PROVE  On(s, op, id)
  <2>1. 1 \in 1..Len(s)
    BY <1>1
  <2>. QED  BY <1>1, <1>4, <2>1 DEF On
<1>. QED  BY <1>2, <1>3, <1>4 DEF t

LEMMA OnConcat ==
  ASSUME NEW s \in Seq(Frames), NEW t \in Seq(Frames)
  PROVE  \A op, id : On(s \o t, op, id) <=> On(s, op, id) \/ On(t, op, id)
<1>. DEFINE u == s \o t
<1>1. /\ Len(s) \in Nat /\ Len(t) \in Nat /\ Len(u) = Len(s) + Len(t)
      /\ \A k \in 1..Len(s) : u[k] = s[k]
      /\ \A k \in 1..Len(t) : u[Len(s) + k] = t[k]
  OBVIOUS
<1>. HIDE DEF u
<1>2. ASSUME NEW op, NEW id, On(u, op, id), ~On(s, op, id)
      PROVE  On(t, op, id)
  <2>1. PICK k \in 1..Len(u) : u[k] = Frame(op, id)
    BY <1>2 DEF On
  <2>2. k \notin 1..Len(s)
    BY <1>1, <1>2, <2>1 DEF On
  <2>3. k - Len(s) \in 1..Len(t) /\ Len(s) + (k - Len(s)) = k
    BY <1>1, <2>2
  <2>4. t[k - Len(s)] = Frame(op, id)
    BY <1>1, <2>1, <2>3
  <2>. QED  BY <2>3, <2>4 DEF On
<1>3. ASSUME NEW op, NEW id, On(s, op, id)
      PROVE  On(u, op, id)
  <2>1. PICK k \in 1..Len(s) : s[k] = Frame(op, id)
    BY <1>3 DEF On
  <2>2. k \in 1..Len(u) /\ u[k] = Frame(op, id)
    BY <1>1, <2>1
  <2>. QED  BY <2>2 DEF On
<1>4. ASSUME NEW op, NEW id, On(t, op, id)
      PROVE  On(u, op, id)
  <2>1. PICK k \in 1..Len(t) : t[k] = Frame(op, id)
    BY <1>4 DEF On
  <2>2. Len(s) + k \in 1..Len(u) /\ u[Len(s) + k] = Frame(op, id)
    BY <1>1, <2>1
  <2>. QED  BY <2>2 DEF On
<1>. QED  BY <1>2, <1>3, <1>4 DEF u

LEMMA OnCalls ==
  ASSUME NEW id \in Ids, NEW cbs \in Seq(Callbacks)
  PROVE  \A op, j : On(Calls(id, cbs), op, j) <=> j = id /\ \E k \in 1..Len(cbs) : cbs[k] = op
<1>1. /\ Len(Calls(id, cbs)) = Len(cbs)
      /\ \A k \in 1..Len(cbs) : Calls(id, cbs)[k] = Frame(cbs[k], id)
  BY CallsType
<1>. QED  BY <1>1, FrameEq DEF On

\* A callback that waited is now on the stack of its id, and no other frame is.
LEMMA CalledFrames ==
  ASSUME NEW id \in Ids, NEW cbs \in Seq(Callbacks)
  PROVE  /\ \A j : j # id => \A op : ~On(Calls(id, cbs), op, j)
         /\ \A op : op \notin Callbacks => ~On(Calls(id, cbs), op, id)
         /\ cbs # <<>> => Leading(Calls(id, cbs), id)
<1>1. \A k \in 1..Len(cbs) : cbs[k] \in Callbacks
  OBVIOUS
<1>2. cbs # <<>> => 1 \in 1..Len(cbs)
  OBVIOUS
<1>3. cbs # <<>> => cbs[1] \in Leads
  BY <1>1, <1>2 DEF Leads
<1>. QED  BY <1>1, <1>2, <1>3, OnCalls DEF Leading

\* The frames under one that runs.
LEMMA RunsOn ==
  ASSUME TypeOK, NEW op \in Ops, NEW id \in Ids, Runs(op, id)
  PROVE  /\ stack \in Seq(Frames) /\ Tail(stack) \in Seq(Frames)
         /\ \A o, j : On(stack, o, j) <=> (o = op /\ j = id) \/ On(Tail(stack), o, j)
<1>1. /\ stack \in Seq(Frames) /\ Tail(stack) \in Seq(Frames) /\ stack # <<>>
      /\ Head(stack) = Frame(op, id)
  BY FrameStack DEF Runs
<1>. QED  BY <1>1, OnTail, FrameEq

LEMMA LeadsIn ==
  ASSUME NEW s, NEW op \in Leads, NEW id, On(s, op, id)
  PROVE  Leading(s, id)
BY DEF Leading

\* An id with something under way is not asked to be aligned.
LEMMA BusyAligned ==
  ASSUME NEW id \in Ids,
         \/ job'[id] # "none" \/ pending_stop'[id] # None \/ Leading(stack', id)
         \/ cli'[id].pc \in Writing
  PROVE  Aligned(id)'
BY DEF Aligned, Quiet

-----------------------------------------------------------------------------
(* What a step leaves alone *)

\* The step changes nothing of the id, but for the frames of others between its own.
SameVars(id) ==
  /\ runtime'[id] = runtime[id] /\ pending_stop'[id] = pending_stop[id]
  /\ jobs'[id] = jobs[id] /\ job'[id] = job[id] /\ draining'[id] = draining[id]
  /\ userDir'[id] = userDir[id] /\ cache'[id] = cache[id] /\ file'[id] = file[id]
  /\ cli'[id].pc \in Writing <=> cli[id].pc \in Writing
  /\ preview' = id <=> preview = id
  /\ Visited(id)' => Visited(id)
SameFrames(id) == \A op \in Ops : On(stack', op, id) <=> On(stack, op, id)
SamePids(id) == \A p \in Pids : p \in Held(id) \/ p \in Held(id)' => proc'[p] = proc[p]
SameAt(id) == SameVars(id) /\ SameFrames(id) /\ SamePids(id)

LEMMA SameKeeps ==
  ASSUME NEW id \in Ids, SameAt(id), ConvAt(id)
  PROVE  ConvAt(id)'
<1>1. Held(id)' = Held(id) /\ \A p \in Held(id) : proc'[p] = proc[p]
  BY DEF SameAt, SamePids, Held
<1>2. Leading(stack', id) <=> Leading(stack, id)
  BY DEF SameAt, SameFrames, Leading, Leads, Ops
<1>3. Quiet(id)' => Quiet(id)
  BY <1>1, <1>2 DEF SameAt, SameVars, Quiet
<1>4. Installed(id)' = Installed(id) /\ Cached(id)' = Cached(id)
  BY DEF SameAt, SameVars, Installed, Cached, Reloaded
<1>5. Wanted(id)' <=> Wanted(id)
  BY <1>4 DEF SameAt, SameVars, Wanted, Resolves, IsEnabled
<1>6. Aligned(id)'
  BY <1>3, <1>5 DEF SameAt, SameVars, Aligned, ConvAt
<1>7. Queued(id)'
  BY DEF SameAt, SameVars, SameFrames, Queued, ConvAt, Ops
<1>8. (Due(id)' <=> Due(id)) /\ RecordOf(id)' = RecordOf(id)
  BY DEF SameAt, SameVars, Due, Restarts, RecordOf
<1>9. Recorded(id)'
  BY <1>1, <1>4, <1>8 DEF SameAt, SameVars, Recorded, ConvAt
<1>. QED  BY <1>6, <1>7, <1>9 DEF ConvAt

\* A step that is about one id.
LEMMA OneIdKeeps ==
  ASSUME NEW id \in Ids, ConvInv, ConvAt(id)', \A j \in Ids : j # id => SameAt(j)
  PROVE  ConvInv'
BY SameKeeps DEF ConvInv

\* The processes stay those they were, and whatever called for a restart does.
LEMMA RecordKept ==
  ASSUME NEW id \in Ids, Recorded(id),
         \A p \in Held(id)' :
           p \in Held(id) /\ proc'[p].rec = proc[p].rec /\ proc'[p].copy = proc[p].copy,
         preview' = id <=> preview = id,
         Held(id)' # {} =>
           /\ Due(id) => Due(id)'
           /\ preview = id /\ pending_stop'[id] = <<>> => pending_stop[id] = <<>>
           /\ \/ Due(id)' \/ Clear(id) \/ cli'[id].pc \in Writing
              \/ userDir'[id] = userDir[id] /\ cli[id].pc \notin Writing
  PROVE  Recorded(id)'
<1>1. RecordOf(id)' = RecordOf(id)
  BY DEF RecordOf
<1>2. ASSUME NEW p \in Held(id)'
      PROVE  /\ proc'[p].rec = "preview" =>
                  preview' = id /\ proc'[p].copy = "dev" /\ pending_stop'[id] # <<>>
             /\ proc'[p].rec # RecordOf(id)' => Due(id)'
             /\ proc'[p].rec = "installed" /\ proc'[p].copy # Installed(id)' =>
                  Due(id)' \/ cli'[id].pc \in Writing
  <2>1. p \in Held(id) /\ proc'[p].rec = proc[p].rec /\ proc'[p].copy = proc[p].copy
    BY <1>2
  <2>2. /\ proc[p].rec = "preview" => preview = id /\ proc[p].copy = "dev" /\ pending_stop[id] # <<>>
        /\ proc[p].rec # RecordOf(id) => Due(id)
        /\ proc[p].rec = "installed" /\ proc[p].copy # Installed(id) => Due(id) \/ cli[id].pc \in Writing
    BY <2>1 DEF Recorded
  <2>3. /\ Due(id) => Due(id)'
        /\ preview = id /\ pending_stop'[id] = <<>> => pending_stop[id] = <<>>
        /\ \/ Due(id)' \/ Clear(id) \/ cli'[id].pc \in Writing
           \/ userDir'[id] = userDir[id] /\ cli[id].pc \notin Writing
    BY <1>2
  <2>4. userDir'[id] = userDir[id] => Installed(id)' = Installed(id)
    BY DEF Installed
  <2>5. Clear(id) => proc[p].rec # "installed"
    BY <2>1 DEF Clear
  <2>. QED  BY <1>1, <2>1, <2>2, <2>3, <2>4, <2>5
<1>. QED  BY <1>2 DEF Recorded

\* The loop is entered, or is on the stack already.
LEMMA Entered ==
  ASSUME TypeOK, NEW id \in Ids, NEW rest \in Seq(Frames), EnterDrain(id, rest),
         draining[id] => On(rest, "drain", id),
         On(rest, "exit_rest", id) => pending_stop'[id] # <<>>
  PROVE  /\ Aligned(id)' /\ Queued(id)'
         /\ \A j \in Ids : j # id =>
              draining'[j] = draining[j] /\ \A op \in Ops : On(stack', op, j) <=> On(rest, op, j)
<1>1. Frame("drain", id) \in Frames
  BY FrameType DEF Ops
<1>2. \A op, j : On(Push(Frame("drain", id), rest), op, j)
                   <=> Frame("drain", id) = Frame(op, j) \/ On(rest, op, j)
  BY <1>1, OnPush
<1>3. /\ On(stack', "drain", id)
      /\ \A op, j : j # id \/ op # "drain" => (On(stack', op, j) <=> On(rest, op, j))
  BY <1>2, FrameEq DEF EnterDrain
<1>4. \A j \in Ids : j # id => draining'[j] = draining[j]
  BY DEF EnterDrain, TypeOK
<1>5. Leading(stack', id)
  BY <1>3, LeadsIn DEF Leads
<1>6. Aligned(id)'
  BY <1>5, BusyAligned
<1>7. Queued(id)'
  BY <1>3 DEF Queued
<1>. QED  BY <1>3, <1>4, <1>6, <1>7

-----------------------------------------------------------------------------
(* The building blocks *)

LEMMA MarkedKeeps ==
  ASSUME TypeOK, NEW p \in Pids, proc[p].status # "free",
         NEW status \in {"alive", "stopping", "crashed", "stopped"}, proc' = Marked(p, status)
  PROVE  /\ \A q \in Pids : /\ proc'[q].id = proc[q].id
                            /\ proc'[q].rec = proc[q].rec /\ proc'[q].copy = proc[q].copy
                            /\ proc'[q].status = IF q = p THEN status ELSE proc[q].status
                            /\ q # p => proc'[q] = proc[q]
         /\ \A i \in Ids : Held(i)' = Held(i)
         /\ \A i \in Ids : i # proc[p].id => SamePids(i)
<1>1. proc \in [Pids -> Procs]
  BY DEF TypeOK
<1>2. proc[p] \in Procs
  BY <1>1
<1>3. \A q \in Pids : proc'[q] = IF q = p THEN [proc[p] EXCEPT !.status = status] ELSE proc[q]
  BY <1>1 DEF Marked
<1>4. \A q \in Pids : /\ proc'[q].id = proc[q].id
                      /\ proc'[q].rec = proc[q].rec /\ proc'[q].copy = proc[q].copy
                      /\ proc'[q].status = IF q = p THEN status ELSE proc[q].status
                      /\ q # p => proc'[q] = proc[q]
  BY <1>2, <1>3 DEF Procs
<1>5. \A i \in Ids : Held(i)' = Held(i)
  BY <1>4 DEF Held
<1>6. \A i \in Ids : i # proc[p].id => SamePids(i)
  BY <1>4, <1>5 DEF SamePids, Held
<1>. QED  BY <1>4, <1>5, <1>6

\* A stop changes no process but that of its id, and not where it came from.
LEMMA StopSame ==
  ASSUME TypeOK, ProcOK, NEW id \in Ids, NEW cbs, NEW rest, StopProcess(id, cbs, rest)
  PROVE  /\ \A q \in Pids : /\ proc'[q].id = proc[q].id
                            /\ proc'[q].rec = proc[q].rec /\ proc'[q].copy = proc[q].copy
         /\ \A i \in Ids : Held(i)' = Held(i)
         /\ \A i \in Ids : i # id => SamePids(i)
<1>1. CASE UNCHANGED proc
  BY <1>1 DEF Held, SamePids
<1>2. CASE proc' # proc
  <2>1. /\ runtime[id] # None /\ proc[runtime[id]].status = "alive"
        /\ proc' = Marked(runtime[id], "stopping")
    BY <1>2 DEF StopProcess
  <2>2. runtime[id] \in Pids /\ proc[runtime[id]].id = id /\ proc[runtime[id]].status # "free"
    BY <2>1 DEF TypeOK, ProcOK, ProcInv
  <2>. QED  BY <2>1, <2>2, MarkedKeeps
<1>. QED  BY <1>1, <1>2

\* A stop with a callback: it is called at once, or waits for the exit of a process.
LEMMA StopWaits ==
  ASSUME TypeOK, ProcOK, NEW id \in Ids, NEW cb \in Callbacks, NEW rest,
         StopProcess(id, <<cb>>, rest)
  PROVE  /\ pending_stop'[id] # <<>>
         /\ Held(id)' # {} => pending_stop'[id] \notin {None, <<>>}
         /\ \A i \in Ids : i # id =>
              runtime'[i] = runtime[i] /\ pending_stop'[i] = pending_stop[i]
<1>1. <<cb>> \in Seq(Callbacks) /\ None \notin Seq(Callbacks) /\ <<>> \in Seq(Callbacks)
  BY ServiceAssumption
<1>2. <<cb>> # None /\ <<cb>> # <<>> /\ <<>> # None
  BY <1>1
<1>3. \A i \in Ids : i # id =>
        runtime'[i] = runtime[i] /\ pending_stop'[i] = pending_stop[i]
  BY DEF StopProcess, TypeOK
<1>4. CASE runtime[id] # None
  <2>1. pending_stop'[id] = <<cb>>
    BY <1>4 DEF StopProcess, TypeOK
  <2>. QED  BY <1>2, <1>3, <2>1
<1>5. CASE runtime[id] = None /\ pending_stop[id] # None
  <2>1. pending_stop[id] \in Seq(Callbacks)
    BY <1>5 DEF TypeOK
  <2>2. pending_stop'[id] = pending_stop[id] \o <<cb>>
    BY <1>5 DEF StopProcess, TypeOK
  <2>3. pending_stop'[id] \in Seq(Callbacks) /\ pending_stop'[id] # <<>>
    BY <1>1, <2>1, <2>2
  <2>. QED  BY <1>1, <1>3, <2>3
<1>6. CASE runtime[id] = None /\ pending_stop[id] = None
  <2>1. Held(id) = {}
    BY <1>6, IdleHeld
  <2>2. Held(id)' = {}
    BY <2>1, StopSame
  <2>3. pending_stop'[id] = None
    BY <1>6 DEF StopProcess
  <2>. QED  BY <1>2, <1>3, <2>2, <2>3
<1>. QED  BY <1>4, <1>5, <1>6

\* The record of a job that stops its process is due, or there is no process.
LEMMA StopRecord ==
  ASSUME TypeOK, ProcOK, NEW id \in Ids, Recorded(id), NEW cb \in Callbacks, NEW rest,
         StopProcess(id, <<cb>>, rest), UNCHANGED preview
  PROVE  Recorded(id)'
<1>1. Held(id)' = Held(id) /\ \A q \in Pids : proc'[q].rec = proc[q].rec /\ proc'[q].copy = proc[q].copy
  BY StopSame
<1>2. pending_stop'[id] # <<>> /\ (Held(id)' # {} => pending_stop'[id] \notin {None, <<>>})
  BY StopWaits
<1>3. Held(id)' # {} => Due(id)'
  BY <1>2 DEF Due
<1>4. \A p \in Held(id)' : p \in Held(id) /\ p \in Pids
  BY <1>1 DEF Held
<1>. QED  BY <1>1, <1>2, <1>3, <1>4, RecordKept

\* An exit handler without a preview to tear down.
LEMMA ExitDrains ==
  ASSUME TypeOK, NEW id \in Ids, NEW rec, NEW errored \in BOOLEAN, NEW conf, NEW rest,
         ExitHandler(id, rec, errored, conf, rest), ~(errored /\ rec = "preview")
  PROVE  DrainStop(id, errored, rest) /\ UNCHANGED <<preview, previewLog, jobs, draining>>
BY DEF ExitHandler

LEMMA ExitVars ==
  ASSUME TypeOK, NEW id \in Ids, NEW rec, NEW errored \in BOOLEAN, NEW conf \in Conf, NEW rest,
         ExitHandler(id, rec, errored, conf, rest)
  PROVE  /\ \A j \in Ids : j # id =>
              /\ runtime'[j] = runtime[j] /\ pending_stop'[j] = pending_stop[j]
              /\ jobs'[j] = jobs[j] /\ draining'[j] = draining[j]
              /\ cache'[j] = cache[j] /\ file'[j] = file[j]
         /\ errored => runtime'[id] = None
         /\ errored /\ rec = "installed" => Cached(id)'.error
         /\ ~(errored /\ rec = "preview") => preview' = preview
         /\ errored /\ rec = "preview" =>
              preview' = None /\ pending_stop' = pending_stop
              /\ EnterDrain(id, Push(Frame("exit_rest", id), rest))
<1>1. [conf EXCEPT !.error = TRUE] \in Conf /\ [conf EXCEPT !.error = TRUE].error
  BY DEF Conf
<1>2. \A c \in Conf : c # None
  BY ServiceAssumption
<1>3. errored /\ rec = "installed" => cache'[id] = [conf EXCEPT !.error = TRUE]
  BY DEF ExitHandler, TypeOK
<1>4. errored /\ rec = "installed" => Cached(id)'.error
  BY <1>1, <1>2, <1>3 DEF Cached
<1>5. \A j \in Ids : j # id =>
        /\ runtime'[j] = runtime[j] /\ cache'[j] = cache[j] /\ file'[j] = file[j]
  BY DEF ExitHandler, TypeOK
<1>6. \A j \in Ids : j # id => pending_stop'[j] = pending_stop[j]
  BY DEF ExitHandler, DrainStop, TypeOK
<1>7. \A j \in Ids : j # id => jobs'[j] = jobs[j]
  BY DEF ExitHandler, TypeOK
<1>8. \A j \in Ids : j # id => draining'[j] = draining[j]
  BY DEF ExitHandler, EnterDrain, TypeOK
<1>9. errored => runtime'[id] = None
  BY DEF ExitHandler, TypeOK
<1>10. /\ ~(errored /\ rec = "preview") => preview' = preview
       /\ errored /\ rec = "preview" =>
            preview' = None /\ pending_stop' = pending_stop
            /\ EnterDrain(id, Push(Frame("exit_rest", id), rest))
  BY DEF ExitHandler
<1>. QED  BY <1>4, <1>5, <1>6, <1>7, <1>8, <1>9, <1>10

\* What drains the callbacks of a stop puts frames of its id on the stack.
LEMMA DrainedFrames ==
  ASSUME TypeOK, NEW id \in Ids, NEW errored \in BOOLEAN, NEW rest \in Seq(Frames),
         DrainStop(id, errored, rest)
  PROVE  /\ \A j \in Ids : j # id => \A op \in Ops : On(stack', op, j) <=> On(rest, op, j)
         /\ \A op \in {"drain", "exit_rest"} : On(stack', op, id) <=> On(rest, op, id)
         /\ pending_stop'[id] = None
         /\ ~errored \/ pending_stop[id] \notin {None, <<>>} => Leading(stack', id)
         /\ errored /\ pending_stop[id] \in {None, <<>>} => stack' = rest
<1>. DEFINE cbs == IF pending_stop[id] = None THEN <<>> ELSE pending_stop[id]
            last == IF errored THEN <<>> ELSE <<Frame("reconcile", id)>>
<1>1. cbs \in Seq(Callbacks)
  BY DEF TypeOK
<1>2. Calls(id, cbs) \in Seq(Frames)
  BY <1>1, CallsType
<1>3. Frame("reconcile", id) \in Frames
  BY FrameType DEF Ops
<1>4. last \in Seq(Frames)
  BY <1>3
<1>5. stack' = (Calls(id, cbs) \o last) \o rest
  BY DEF DrainStop
<1>6. pending_stop'[id] = None
  BY DEF DrainStop, TypeOK
<1>7. \A op, j : On(last, op, j) <=> ~errored /\ op = "reconcile" /\ j = id
  BY FrameEq DEF On
<1>8. /\ \A j : j # id => \A op : ~On(Calls(id, cbs), op, j)
      /\ \A op : op \notin Callbacks => ~On(Calls(id, cbs), op, id)
      /\ cbs # <<>> => Leading(Calls(id, cbs), id)
  BY <1>1, CalledFrames
<1>9. pending_stop[id] \in {None, <<>>} => Calls(id, cbs) = <<>>
  BY DEF Calls
<1>. HIDE DEF cbs, last
<1>10. Calls(id, cbs) \o last \in Seq(Frames)
  BY <1>2, <1>4
<1>11. \A op, j : On(stack', op, j) <=> On(Calls(id, cbs), op, j) \/ On(last, op, j) \/ On(rest, op, j)
  BY <1>2, <1>4, <1>5, <1>10, OnConcat
<1>12. \A j \in Ids : j # id => \A op \in Ops : On(stack', op, j) <=> On(rest, op, j)
  BY <1>7, <1>8, <1>11
<1>13. \A op \in {"drain", "exit_rest"} : On(stack', op, id) <=> On(rest, op, id)
  BY <1>7, <1>8, <1>11 DEF Callbacks
<1>14. ~errored => Leading(stack', id)
  BY <1>7, <1>11, LeadsIn DEF Leads
<1>15. pending_stop[id] \notin {None, <<>>} => Leading(stack', id)
  <2>1. pending_stop[id] \notin {None, <<>>} => cbs # <<>>
    BY DEF cbs
  <2>. QED  BY <1>8, <1>11, <2>1 DEF Leading
<1>16. errored /\ pending_stop[id] \in {None, <<>>} => stack' = rest
  <2>1. SUFFICES ASSUME errored, pending_stop[id] \in {None, <<>>} PROVE stack' = rest
    OBVIOUS
  <2>2. Calls(id, cbs) = <<>> /\ last = <<>>
    BY <1>9, <2>1 DEF last
  <2>. QED  BY <1>5, <2>2
<1>. QED  BY <1>6, <1>12, <1>13, <1>14, <1>15, <1>16

LEMMA NoneIsNoId == None \notin Ids /\ <<>> # None /\ \A c \in Conf : c # None
<1>1. <<>> \in Seq(Callbacks)
  OBVIOUS
<1>. QED  BY <1>1, ServiceAssumption

\* A start of an id that is to run: it runs the copy in force, or has failed
\* and is off, or its preview is torn down and restarted.
LEMMA StartConv ==
  ASSUME TypeOK, ProcOK, NEW id \in Ids, NEW conf \in Conf, NEW rest \in Seq(Frames),
         runtime[id] = None, pending_stop[id] = None, job[id] = "none",
         StartExtension(id, conf, rest),
         conf.enabled \/ preview = id,
         draining[id] => On(rest, "drain", id),
         jobs[id] # <<>> => On(rest, "drain", id),
         \A j \in Ids : j # id => \A op \in Ops : On(stack, op, j) <=> On(rest, op, j),
         UNCHANGED <<job, userDir, cli, activated>>,
         \A j \in Ids : j # id => (j \in starting' <=> j \in starting)
  PROVE  ConvAt(id)' /\ \A j \in Ids : j # id => SameAt(j)
<1>. DEFINE rec == IF preview = id THEN "preview" ELSE "installed"
            copy == IF preview = id THEN "dev" ELSE Installed(id)
            cleared == IF preview = id THEN conf ELSE [conf EXCEPT !.error = FALSE]
<1>1. cleared \in Conf /\ cleared # None /\ (preview # id => cleared.enabled = conf.enabled /\ ~cleared.error)
  BY NoneIsNoId DEF Conf
<1>2. Held(id) = {}
  BY IdleHeld
<1>3. CASE \E p \in Pids :
             /\ proc[p].status = "free" /\ copy # None
             /\ proc' = [proc EXCEPT ![p] = [status |-> "alive", id |-> id, rec |-> rec, copy |-> copy]]
             /\ runtime' = [runtime EXCEPT ![id] = p]
             /\ cache' = [cache EXCEPT ![id] = cleared]
             /\ file' = IF preview = id THEN file ELSE [file EXCEPT ![id] = cleared]
             /\ stack' = rest
             /\ UNCHANGED <<pending_stop, jobs, draining, preview, previewLog>>
  <2>1. PICK p \in Pids :
             /\ proc[p].status = "free" /\ copy # None
             /\ proc' = [proc EXCEPT ![p] = [status |-> "alive", id |-> id, rec |-> rec, copy |-> copy]]
             /\ runtime' = [runtime EXCEPT ![id] = p]
             /\ cache' = [cache EXCEPT ![id] = cleared]
             /\ file' = IF preview = id THEN file ELSE [file EXCEPT ![id] = cleared]
             /\ stack' = rest
             /\ UNCHANGED <<pending_stop, jobs, draining, preview, previewLog>>
    BY <1>3
  <2>2. /\ proc'[p].status = "alive" /\ proc'[p].id = id /\ proc'[p].rec = rec /\ proc'[p].copy = copy
        /\ \A q \in Pids : q # p => proc'[q] = proc[q]
    BY <2>1 DEF TypeOK
  <2>3. /\ runtime'[id] = p /\ cache'[id] = cleared
        /\ \A j \in Ids : j # id => /\ runtime'[j] = runtime[j] /\ cache'[j] = cache[j]
                                    /\ file'[j] = file[j]
    BY <2>1 DEF TypeOK
  <2>4. Held(id)' = {p}
    BY <1>2, <2>2 DEF Held
  <2>5. Wanted(id)'
    <3>1. Cached(id)' = cleared
      BY <1>1, <2>3 DEF Cached
    <3>2. Resolves(id)'
      BY <2>1 DEF Resolves, Installed
    <3>. QED  BY <1>1, <2>1, <3>1, <3>2 DEF Wanted, IsEnabled
  <2>6. p # None
    BY ServiceAssumption
  <2>7. Aligned(id)'
    BY <2>3, <2>5, <2>6 DEF Aligned
  <2>8. Queued(id)'
    BY <2>1, NoneIsNoId DEF Queued
  <2>9. Recorded(id)'
    <3>1. RecordOf(id)' = rec /\ Installed(id)' = Installed(id)
      BY <2>1 DEF RecordOf, Installed
    <3>2. pending_stop'[id] # <<>>
      BY <2>1, NoneIsNoId
    <3>. QED  BY <2>1, <2>2, <2>4, <3>1, <3>2 DEF Recorded
  <2>10. ASSUME NEW j \in Ids, j # id
         PROVE  SameAt(j)
    <3>1. SameVars(j)
      BY <2>1, <2>3, <2>10 DEF SameVars, Visited
    <3>2. SameFrames(j)
      BY <2>1, <2>10 DEF SameFrames
    <3>3. SamePids(j)
      BY <2>1, <2>2, <2>10 DEF SamePids, Held
    <3>. QED  BY <3>1, <3>2, <3>3 DEF SameAt
  <2>. QED  BY <2>7, <2>8, <2>9, <2>10 DEF ConvAt
<1>4. CASE ExitHandler(id, rec, TRUE, cleared, rest) /\ UNCHANGED proc
  <2>. DEFINE yes == TRUE
  <2>1. yes \in BOOLEAN /\ ExitHandler(id, rec, yes, cleared, rest)
    BY <1>4
  <2>. HIDE DEF cleared, copy, yes
  <2>2. yes
    BY DEF yes
  <2>3. /\ \A j \in Ids : j # id =>
             /\ runtime'[j] = runtime[j] /\ pending_stop'[j] = pending_stop[j]
             /\ jobs'[j] = jobs[j] /\ draining'[j] = draining[j]
             /\ cache'[j] = cache[j] /\ file'[j] = file[j]
        /\ runtime'[id] = None
        /\ rec = "installed" => Cached(id)'.error
        /\ rec # "preview" => preview' = preview
        /\ rec = "preview" =>
             preview' = None /\ pending_stop' = pending_stop
             /\ EnterDrain(id, Push(Frame("exit_rest", id), rest))
    BY <1>1, <2>1, <2>2, ExitVars
  <2>4. Held(id)' = {} /\ \A j \in Ids : SamePids(j)
    BY <1>2, <1>4 DEF Held, SamePids
  <2>5. Recorded(id)'
    BY <2>4 DEF Recorded
  <2>6. \A j \in Ids : j # id => SameVars(j)
    <3>1. \A j \in Ids : j # id => (preview' = j <=> preview = j)
      BY <2>3, NoneIsNoId
    <3>. QED  BY <2>3, <3>1 DEF SameVars, Visited
  <2>7. CASE rec = "preview"
    <3>. DEFINE below == Push(Frame("exit_rest", id), rest)
    <3>1. Frame("exit_rest", id) \in Frames
      BY FrameType DEF Ops
    <3>2. below \in Seq(Frames) /\ \A op, j : On(below, op, j) <=>
             (op = "exit_rest" /\ j = id) \/ On(rest, op, j)
      <4>1. below \in Seq(Frames)
        BY <3>1, PushFacts
      <4>2. \A op, j : On(below, op, j) <=> Frame("exit_rest", id) = Frame(op, j) \/ On(rest, op, j)
        BY <3>1, OnPush
      <4>. QED  BY <4>1, <4>2, FrameEq
    <3>3. EnterDrain(id, below) /\ pending_stop' = pending_stop
      BY <2>3, <2>7
    <3>. HIDE DEF below
    <3>4. draining[id] => On(below, "drain", id)
      BY <3>2
    <3>5. On(below, "exit_rest", id) => pending_stop'[id] # <<>>
      BY <3>3, NoneIsNoId
    <3>6. /\ Aligned(id)' /\ Queued(id)'
          /\ \A j \in Ids : j # id =>
               draining'[j] = draining[j] /\ \A op \in Ops : On(stack', op, j) <=> On(below, op, j)
      BY <3>2, <3>3, <3>4, <3>5, Entered
    <3>7. \A j \in Ids : j # id => SameFrames(j)
      BY <3>2, <3>6 DEF SameFrames
    <3>. QED  BY <2>4, <2>5, <2>6, <3>6, <3>7 DEF ConvAt, SameAt
  <2>8. CASE rec # "preview"
    <3>1. DrainStop(id, yes, rest) /\ UNCHANGED <<preview, previewLog, jobs, draining>>
      BY <2>1, <2>8, ExitDrains
    <3>2. stack' = rest /\ pending_stop'[id] = None
      BY <2>1, <2>2, <3>1, DrainedFrames
    <3>3. ~Wanted(id)'
      BY <2>3, <2>8 DEF Wanted, IsEnabled
    <3>4. Aligned(id)'
      BY <2>3, <3>3 DEF Aligned
    <3>5. Queued(id)'
      BY <3>1, <3>2, NoneIsNoId DEF Queued
    <3>6. \A j \in Ids : j # id => SameFrames(j)
      BY <3>2 DEF SameFrames
    <3>. QED  BY <2>4, <2>5, <2>6, <3>4, <3>5, <3>6 DEF ConvAt, SameAt
  <2>. QED  BY <2>7, <2>8
<1>. QED  BY <1>3, <1>4 DEF StartExtension

-----------------------------------------------------------------------------
(* Frames *)

LEMMA DrainDoneConv ==
  ASSUME TypeOK, ConvInv, NEW id \in Ids, DrainDone(id)
  PROVE  ConvAt(id)' /\ \A j \in Ids : j # id => SameAt(j)
<1>1. Runs("drain", id) /\ "drain" \in Ops /\ "reconcile" \in Leads
  BY DEF DrainDone, Ops, Leads
<1>2. /\ Tail(stack) \in Seq(Frames)
      /\ \A o, j : On(stack, o, j) <=> (o = "drain" /\ j = id) \/ On(Tail(stack), o, j)
  BY <1>1, RunsOn
<1>3. Frame("reconcile", id) \in Frames
  BY FrameType DEF Ops
<1>4. \A op, j : On(Push(Frame("reconcile", id), Tail(stack)), op, j) <=>
                   Frame("reconcile", id) = Frame(op, j) \/ On(Tail(stack), op, j)
  BY <1>2, <1>3, OnPush
<1>5. \A op, j : On(stack', op, j) <=>
        (job[id] = "none" /\ op = "reconcile" /\ j = id) \/ On(Tail(stack), op, j)
  BY <1>4, FrameEq DEF DrainDone
<1>6. /\ UNCHANGED <<activated, starting, runtime, pending_stop, jobs, job, preview, proc, cache, file, userDir, cli>>
      /\ draining'[id] = FALSE /\ \A j \in Ids : j # id => draining'[j] = draining[j]
      /\ job[id] # "none" \/ jobs[id] = <<>>
  BY DEF DrainDone, TypeOK, disk
<1>7. ASSUME NEW j \in Ids, j # id
      PROVE  SameAt(j)
  BY <1>2, <1>5, <1>6, <1>7 DEF SameAt, SameVars, SameFrames, SamePids, Held, Visited
<1>8. Aligned(id)'
  <2>1. CASE job[id] = "none"
    <3>1. On(stack', "reconcile", id)
      BY <1>5, <2>1
    <3>. QED  BY <1>1, <3>1, LeadsIn, BusyAligned
  <2>2. CASE job[id] # "none"
    BY <1>6, <2>2, BusyAligned
  <2>. QED  BY <2>1, <2>2
<1>9. Queued(id) /\ Recorded(id)
  BY DEF ConvInv, ConvAt
<1>10. Queued(id)'
  <2>1. On(stack', "exit_rest", id) => On(stack, "exit_rest", id)
    BY <1>2, <1>5
  <2>. QED  BY <1>6, <1>9, <2>1 DEF Queued
<1>11. Recorded(id)'
  BY <1>6, <1>9 DEF Recorded, RecordOf, Due, Restarts, Held, Installed
<1>. QED  BY <1>7, <1>8, <1>10, <1>11 DEF ConvAt

LEMMA ReleaseConv ==
  ASSUME TypeOK, ConvInv, NEW id \in Ids, Release(id)
  PROVE  ConvAt(id)' /\ \A j \in Ids : j # id => SameAt(j)
<1>1. Runs("release", id) /\ "release" \in Ops
  BY DEF Release, Ops, Callbacks
<1>2. /\ Tail(stack) \in Seq(Frames)
      /\ \A o, j : On(stack, o, j) <=> (o = "release" /\ j = id) \/ On(Tail(stack), o, j)
  BY <1>1, RunsOn
<1>3. /\ UNCHANGED <<activated, starting, runtime, pending_stop, jobs, preview, proc, cache, file, userDir, cli>>
      /\ \A j \in Ids : j # id => job'[j] = job[j]
  BY DEF Release, TypeOK, disk
<1>4. Queued(id) /\ Recorded(id)
  BY DEF ConvInv, ConvAt
<1>5. draining[id] => On(Tail(stack), "drain", id)
  BY <1>2, <1>4 DEF Queued
<1>6. On(Tail(stack), "exit_rest", id) => pending_stop'[id] # <<>>
  BY <1>2, <1>3, <1>4 DEF Queued
<1>7. EnterDrain(id, Tail(stack))
  BY DEF Release
<1>8. /\ Aligned(id)' /\ Queued(id)'
      /\ \A j \in Ids : j # id =>
           draining'[j] = draining[j] /\ \A op \in Ops : On(stack', op, j) <=> On(Tail(stack), op, j)
  BY <1>2, <1>5, <1>6, <1>7, Entered
<1>9. ASSUME NEW j \in Ids, j # id
      PROVE  SameAt(j)
  BY <1>2, <1>3, <1>8, <1>9 DEF SameAt, SameVars, SameFrames, SamePids, Held, Visited
<1>10. Recorded(id)'
  BY <1>3, <1>4 DEF Recorded, RecordOf, Due, Restarts, Held, Installed
<1>. QED  BY <1>8, <1>9, <1>10 DEF ConvAt

LEMMA CallbackConv ==
  ASSUME TypeOK, JobInv, ConvInv, NEW id \in Ids, Swap(id) \/ SwapSystem(id) \/ Remove(id)
  PROVE  ConvAt(id)' /\ \A j \in Ids : j # id => SameAt(j)
<1>1. PICK cb \in {"swap", "swap_system", "remove"} :
        /\ Runs(cb, id)
        /\ userDir' = userDir \/ cb \in {"swap", "remove"}
  BY DEF Swap, SwapSystem, Remove, disk
<1>2. cb \in Ops /\ cb \in Callbacks
  BY DEF Ops, Callbacks
<1>3. /\ Tail(stack) \in Seq(Frames)
      /\ \A o, j : On(stack, o, j) <=> (o = cb /\ j = id) \/ On(Tail(stack), o, j)
  BY <1>1, <1>2, RunsOn
<1>4. Frame("release", id) \in Frames
  BY FrameType DEF Ops, Callbacks
<1>5. stack' = Push(Frame("release", id), Tail(stack))
  BY DEF Swap, SwapSystem, Remove
<1>6. \A op, j : On(stack', op, j) <=> Frame("release", id) = Frame(op, j) \/ On(Tail(stack), op, j)
  BY <1>3, <1>4, <1>5, OnPush
<1>7. \A op, j : On(stack', op, j) <=> (op = "release" /\ j = id) \/ On(Tail(stack), op, j)
  BY <1>6, FrameEq
<1>8. UNCHANGED <<activated, starting, runtime, pending_stop, jobs, job, draining, preview, proc, cli>>
  BY DEF Swap, SwapSystem, Remove
<1>9. \A j \in Ids : j # id => userDir'[j] = userDir[j] /\ cache'[j] = cache[j] /\ file'[j] = file[j]
  BY DEF Swap, SwapSystem, Remove, TypeOK, disk
<1>10. ASSUME NEW j \in Ids, j # id
       PROVE  SameAt(j)
  BY <1>3, <1>7, <1>8, <1>9, <1>10 DEF SameAt, SameVars, SameFrames, SamePids, Held, Visited
<1>11. Aligned(id)'
  <2>1. On(stack', "release", id)
    BY <1>7
  <2>. QED  BY <2>1, LeadsIn, BusyAligned DEF Leads, Callbacks
<1>12. Queued(id) /\ Recorded(id)
  BY DEF ConvInv, ConvAt
<1>13. Queued(id)'
  BY <1>2, <1>3, <1>7, <1>8, <1>12 DEF Queued, Callbacks
<1>14. Continues(cb, id)
  BY <1>1, <1>2, JobInvParts
<1>15. Clear(id) \/ userDir' = userDir
  BY <1>1, <1>14 DEF Continues
<1>16. Recorded(id)'
  BY <1>8, <1>12, <1>15 DEF Recorded, RecordOf, Due, Restarts, Held, Installed, Clear
<1>. QED  BY <1>10, <1>11, <1>13, <1>16 DEF ConvAt

\* A reconcile leaves its id running as it is wanted.
LEMMA ReconcileConv ==
  ASSUME TypeOK, ProcOK, ExitInv, ConvInv, NEW id \in Ids, Reconcile(id)
  PROVE  ConvAt(id)' /\ \A j \in Ids : j # id => SameAt(j)
<1>. DEFINE busy == job[id] # "none" \/ pending_stop[id] # None
            conf == IF Resolves(id) THEN Reloaded(id) ELSE cache[id]
            wanted == Resolves(id) /\ IsEnabled(id, conf)
<1>1. Runs("reconcile", id) /\ "reconcile" \in Ops
  BY DEF Reconcile, Ops
<1>2. /\ Tail(stack) \in Seq(Frames)
      /\ \A o, j : On(stack, o, j) <=> (o = "reconcile" /\ j = id) \/ On(Tail(stack), o, j)
  BY <1>1, RunsOn
<1>3. UNCHANGED <<activated, starting, job, userDir, cli>>
  BY DEF Reconcile
<1>4. Queued(id) /\ Recorded(id)
  BY DEF ConvInv, ConvAt
<1>5. Reloaded(id) \in Conf /\ Reloaded(id) # None
  BY RecordTypes, NoneIsNoId
<1>6. CASE ~busy /\ wanted /\ runtime[id] = None /\ StartExtension(id, conf, Tail(stack))
  <2>1. conf \in Conf /\ (conf.enabled \/ preview = id)
    BY <1>5, <1>6 DEF IsEnabled
  <2>2. /\ draining[id] => On(Tail(stack), "drain", id)
        /\ jobs[id] # <<>> => On(Tail(stack), "drain", id)
    BY <1>2, <1>4, <1>6 DEF Queued
  <2>3. \A j \in Ids : j # id => \A op \in Ops : On(stack, op, j) <=> On(Tail(stack), op, j)
    BY <1>2
  <2>. HIDE DEF conf
  <2>. QED  BY <1>2, <1>3, <1>6, <2>1, <2>2, <2>3, StartConv
<1>7. CASE /\ ~busy /\ ~wanted /\ runtime[id] # None
           /\ StopProcess(id, <<>>, Tail(stack))
           /\ cache' = [cache EXCEPT ![id] = conf]
           /\ UNCHANGED <<jobs, draining, preview, previewLog, file>>
  <2>1. /\ stack' = Tail(stack) /\ pending_stop'[id] = <<>>
        /\ \A j \in Ids : j # id =>
             runtime'[j] = runtime[j] /\ pending_stop'[j] = pending_stop[j] /\ cache'[j] = cache[j]
    BY <1>7 DEF StopProcess, TypeOK
  <2>2. /\ \A q \in Pids : proc'[q].rec = proc[q].rec /\ proc'[q].copy = proc[q].copy
        /\ Held(id)' = Held(id)
        /\ \A i \in Ids : i # id => SamePids(i)
    BY <1>7, StopSame
  <2>3. ASSUME NEW j \in Ids, j # id
        PROVE  SameAt(j)
    BY <1>2, <1>3, <1>7, <2>1, <2>2, <2>3 DEF SameAt, SameVars, SameFrames, Visited
  <2>4. Aligned(id)'
    BY <2>1, NoneIsNoId, BusyAligned
  <2>5. ~On(stack, "exit_rest", id)
    <3>1. SUFFICES ASSUME NEW k \in 1..Len(stack), stack[k] = Frame("exit_rest", id) PROVE FALSE
      BY DEF On
    <3>2. stack[k].op = "exit_rest" /\ stack[k].id = id
      BY <3>1 DEF Frame
    <3>3. k = 1
      BY <1>7, <3>2 DEF ExitInv
    <3>4. stack[1] = Frame("reconcile", id)
      BY <1>1 DEF Runs, TypeOK
    <3>. QED  BY <3>1, <3>3, <3>4, FrameEq
  <2>6. Queued(id)'
    BY <1>2, <1>3, <1>4, <1>7, <2>1, <2>5 DEF Queued
  <2>7. preview # id
    BY <1>7 DEF Resolves, IsEnabled
  <2>8. Due(id) => Due(id)'
    BY <1>7 DEF Due, Restarts
  <2>9. userDir'[id] = userDir[id] /\ cli'[id].pc = cli[id].pc /\ preview' = preview
    BY <1>3, <1>7
  <2>10. \A p \in Held(id)' : p \in Held(id) /\ proc'[p].rec = proc[p].rec /\ proc'[p].copy = proc[p].copy
    BY <2>2 DEF Held
  <2>11. Recorded(id)'
    BY <1>4, <2>7, <2>8, <2>9, <2>10, RecordKept
  <2>. QED  BY <2>3, <2>4, <2>6, <2>11 DEF ConvAt
<1>8. CASE /\ busy \/ (wanted <=> runtime[id] # None)
           /\ stack' = Tail(stack)
           /\ cache' = IF busy THEN cache ELSE [cache EXCEPT ![id] = conf]
           /\ UNCHANGED <<runtime, pending_stop, jobs, draining, preview, previewLog, proc, file>>
  <2>1. \A j \in Ids : j # id => cache'[j] = cache[j]
    BY <1>8 DEF TypeOK
  <2>2. ASSUME NEW j \in Ids, j # id
        PROVE  SameAt(j)
    BY <1>2, <1>3, <1>8, <2>1, <2>2 DEF SameAt, SameVars, SameFrames, SamePids, Held, Visited
  <2>3. Queued(id)'
    BY <1>2, <1>3, <1>4, <1>8 DEF Queued
  <2>4. Recorded(id)'
    BY <1>3, <1>4, <1>8 DEF Recorded, RecordOf, Due, Restarts, Held, Installed
  <2>5. Aligned(id)'
    <3>1. CASE busy
      BY <1>3, <1>8, <3>1, BusyAligned
    <3>2. CASE ~busy
      <4>1. cache'[id] = conf
        BY <1>8, <3>2 DEF TypeOK
      <4>2. Resolves(id)' <=> Resolves(id)
        BY <1>3, <1>8 DEF Resolves, Installed
      <4>3. Resolves(id) => Cached(id)' = conf
        BY <1>5, <4>1 DEF Cached
      <4>4. Wanted(id)' <=> wanted
        BY <1>8, <4>2, <4>3 DEF Wanted, IsEnabled
      <4>. QED  BY <1>8, <3>2, <4>4 DEF Aligned
    <3>. QED  BY <3>1, <3>2
  <2>. QED  BY <2>2, <2>3, <2>4, <2>5 DEF ConvAt
<1>. QED  BY <1>6, <1>7, <1>8 DEF Reconcile

LEMMA ExitRestConv ==
  ASSUME TypeOK, ExitInv, ConvInv, NEW id \in Ids, ExitRest(id)
  PROVE  ConvAt(id)' /\ \A j \in Ids : j # id => SameAt(j)
<1>. DEFINE yes == TRUE
<1>1. Runs("exit_rest", id) /\ "exit_rest" \in Ops
  BY DEF ExitRest, Ops
<1>2. /\ Tail(stack) \in Seq(Frames)
      /\ \A o, j : On(stack, o, j) <=> (o = "exit_rest" /\ j = id) \/ On(Tail(stack), o, j)
  BY <1>1, RunsOn
<1>3. /\ UNCHANGED <<activated, starting, runtime, jobs, job, draining, preview, proc, cache, file, userDir, cli>>
      /\ \A j \in Ids : j # id => pending_stop'[j] = pending_stop[j]
  BY DEF ExitRest, DrainStop, TypeOK, disk
<1>4. Queued(id) /\ Recorded(id) /\ Aligned(id)
  BY DEF ConvInv, ConvAt
<1>5. yes \in BOOLEAN /\ yes /\ DrainStop(id, yes, Tail(stack))
  BY DEF ExitRest
<1>. HIDE DEF yes
<1>6. /\ \A j \in Ids : j # id => \A op \in Ops : On(stack', op, j) <=> On(Tail(stack), op, j)
      /\ \A op \in {"drain", "exit_rest"} : On(stack', op, id) <=> On(Tail(stack), op, id)
      /\ pending_stop'[id] = None
      /\ ~yes \/ pending_stop[id] \notin {None, <<>>} => Leading(stack', id)
      /\ yes /\ pending_stop[id] \in {None, <<>>} => stack' = Tail(stack)
  BY <1>2, <1>5, DrainedFrames
<1>7. ASSUME NEW j \in Ids, j # id
      PROVE  SameAt(j)
  BY <1>2, <1>3, <1>6, <1>7 DEF SameAt, SameVars, SameFrames, SamePids, Held, Visited
<1>8. Queued(id)'
  BY <1>2, <1>3, <1>4, <1>6, NoneIsNoId DEF Queued
<1>9. pending_stop[id] # <<>>
  <2>1. On(stack, "exit_rest", id)
    BY <1>2
  <2>. QED  BY <1>4, <2>1 DEF Queued
<1>10. CASE pending_stop[id] = None
  <2>1. stack' = Tail(stack)
    BY <1>5, <1>6, <1>10
  <2>2. Leading(stack, id) => Leading(stack', id)
    BY <1>2, <2>1 DEF Leading, Leads, Callbacks
  <2>3. Aligned(id)'
    BY <1>3, <1>4, <1>10, <2>2
       DEF Aligned, Quiet, Wanted, Visited, Resolves, IsEnabled, Cached, Reloaded, Installed, Held
  <2>4. Recorded(id)'
    BY <1>3, <1>4, <1>6, <1>10 DEF Recorded, RecordOf, Due, Restarts, Held, Installed
  <2>. QED  BY <1>7, <1>8, <2>3, <2>4 DEF ConvAt
<1>11. CASE pending_stop[id] # None
  <2>1. Leading(stack', id)
    BY <1>6, <1>9, <1>11
  <2>2. Aligned(id)'
    BY <2>1, BusyAligned
  <2>3. Held(id) = {}
    <3>1. PICK k \in 1..Len(stack) : stack[k] = Frame("exit_rest", id)
      BY <1>2 DEF On
    <3>2. stack[k].op = "exit_rest" /\ stack[k].id = id
      BY <3>1 DEF Frame
    <3>. QED  BY <1>11, <3>2 DEF ExitInv
  <2>4. Recorded(id)'
    BY <1>3, <2>3 DEF Recorded, Held
  <2>. QED  BY <1>7, <1>8, <2>2, <2>4 DEF ConvAt
<1>. QED  BY <1>10, <1>11

\* A job takes its process along: it stops it, or leaves it as it is.
LEMMA StartJobConv ==
  ASSUME TypeOK, ProcOK, ConvInv, NEW id \in Ids, StartJob(id)
  PROVE  ConvAt(id)' /\ \A j \in Ids : j # id => SameAt(j)
<1>1. Runs("drain", id) /\ "drain" \in Ops
  BY DEF StartJob, Ops
<1>2. /\ stack \in Seq(Frames)
      /\ \A o, j : On(stack, o, j) <=> (o = "drain" /\ j = id) \/ On(Tail(stack), o, j)
  BY <1>1, RunsOn
<1>3. UNCHANGED <<activated, starting, draining, preview, previewLog, file, userDir, cli>>
  BY DEF StartJob
<1>4. Queued(id) /\ Recorded(id)
  BY DEF ConvInv, ConvAt
<1>5. /\ job[id] = "none" /\ jobs[id] # <<>> /\ jobs'[id] = Tail(jobs[id])
      /\ \A j \in Ids : j # id => jobs'[j] = jobs[j] /\ job'[j] = job[j] /\ cache'[j] = cache[j]
  <2>1. \A j \in Ids : j # id => cache'[j] = cache[j]
    BY DEF StartJob, Load, TypeOK
  <2>2. \E stage \in {"local", "remote", "remote_system"} : job' = [job EXCEPT ![id] = stage]
    BY DEF StartJob
  <2>3. \A j \in Ids : j # id => job'[j] = job[j]
    BY <2>2 DEF TypeOK
  <2>4. /\ job[id] = "none" /\ jobs[id] # <<>> /\ jobs'[id] = Tail(jobs[id])
        /\ \A j \in Ids : j # id => jobs'[j] = jobs[j]
    BY DEF StartJob, TypeOK
  <2>. QED  BY <2>1, <2>3, <2>4
\* Either the process is stopped, or it is no restart and nothing happens to the
\* process.
<1>6. \/ \E cb \in Callbacks : StopProcess(id, <<cb>>, stack)
      \/ /\ Head(jobs[id]) # "restart" /\ UNCHANGED <<runtime, pending_stop, proc>>
         /\ stack' \in {stack, Push(Frame("release", id), stack), Push(Frame("remove", id), stack)}
  BY DEF StartJob, Callbacks
<1>7. \A cb \in Callbacks :
        /\ Frame(cb, id) \in Frames
        /\ \A op, j : On(Push(Frame(cb, id), stack), op, j) <=>
                        (op = cb /\ j = id) \/ On(stack, op, j)
  <2>1. SUFFICES ASSUME NEW cb \in Callbacks
                 PROVE  /\ Frame(cb, id) \in Frames
                        /\ \A op, j : On(Push(Frame(cb, id), stack), op, j) <=>
                                        (op = cb /\ j = id) \/ On(stack, op, j)
    OBVIOUS
  <2>2. Frame(cb, id) \in Frames
    BY FrameType DEF Ops
  <2>3. \A op, j : On(Push(Frame(cb, id), stack), op, j) <=>
                     Frame(cb, id) = Frame(op, j) \/ On(stack, op, j)
    BY <1>2, <2>2, OnPush
  <2>. QED  BY <2>2, <2>3, FrameEq
<1>8. stack' = stack \/ \E cb \in Callbacks : stack' = Push(Frame(cb, id), stack)
  <2>1. CASE \E cb \in Callbacks : StopProcess(id, <<cb>>, stack)
    BY <1>2, <2>1, StopStack
  <2>2. CASE stack' \in {stack, Push(Frame("release", id), stack), Push(Frame("remove", id), stack)}
    BY <2>2 DEF Callbacks
  <2>. QED  BY <1>6, <2>1, <2>2
<1>9. /\ \A j \in Ids : j # id => \A op \in Ops : On(stack', op, j) <=> On(stack, op, j)
      /\ \A op \in {"drain", "exit_rest"} : On(stack', op, id) <=> On(stack, op, id)
  BY <1>7, <1>8 DEF Callbacks
<1>10. On(stack', "drain", id)
  BY <1>2, <1>9
<1>11. Aligned(id)'
  BY <1>10, LeadsIn, BusyAligned DEF Leads
<1>12. CASE \E cb \in Callbacks : StopProcess(id, <<cb>>, stack)
  <2>1. PICK cb \in Callbacks : StopProcess(id, <<cb>>, stack)
    BY <1>12
  <2>2. /\ pending_stop'[id] # <<>>
        /\ \A j \in Ids : j # id => runtime'[j] = runtime[j] /\ pending_stop'[j] = pending_stop[j]
    BY <2>1, StopWaits
  <2>3. \A j \in Ids : j # id => SamePids(j)
    BY <2>1, StopSame
  <2>4. ASSUME NEW j \in Ids, j # id
        PROVE  SameAt(j)
    BY <1>3, <1>5, <1>9, <2>2, <2>3, <2>4 DEF SameAt, SameVars, SameFrames, Visited
  <2>5. Queued(id)'
    BY <1>10, <2>2 DEF Queued
  <2>6. Recorded(id)'
    BY <1>3, <1>4, <2>1, StopRecord
  <2>. QED  BY <1>11, <2>4, <2>5, <2>6 DEF ConvAt
<1>13. CASE Head(jobs[id]) # "restart" /\ UNCHANGED <<runtime, pending_stop, proc>>
  <2>1. ASSUME NEW j \in Ids, j # id
        PROVE  SameAt(j)
    BY <1>3, <1>5, <1>9, <1>13, <2>1 DEF SameAt, SameVars, SameFrames, SamePids, Held, Visited
  <2>2. Queued(id)'
    BY <1>4, <1>9, <1>10, <1>13 DEF Queued
  <2>3. Due(id) => Due(id)'
    <3>1. jobs[id] \in Seq(Kinds)
      BY DEF TypeOK
    <3>2. ASSUME NEW k \in 1..Len(jobs[id]), jobs[id][k] = "restart"
          PROVE  Restarts(id)'
      <4>1. /\ Head(jobs[id]) = jobs[id][1] /\ Len(jobs[id]) \in Nat
            /\ Len(Tail(jobs[id])) = Len(jobs[id]) - 1
            /\ \A n \in 1..(Len(jobs[id]) - 1) : Tail(jobs[id])[n] = jobs[id][n + 1]
        BY <1>5, <3>1, TailFacts
      <4>2. k - 1 \in 1..(Len(jobs[id]) - 1) /\ (k - 1) + 1 = k
        BY <1>13, <3>2, <4>1
      <4>3. Tail(jobs[id])[k - 1] = "restart" /\ k - 1 \in 1..Len(Tail(jobs[id]))
        BY <3>2, <4>1, <4>2
      <4>. QED  BY <1>5, <4>3 DEF Restarts
    <3>. QED  BY <1>13, <3>2 DEF Due, Restarts
  <2>4. Recorded(id)'
    <3>1. \A p \in Held(id)' : p \in Held(id) /\ proc'[p].rec = proc[p].rec /\ proc'[p].copy = proc[p].copy
      BY <1>13 DEF Held
    <3>2. preview' = id <=> preview = id
      BY <1>3
    <3>3. /\ preview = id /\ pending_stop'[id] = <<>> => pending_stop[id] = <<>>
          /\ cli[id].pc \in Writing \/ userDir'[id] = userDir[id]
          /\ cli'[id].pc \in Writing <=> cli[id].pc \in Writing
      BY <1>3, <1>13
    <3>4. userDir'[id] = userDir[id]
      BY <1>3
    <3>. QED  BY <1>4, <2>3, <3>1, <3>2, <3>3, <3>4, RecordKept
  <2>. QED  BY <1>11, <2>1, <2>2, <2>4 DEF ConvAt
<1>. QED  BY <1>6, <1>12, <1>13

LEMMA FrameConv ==
  ASSUME TypeOK, ProcOK, ExitInv, JobInv, ConvInv, NEW id \in Ids, RunFrame(id)
  PROVE  ConvInv'
<1>1. ConvAt(id)' /\ \A j \in Ids : j # id => SameAt(j)
  BY StartJobConv, DrainDoneConv, ReleaseConv, ReconcileConv, CallbackConv, ExitRestConv DEF RunFrame
<1>. QED  BY <1>1, OneIdKeeps

-----------------------------------------------------------------------------
(* Handlers of the main loop *)

\* Between handlers no loop is on the stack, and a queue has its job.
LEMMA AtRest ==
  ASSUME TypeOK, ConvInv, stack = <<>>, NEW id \in Ids
  PROVE  /\ \A op : ~On(stack, op, id)
         /\ draining[id] = FALSE
         /\ jobs[id] # <<>> => job[id] # "none"
         /\ Aligned(id) /\ Recorded(id)
<1>1. \A op : ~On(stack, op, id)
  BY OnEmpty
<1>2. Aligned(id) /\ Recorded(id) /\ Queued(id)
  BY DEF ConvInv, ConvAt
<1>3. draining[id] \in BOOLEAN
  BY DEF TypeOK
<1>. QED  BY <1>1, <1>2, <1>3 DEF Queued

LEMMA MainEnters ==
  ASSUME TypeOK, ConvInv, stack = <<>>, NEW id \in Ids, EnterDrain(id, <<>>)
  PROVE  /\ Aligned(id)' /\ Queued(id)'
         /\ \A j \in Ids : j # id => draining'[j] = draining[j] /\ SameFrames(j)
<1>1. stack \in Seq(Frames) /\ EnterDrain(id, stack)
  BY DEF TypeOK
<1>2. ~draining[id] /\ ~On(stack, "exit_rest", id)
  BY AtRest
<1>3. /\ Aligned(id)' /\ Queued(id)'
      /\ \A j \in Ids : j # id =>
           draining'[j] = draining[j] /\ \A op \in Ops : On(stack', op, j) <=> On(stack, op, j)
  BY <1>1, <1>2, Entered
<1>. QED  BY <1>3 DEF SameFrames

\* The only frame of a handler that starts is of its id.
LEMMA OneFrame ==
  ASSUME NEW op \in Ops, NEW id \in Ids, stack = <<>>, stack' = <<Frame(op, id)>>
  PROVE  /\ \A o, j : On(stack', o, j) <=> o = op /\ j = id
         /\ \A j \in Ids : j # id => SameFrames(j)
<1>1. \A o, j : On(stack', o, j) <=> Frame(op, id) = Frame(o, j)
  BY DEF On
<1>2. \A o, j : On(stack', o, j) <=> o = op /\ j = id
  BY <1>1, FrameEq
<1>. QED  BY <1>2, OnEmpty DEF SameFrames

LEMMA ToggleConv ==
  ASSUME TypeOK, ConvInv, NEW id \in Ids, NEW enabled \in BOOLEAN, Toggle(id, enabled)
  PROVE  ConvAt(id)' /\ \A j \in Ids : j # id => SameAt(j)
<1>1. stack = <<>> /\ stack' = <<Frame("reconcile", id)>> /\ "reconcile" \in Ops
  BY DEF Toggle, MainLoop, Ops
<1>2. /\ \A o, j : On(stack', o, j) <=> o = "reconcile" /\ j = id
      /\ \A j \in Ids : j # id => SameFrames(j)
  BY <1>1, OneFrame
<1>3. /\ UNCHANGED <<activated, starting, runtime, pending_stop, jobs, job, draining, preview, proc, userDir, cli>>
      /\ \A j \in Ids : j # id => cache'[j] = cache[j] /\ file'[j] = file[j]
  BY DEF Toggle, TypeOK
<1>4. /\ draining[id] = FALSE /\ jobs[id] # <<>> => job[id] # "none"
      /\ Recorded(id)
  BY <1>1, AtRest
<1>5. ASSUME NEW j \in Ids, j # id
      PROVE  SameAt(j)
  BY <1>2, <1>3, <1>5 DEF SameAt, SameVars, SamePids, Held, Visited
<1>6. On(stack', "reconcile", id)
  BY <1>2
<1>7. Aligned(id)'
  BY <1>6, LeadsIn, BusyAligned DEF Leads
<1>8. draining[id] = FALSE /\ (jobs[id] # <<>> => job[id] # "none")
  BY <1>1, AtRest
<1>9. Queued(id)'
  BY <1>2, <1>3, <1>8 DEF Queued
<1>10. Recorded(id)'
  BY <1>3, <1>4 DEF Recorded, RecordOf, Due, Restarts, Held, Installed
<1>. QED  BY <1>5, <1>7, <1>9, <1>10 DEF ConvAt

\* A job joins the queue: its id is on the way, and what was due still is.
LEMMA AppendKeeps ==
  ASSUME TypeOK, NEW id \in Ids, NEW kind \in Kinds, jobs'[id] = Append(jobs[id], kind)
  PROVE  /\ Restarts(id) \/ kind = "restart" => Restarts(id)'
         /\ jobs'[id] # <<>>
<1>1. jobs[id] \in Seq(Kinds)
  BY DEF TypeOK
<1>2. /\ Len(jobs'[id]) = Len(jobs[id]) + 1 /\ Len(jobs[id]) \in Nat
      /\ jobs'[id][Len(jobs[id]) + 1] = kind
      /\ \A k \in 1..Len(jobs[id]) : jobs'[id][k] = jobs[id][k]
  BY <1>1
<1>3. \A k \in 1..Len(jobs[id]) : k \in 1..Len(jobs'[id])
  BY <1>2
<1>4. Len(jobs[id]) + 1 \in 1..Len(jobs'[id])
  BY <1>2
<1>5. jobs'[id] # <<>>
  BY <1>1
<1>. QED  BY <1>2, <1>3, <1>4, <1>5 DEF Restarts

LEMMA RequestConv ==
  ASSUME TypeOK, ConvInv, NEW id \in Ids, NEW kind \in Kinds, Request(id, kind)
  PROVE  ConvAt(id)' /\ \A j \in Ids : j # id => SameAt(j)
<1>1. stack = <<>> /\ EnterDrain(id, <<>>)
  BY DEF Request, MainLoop
<1>2. /\ UNCHANGED <<activated, starting, runtime, pending_stop, job, preview, proc, file, userDir, cli>>
      /\ jobs'[id] = Append(jobs[id], kind)
      /\ \A j \in Ids : j # id => cache'[j] = cache[j] /\ jobs'[j] = jobs[j]
  BY DEF Request, Load, TypeOK
<1>3. /\ Aligned(id)' /\ Queued(id)'
      /\ \A j \in Ids : j # id => draining'[j] = draining[j] /\ SameFrames(j)
  BY <1>1, MainEnters
<1>4. ASSUME NEW j \in Ids, j # id
      PROVE  SameAt(j)
  BY <1>2, <1>3, <1>4 DEF SameAt, SameVars, SamePids, Held, Visited
<1>5. Recorded(id)
  BY <1>1, AtRest
<1>6. Due(id) => Due(id)'
  BY <1>2, AppendKeeps DEF Due
<1>7. Recorded(id)'
  BY <1>2, <1>5, <1>6 DEF Recorded, RecordOf, Held, Installed
<1>. QED  BY <1>3, <1>4, <1>7 DEF ConvAt

-----------------------------------------------------------------------------
(* Previews *)

LEMMA SupersededSame ==
  ASSUME TypeOK, ConvInv, proc' = Supersede(proc)
  PROVE  /\ \A i \in Ids : Held(i)' = Held(i)
         /\ \A q \in Pids : /\ proc'[q].rec # "preview"
                            /\ proc'[q].copy = proc[q].copy
                            /\ proc'[q].rec = "installed" <=> proc[q].rec = "installed"
         /\ \A i \in Ids : i # preview => SamePids(i)
<1>1. proc \in [Pids -> Procs]
  BY DEF TypeOK
<1>2. \A q \in Pids : proc'[q] = IF proc[q].rec = "preview"
                                 THEN [proc[q] EXCEPT !.rec = "superseded"] ELSE proc[q]
  BY DEF Supersede
<1>3. \A q \in Pids : /\ proc'[q].status = proc[q].status /\ proc'[q].id = proc[q].id
                      /\ proc'[q].rec # "preview" /\ proc'[q].copy = proc[q].copy
                      /\ proc'[q].rec = "installed" <=> proc[q].rec = "installed"
                      /\ proc[q].rec # "preview" => proc'[q] = proc[q]
  <2>1. \A q \in Pids : proc[q] \in Procs
    BY <1>1
  <2>. QED  BY <1>2, <2>1 DEF Procs
<1>4. \A i \in Ids : Held(i)' = Held(i)
  BY <1>3 DEF Held
<1>5. ASSUME NEW i \in Ids, i # preview
      PROVE  SamePids(i)
  <2>1. \A q \in Held(i) : proc[q].rec # "preview"
    BY <1>5 DEF ConvInv, ConvAt, Recorded
  <2>. QED  BY <1>3, <1>4, <2>1 DEF SamePids
<1>. QED  BY <1>3, <1>4, <1>5

\* An id the overlay comes to or leaves is restarted: whatever runs is due.
LEMMA TouchedRecord ==
  ASSUME TypeOK, ConvInv, NEW id \in Ids, proc' = Supersede(proc),
         jobs'[id] = Append(jobs[id], "restart")
  PROVE  Recorded(id)'
<1>1. "restart" \in Kinds
  BY DEF Kinds
<1>2. Due(id)'
  BY <1>1, AppendKeeps DEF Due
<1>3. \A q \in Pids : proc'[q].rec # "preview"
  BY SupersededSame
<1>. QED  BY <1>2, <1>3 DEF Recorded, Held

LEMMA StopPreviewConv ==
  ASSUME TypeOK, ConvInv, StopPreview
  PROVE  ConvInv'
<1>1. preview \in Ids
  BY DEF StopPreview, TypeOK
<1>2. SUFFICES ASSUME NEW id \in Ids, id = preview
               PROVE  ConvAt(id)' /\ \A j \in Ids : j # id => SameAt(j)
  BY <1>1, OneIdKeeps
<1>3. /\ stack = <<>> /\ EnterDrain(id, <<>>) /\ proc' = Supersede(proc) /\ preview' = None
      /\ UNCHANGED <<activated, starting, runtime, pending_stop, job, cache, file, userDir, cli>>
      /\ jobs'[id] = Append(jobs[id], "restart")
      /\ \A j \in Ids : j # id => jobs'[j] = jobs[j]
  BY <1>2 DEF StopPreview, MainLoop, TypeOK, disk
<1>4. /\ Aligned(id)' /\ Queued(id)'
      /\ \A j \in Ids : j # id => draining'[j] = draining[j] /\ SameFrames(j)
  BY <1>3, MainEnters
<1>5. \A j \in Ids : j # id => SamePids(j)
  BY <1>2, <1>3, SupersededSame
<1>6. ASSUME NEW j \in Ids, j # id
      PROVE  SameAt(j)
  <2>1. preview' # j /\ preview # j
    BY <1>2, <1>3, <1>6, NoneIsNoId
  <2>. QED  BY <1>3, <1>4, <1>5, <1>6, <2>1 DEF SameAt, SameVars, Visited
<1>7. Recorded(id)'
  BY <1>3, TouchedRecord
<1>. QED  BY <1>4, <1>6, <1>7 DEF ConvAt

LEMMA PreviewExtConv ==
  ASSUME TypeOK, ConvInv, NEW id \in Ids, PreviewExt(id)
  PROVE  ConvInv'
<1>. DEFINE restarts == IF preview \in {None, id} THEN <<id>> ELSE <<preview, id>>
            touched == {restarts[k] : k \in DOMAIN restarts}
<1>1. touched = IF preview = None THEN {id} ELSE {id, preview}
  <2>1. CASE preview \in {None, id}
    BY <2>1
  <2>2. CASE preview \notin {None, id}
    <3>1. restarts = <<preview, id>> /\ DOMAIN restarts = {1, 2}
      BY <2>2
    <3>. QED  BY <2>2, <3>1
  <2>. QED  BY <2>1, <2>2
<1>2. /\ stack = <<>> /\ proc' = Supersede(proc) /\ preview' = id
      /\ UNCHANGED <<activated, starting, runtime, pending_stop, job, file, userDir, cli>>
      /\ jobs' = [i \in Ids |-> IF i \in touched THEN Append(jobs[i], "restart") ELSE jobs[i]]
      /\ draining' = [i \in Ids |-> i \in touched \/ draining[i]]
      /\ stack' = [k \in DOMAIN restarts |-> Frame("drain", restarts[k])]
  BY DEF PreviewExt, MainLoop
<1>3. \A i \in Ids : i # id => cache'[i] = cache[i]
  BY DEF PreviewExt, Load, TypeOK
<1>4. \A op, j : On(stack', op, j) <=> op = "drain" /\ j \in touched
  <2>1. DOMAIN restarts = 1..Len(stack') /\ \A k \in DOMAIN restarts : stack'[k] = Frame("drain", restarts[k])
    <3>1. CASE preview \in {None, id}
      BY <1>2, <3>1
    <3>2. CASE preview \notin {None, id}
      BY <1>2, <3>2
    <3>. QED  BY <3>1, <3>2
  <2>. HIDE DEF restarts
  <2>. QED  BY <2>1, FrameEq DEF On
<1>. HIDE DEF touched, restarts
<1>5. ASSUME NEW i \in Ids, i \in touched
      PROVE  ConvAt(i)'
  <2>1. On(stack', "drain", i) /\ ~On(stack', "exit_rest", i)
    BY <1>4, <1>5
  <2>2. Aligned(i)'
    BY <2>1, LeadsIn, BusyAligned DEF Leads
  <2>3. Queued(i)'
    BY <2>1 DEF Queued
  <2>4. jobs'[i] = Append(jobs[i], "restart")
    BY <1>2, <1>5
  <2>5. Recorded(i)'
    BY <1>2, <2>4, TouchedRecord
  <2>. QED  BY <2>2, <2>3, <2>5 DEF ConvAt
<1>6. ASSUME NEW i \in Ids, i \notin touched
      PROVE  ConvAt(i)'
  <2>1. i # id /\ i # preview
    BY <1>1, <1>6, NoneIsNoId
  <2>2. SameFrames(i)
    BY <1>2, <1>4, <1>6, OnEmpty DEF SameFrames
  <2>3. SamePids(i)
    BY <1>2, <2>1, SupersededSame
  <2>4. draining[i] = FALSE
    BY <1>2, AtRest
  <2>5. draining'[i] = draining[i] /\ jobs'[i] = jobs[i]
    BY <1>2, <1>6, <2>4
  <2>6. SameVars(i)
    BY <1>2, <1>3, <2>1, <2>5 DEF SameVars, Visited
  <2>7. SameAt(i)
    BY <2>2, <2>3, <2>6 DEF SameAt
  <2>. QED  BY <2>7, SameKeeps DEF ConvInv
<1>. QED  BY <1>5, <1>6 DEF ConvInv

-----------------------------------------------------------------------------
(* Exits, remote operations and the start of the app *)

LEMMA RemoteDoneConv ==
  ASSUME TypeOK, ProcOK, ConvInv, NEW id \in Ids, RemoteDone(id)
  PROVE  ConvAt(id)' /\ \A j \in Ids : j # id => SameAt(j)
<1>1. stack = <<>> /\ stack \in Seq(Frames)
  BY DEF RemoteDone, MainLoop, TypeOK
<1>2. /\ UNCHANGED <<activated, starting, jobs, draining, preview, cache, file, userDir, cli>>
      /\ job'[id] = "local"
      /\ \A j \in Ids : j # id => job'[j] = job[j]
  BY DEF RemoteDone, TypeOK, disk
<1>3. \/ \E cb \in Callbacks : stack' = <<Frame(cb, id)>> /\ UNCHANGED <<runtime, pending_stop, proc>>
      \/ \E cb \in Callbacks : StopProcess(id, <<cb>>, stack)
  BY <1>1 DEF RemoteDone, Callbacks
<1>4. Recorded(id) /\ draining[id] = FALSE
  BY <1>1, AtRest
<1>5. Aligned(id)'
  BY <1>2, BusyAligned
<1>6. CASE \E cb \in Callbacks : stack' = <<Frame(cb, id)>> /\ UNCHANGED <<runtime, pending_stop, proc>>
  <2>1. PICK cb \in Callbacks : stack' = <<Frame(cb, id)>> /\ UNCHANGED <<runtime, pending_stop, proc>>
    BY <1>6
  <2>2. /\ \A o, j : On(stack', o, j) <=> o = cb /\ j = id
        /\ \A j \in Ids : j # id => SameFrames(j)
    BY <1>1, <2>1, OneFrame DEF Ops
  <2>3. ASSUME NEW j \in Ids, j # id
        PROVE  SameAt(j)
    BY <1>2, <2>1, <2>2, <2>3 DEF SameAt, SameVars, SamePids, Held, Visited
  <2>4. Queued(id)'
    BY <1>2, <1>4, <2>2 DEF Queued, Callbacks
  <2>5. Recorded(id)'
    BY <1>2, <1>4, <2>1 DEF Recorded, RecordOf, Due, Restarts, Held, Installed
  <2>. QED  BY <1>5, <2>3, <2>4, <2>5 DEF ConvAt
<1>7. CASE \E cb \in Callbacks : StopProcess(id, <<cb>>, stack)
  <2>1. PICK cb \in Callbacks : StopProcess(id, <<cb>>, stack)
    BY <1>7
  <2>2. /\ pending_stop'[id] # <<>>
        /\ \A j \in Ids : j # id => runtime'[j] = runtime[j] /\ pending_stop'[j] = pending_stop[j]
    BY <2>1, StopWaits
  <2>3. \A j \in Ids : j # id => SamePids(j)
    BY <2>1, StopSame
  <2>4. stack' = stack \/ stack' = <<Frame(cb, id)>>
    <3>1. stack' \in {stack, Push(Frame(cb, id), stack)}
      BY <1>1, <2>1, StopStack
    <3>. QED  BY <1>1, <3>1 DEF Push
  <2>5. \A j \in Ids : j # id => SameFrames(j)
    BY <1>1, <2>4, OneFrame DEF SameFrames, Ops
  <2>6. ASSUME NEW j \in Ids, j # id
        PROVE  SameAt(j)
    BY <1>2, <2>2, <2>3, <2>5, <2>6 DEF SameAt, SameVars, Visited
  <2>7. Queued(id)'
    BY <1>2, <1>4, <2>2 DEF Queued
  <2>8. Recorded(id)'
    BY <1>2, <1>4, <2>1, StopRecord
  <2>. QED  BY <1>5, <2>6, <2>7, <2>8 DEF ConvAt
<1>. QED  BY <1>3, <1>6, <1>7

\* An exit that was not asked for leaves its id off, or to the job that restarts it.
LEMMA HandleExitConv ==
  ASSUME TypeOK, ProcOK, ConvInv, NEW p \in Pids, HandleExit(p)
  PROVE  ConvInv'
<1>1. /\ stack = <<>> /\ stack \in Seq(Frames) /\ proc[p].status \in {"crashed", "stopped"}
      /\ proc' = [proc EXCEPT ![p] = Free]
      /\ UNCHANGED <<activated, starting, job, userDir, cli>>
  BY DEF HandleExit, MainLoop, TypeOK
<1>2. proc[p].id \in Ids /\ proc[p].rec \in {"installed", "preview", "superseded"}
  <2>1. proc[p] \in Procs
    BY DEF TypeOK
  <2>. QED  BY <1>1, <2>1 DEF Procs
<1>3. SUFFICES ASSUME NEW id \in Ids, id = proc[p].id, NEW rec, rec = proc[p].rec,
                      NEW errored \in BOOLEAN, errored = (proc[p].status = "crashed"),
                      NEW conf \in Conf, conf = Cached(id)
               PROVE  ConvAt(id)' /\ \A j \in Ids : j # id => SameAt(j)
  <2>1. \A i \in Ids : Cached(i) \in Conf
    BY RecordTypes
  <2>. QED  BY <1>2, <2>1, OneIdKeeps
<1>4. ExitHandler(id, rec, errored, conf, stack)
  BY <1>1, <1>3 DEF HandleExit
<1>5. /\ \A j \in Ids : j # id =>
           /\ runtime'[j] = runtime[j] /\ pending_stop'[j] = pending_stop[j]
           /\ jobs'[j] = jobs[j] /\ draining'[j] = draining[j]
           /\ cache'[j] = cache[j] /\ file'[j] = file[j]
      /\ errored => runtime'[id] = None
      /\ errored /\ rec = "installed" => Cached(id)'.error
      /\ ~(errored /\ rec = "preview") => preview' = preview
      /\ errored /\ rec = "preview" =>
           preview' = None /\ pending_stop' = pending_stop
           /\ EnterDrain(id, Push(Frame("exit_rest", id), stack))
  BY <1>4, ExitVars
<1>6. p \in Held(id) /\ \A q \in Held(id) : q = p
  BY <1>1, <1>3 DEF Held, ProcOK, AtMostOneProcess
<1>7. proc'[p] = Free /\ \A q \in Pids : q # p => proc'[q] = proc[q]
  BY <1>1 DEF TypeOK
<1>8. Held(id)' = {}
  BY <1>6, <1>7 DEF Held, Free
<1>9. \A j \in Ids : j # id => SamePids(j)
  BY <1>3, <1>7 DEF SamePids, Held, Free
<1>10. Recorded(id)'
  BY <1>8 DEF Recorded
<1>11. /\ draining[id] = FALSE /\ (jobs[id] # <<>> => job[id] # "none")
       /\ Recorded(id) /\ \A op : ~On(stack, op, id)
  BY <1>1, AtRest
<1>12. /\ rec = "preview" => preview = id /\ pending_stop[id] # <<>>
       /\ rec # RecordOf(id) => Due(id)
  BY <1>3, <1>6, <1>11 DEF Recorded
<1>13. \A j \in Ids : j # id => SameVars(j)
  <2>1. \A j \in Ids : j # id => (preview' = j <=> preview = j)
    BY <1>5, <1>12, NoneIsNoId
  <2>. QED  BY <1>1, <1>5, <2>1 DEF SameVars, Visited
<1>14. CASE errored /\ rec = "preview"
  <2>. DEFINE below == Push(Frame("exit_rest", id), stack)
  <2>1. Frame("exit_rest", id) \in Frames
    BY FrameType DEF Ops
  <2>2. below \in Seq(Frames)
    BY <1>1, <2>1, PushFacts
  <2>3. \A op, j : On(below, op, j) <=> Frame("exit_rest", id) = Frame(op, j) \/ On(stack, op, j)
    BY <1>1, <2>1, OnPush
  <2>4. \A op, j : On(below, op, j) <=> (op = "exit_rest" /\ j = id) \/ On(stack, op, j)
    BY <2>3, FrameEq
  <2>5. EnterDrain(id, below) /\ pending_stop' = pending_stop
    BY <1>5, <1>14
  <2>. HIDE DEF below
  <2>6. /\ draining[id] => On(below, "drain", id)
        /\ On(below, "exit_rest", id) => pending_stop'[id] # <<>>
    BY <1>11, <1>12, <1>14, <2>5
  <2>7. /\ Aligned(id)' /\ Queued(id)'
        /\ \A j \in Ids : j # id =>
             draining'[j] = draining[j] /\ \A op \in Ops : On(stack', op, j) <=> On(below, op, j)
    BY <2>2, <2>5, <2>6, Entered
  <2>8. \A j \in Ids : j # id => SameFrames(j)
    BY <2>4, <2>7 DEF SameFrames
  <2>. QED  BY <1>9, <1>10, <1>13, <2>7, <2>8 DEF ConvAt, SameAt
<1>15. CASE ~(errored /\ rec = "preview")
  <2>1. DrainStop(id, errored, stack) /\ UNCHANGED <<preview, previewLog, jobs, draining>>
    BY <1>4, <1>15, ExitDrains
  <2>2. /\ \A j \in Ids : j # id => \A op \in Ops : On(stack', op, j) <=> On(stack, op, j)
        /\ \A op \in {"drain", "exit_rest"} : On(stack', op, id) <=> On(stack, op, id)
        /\ pending_stop'[id] = None
        /\ ~errored \/ pending_stop[id] \notin {None, <<>>} => Leading(stack', id)
        /\ errored /\ pending_stop[id] \in {None, <<>>} => stack' = stack
    <3>1. stack \in Seq(Frames) /\ DrainStop(id, errored, stack)
      BY <1>1, <2>1
    <3>. QED  BY <3>1, DrainedFrames
  <2>3. \A j \in Ids : j # id => SameFrames(j)
    BY <2>2 DEF SameFrames
  <2>4. Queued(id)'
    BY <1>1, <1>11, <2>1, <2>2, NoneIsNoId DEF Queued
  <2>5. Aligned(id)'
    <3>1. CASE ~errored \/ pending_stop[id] \notin {None, <<>>}
      BY <2>2, <3>1, BusyAligned
    <3>2. CASE errored /\ pending_stop[id] \in {None, <<>>}
      <4>1. CASE rec # RecordOf(id)
        <5>1. Restarts(id)
          BY <1>12, <3>2, <4>1 DEF Due
        <5>2. jobs[id] # <<>>
          BY <5>1 DEF Restarts
        <5>3. job'[id] # "none"
          BY <1>1, <1>11, <5>2
        <5>. QED  BY <5>3, BusyAligned
      <4>2. CASE rec = RecordOf(id)
        <5>1. rec = "installed" /\ preview # id
          BY <1>15, <3>2, <4>2 DEF RecordOf
        <5>2. ~Wanted(id)'
          BY <1>5, <2>1, <3>2, <5>1 DEF Wanted, IsEnabled
        <5>. QED  BY <1>5, <3>2, <5>2 DEF Aligned
      <4>. QED  BY <4>1, <4>2
    <3>. QED  BY <3>1, <3>2
  <2>. QED  BY <1>9, <1>10, <1>13, <2>3, <2>4, <2>5 DEF ConvAt, SameAt
<1>. QED  BY <1>14, <1>15

LEMMA StartExtensionsConv ==
  ASSUME TypeOK, ConvInv, StartExtensions
  PROVE  ConvInv'
<1>1. SUFFICES ASSUME NEW id \in Ids PROVE ConvAt(id)'
  BY DEF ConvInv
<1>2. /\ UNCHANGED <<runtime, pending_stop, jobs, job, draining, stack, preview, proc, file, userDir, cli>>
      /\ starting' = {i \in Ids : Resolves(i)}
      /\ cache'[id] = IF Resolves(id) THEN Cached(id) ELSE cache[id]
  BY DEF StartExtensions
<1>3. Cached(id)' = Cached(id)
  <2>1. Cached(id) \in Conf /\ Cached(id) # None
    BY RecordTypes, NoneIsNoId
  <2>. QED  BY <1>2, <2>1 DEF Cached, Reloaded
<1>4. Wanted(id)' <=> Wanted(id)
  BY <1>2, <1>3 DEF Wanted, Resolves, IsEnabled, Installed
<1>5. Wanted(id) /\ Visited(id)' => Visited(id)
  BY <1>2 DEF Wanted, Visited
<1>6. Aligned(id) /\ Queued(id) /\ Recorded(id)
  BY DEF ConvInv, ConvAt
<1>7. Quiet(id)' => Quiet(id)
  BY <1>2 DEF Quiet, Leading, Held
<1>8. Aligned(id)'
  BY <1>2, <1>4, <1>5, <1>6, <1>7 DEF Aligned
<1>9. Queued(id)'
  BY <1>2, <1>6 DEF Queued
<1>10. Recorded(id)'
  BY <1>2, <1>6 DEF Recorded, RecordOf, Due, Restarts, Held, Installed
<1>. QED  BY <1>8, <1>9, <1>10 DEF ConvAt

LEMMA StartNextConv ==
  ASSUME TypeOK, ProcOK, ConvInv, NEW id \in Ids, StartNext(id)
  PROVE  ConvAt(id)' /\ \A j \in Ids : j # id => SameAt(j)
<1>1. /\ stack = <<>> /\ stack \in Seq(Frames) /\ starting' = starting \ {id}
      /\ UNCHANGED <<activated, job, userDir, cli>>
  BY DEF StartNext, TypeOK
<1>2. Aligned(id) /\ Queued(id) /\ Recorded(id)
  BY DEF ConvInv, ConvAt
<1>3. CASE /\ Cached(id).enabled /\ runtime[id] = None
           /\ job[id] = "none" /\ pending_stop[id] = None
           /\ StartExtension(id, Cached(id), <<>>)
  <2>. DEFINE conf == Cached(id)
  <2>1. conf \in Conf
    BY RecordTypes
  <2>2. /\ StartExtension(id, conf, stack) /\ conf.enabled /\ runtime[id] = None
        /\ job[id] = "none" /\ pending_stop[id] = None
    BY <1>1, <1>3
  <2>. HIDE DEF conf
  <2>3. /\ draining[id] => On(stack, "drain", id)
        /\ jobs[id] # <<>> => On(stack, "drain", id)
    BY <1>1, <2>2, AtRest
  <2>. QED  BY <1>1, <2>1, <2>2, <2>3, StartConv
<1>4. CASE /\ runtime[id] = None
           /\ job[id] # "none" \/ pending_stop[id] # None
           /\ LET cleared == [Cached(id) EXCEPT !.error = FALSE]
              IN  IF preview = id THEN UNCHANGED <<cache, file>>
                  ELSE cache' = [cache EXCEPT ![id] = cleared] /\ file' = [file EXCEPT ![id] = cleared]
           /\ UNCHANGED <<runtime, pending_stop, jobs, draining, stack, preview, previewLog, proc>>
  <2>1. \A j \in Ids : j # id => cache'[j] = cache[j] /\ file'[j] = file[j]
    BY <1>4 DEF TypeOK
  <2>2. ASSUME NEW j \in Ids, j # id
        PROVE  SameAt(j)
    BY <1>1, <1>4, <2>1, <2>2 DEF SameAt, SameVars, SameFrames, SamePids, Held, Visited
  <2>3. Aligned(id)'
    BY <1>1, <1>4, BusyAligned
  <2>4. Queued(id)'
    BY <1>1, <1>2, <1>4 DEF Queued
  <2>5. Recorded(id)'
    BY <1>1, <1>2, <1>4 DEF Recorded, RecordOf, Due, Restarts, Held, Installed
  <2>. QED  BY <2>2, <2>3, <2>4, <2>5 DEF ConvAt
<1>5. CASE /\ ~Cached(id).enabled \/ runtime[id] # None
           /\ UNCHANGED <<runtime, pending_stop, jobs, draining, stack, preview, previewLog, proc, cache, file>>
  <2>1. ASSUME NEW j \in Ids, j # id
        PROVE  SameAt(j)
    BY <1>1, <1>5, <2>1 DEF SameAt, SameVars, SameFrames, SamePids, Held, Visited
  <2>2. Aligned(id)'
    <3>1. Quiet(id)' => Quiet(id)
      BY <1>1, <1>5 DEF Quiet, Leading, Held
    <3>2. Wanted(id)' <=> Wanted(id)
      BY <1>1, <1>5 DEF Wanted, Resolves, IsEnabled, Installed, Cached, Reloaded
    <3>3. Wanted(id) /\ runtime[id] = None => preview = id
      BY <1>5 DEF Wanted, IsEnabled
    <3>. QED  BY <1>2, <1>5, <3>1, <3>2, <3>3 DEF Aligned, Visited
  <2>3. Queued(id)'
    BY <1>1, <1>2, <1>5 DEF Queued
  <2>4. Recorded(id)'
    BY <1>1, <1>2, <1>5 DEF Recorded, RecordOf, Due, Restarts, Held, Installed
  <2>. QED  BY <2>1, <2>2, <2>3, <2>4 DEF ConvAt
<1>. QED  BY <1>3, <1>4, <1>5 DEF StartNext

LEMMA RelaunchConv ==
  ASSUME TypeOK, ConvInv, Relaunch
  PROVE  ConvInv'
<1>1. SUFFICES ASSUME NEW id \in Ids PROVE ConvAt(id)'
  BY DEF ConvInv
<1>2. /\ stack = <<>> /\ stack' = stack /\ draining' = draining
      /\ activated' = FALSE /\ runtime'[id] = None /\ jobs'[id] = <<>> /\ preview' = None
      /\ \A p \in Pids : proc'[p] = Free
  BY DEF Relaunch, MainLoop
<1>3. Aligned(id)'
  BY <1>2, NoneIsNoId DEF Aligned, Visited
<1>4. Queued(id)'
  BY <1>2, AtRest DEF Queued
<1>5. Recorded(id)'
  BY <1>2 DEF Recorded, Held, Free
<1>. QED  BY <1>3, <1>4, <1>5 DEF ConvAt

LEMMA ReloadConv ==
  ASSUME TypeOK, ProcOK, ConvInv, NEW id \in Ids, Reload(id)
  PROVE  ConvAt(id)' /\ \A j \in Ids : j # id => SameAt(j)
<1>1. /\ stack = <<>> /\ cli[id].pc = "written"
      /\ UNCHANGED <<activated, starting, runtime, pending_stop, job, preview, proc, file, userDir>>
  BY DEF Reload, MainLoop
<1>2. /\ \A j \in Ids : j # id => cli'[j] = cli[j] /\ cache'[j] = cache[j] /\ jobs'[j] = jobs[j]
      /\ ~Resolves(id) => cache' = cache
  BY DEF Reload, Load, TypeOK
<1>3. Recorded(id)
  BY <1>1, AtRest
<1>4. CASE jobs' = [jobs EXCEPT ![id] = Append(@, "restart")] /\ EnterDrain(id, <<>>)
  <2>1. /\ Aligned(id)' /\ Queued(id)'
        /\ \A j \in Ids : j # id => draining'[j] = draining[j] /\ SameFrames(j)
    BY <1>1, <1>4, MainEnters
  <2>2. ASSUME NEW j \in Ids, j # id
        PROVE  SameAt(j)
    BY <1>1, <1>2, <2>1, <2>2 DEF SameAt, SameVars, SamePids, Held, Visited
  <2>3. jobs'[id] = Append(jobs[id], "restart") /\ "restart" \in Kinds
    BY <1>4 DEF TypeOK, Kinds
  <2>4. Due(id)'
    BY <2>3, AppendKeeps DEF Due
  <2>5. Recorded(id)'
    BY <1>1, <1>3, <2>4 DEF Recorded, Held
  <2>. QED  BY <2>1, <2>2, <2>5 DEF ConvAt
<1>5. CASE /\ ~(Resolves(id) \/ runtime[id] # None \/ pending_stop[id] # None \/ job[id] # "none")
           /\ UNCHANGED <<jobs, draining, stack>>
  <2>1. ASSUME NEW j \in Ids, j # id
        PROVE  SameAt(j)
    BY <1>1, <1>2, <1>5, <2>1 DEF SameAt, SameVars, SameFrames, SamePids, Held, Visited
  <2>2. ~Wanted(id)'
    BY <1>1, <1>5 DEF Wanted, Resolves, Installed
  <2>3. Aligned(id)'
    BY <1>1, <1>5, <2>2 DEF Aligned
  <2>4. Queued(id)'
    BY <1>1, <1>5 DEF Queued, ConvInv, ConvAt
  <2>5. Held(id) = {}
    BY <1>5, IdleHeld
  <2>6. Recorded(id)'
    BY <1>1, <2>5 DEF Recorded, Held
  <2>. QED  BY <2>1, <2>3, <2>4, <2>6 DEF ConvAt
<1>. QED  BY <1>4, <1>5 DEF Reload

-----------------------------------------------------------------------------
(* Other processes *)

LEMMA ProcDiesConv ==
  ASSUME TypeOK, ConvInv, NEW p \in Pids, ProcDies(p)
  PROVE  ConvInv'
<1>1. proc[p].id \in Ids /\ proc[p].status # "free"
  <2>1. proc[p] \in Procs /\ proc[p].status # "free"
    BY DEF ProcDies, TypeOK
  <2>. QED  BY <2>1 DEF Procs
<1>2. SUFFICES ASSUME NEW id \in Ids, id = proc[p].id
               PROVE  ConvAt(id)' /\ \A j \in Ids : j # id => SameAt(j)
  BY <1>1, OneIdKeeps
<1>3. /\ \E status \in {"crashed", "stopped"} : proc' = Marked(p, status)
      /\ UNCHANGED <<activated, starting, runtime, pending_stop, jobs, job, draining, stack, preview,
                     cache, file, userDir, cli>>
  BY DEF ProcDies, service, disk
<1>4. /\ \A q \in Pids : proc'[q].rec = proc[q].rec /\ proc'[q].copy = proc[q].copy
      /\ \A i \in Ids : Held(i)' = Held(i)
      /\ \A i \in Ids : i # proc[p].id => SamePids(i)
      /\ proc'[p].status # "alive"
  BY <1>1, <1>3, MarkedKeeps
<1>5. ASSUME NEW j \in Ids, j # id
      PROVE  SameAt(j)
  BY <1>2, <1>3, <1>4, <1>5 DEF SameAt, SameVars, SameFrames, Visited
<1>6. p \in Held(id)'
  BY <1>1, <1>2, <1>4 DEF Held
<1>7. Aligned(id)'
  BY <1>4, <1>6 DEF Aligned, Quiet
<1>8. Queued(id)'
  BY <1>3 DEF Queued, ConvInv, ConvAt
<1>9. Recorded(id)
  BY DEF ConvInv, ConvAt
<1>10. \A q \in Held(id)' : q \in Held(id) /\ proc'[q].rec = proc[q].rec /\ proc'[q].copy = proc[q].copy
  BY <1>4 DEF Held
<1>11. Recorded(id)'
  BY <1>3, <1>4, <1>9, <1>10 DEF Recorded, RecordOf, Due, Restarts, Installed
<1>. QED  BY <1>5, <1>7, <1>8, <1>11 DEF ConvAt

\* What the CLI changes it tells the app of: until then its id is not asked to be aligned.
LEMMA CliConv ==
  ASSUME TypeOK, ConvInv, NEW id \in Ids, Cli(id)
  PROVE  ConvAt(id)' /\ \A j \in Ids : j # id => SameAt(j)
<1>1. UNCHANGED <<activated, starting, runtime, pending_stop, jobs, job, draining, stack, preview, proc, cache>>
  BY DEF Cli, CliDownload, CliSwap, CliRemove, CliDisable, service, disk
<1>2. \A j \in Ids : j # id => userDir'[j] = userDir[j] /\ file'[j] = file[j] /\ cli'[j] = cli[j]
  BY DEF Cli, CliDownload, CliSwap, CliRemove, CliDisable, TypeOK, disk
<1>3. ASSUME NEW j \in Ids, j # id
      PROVE  SameAt(j)
  BY <1>1, <1>2, <1>3 DEF SameAt, SameVars, SameFrames, SamePids, Held, Visited
<1>4. \/ cli'[id].pc \in Writing
      \/ /\ UNCHANGED <<userDir, file>>
         /\ cli[id].pc \notin Writing /\ cli'[id].pc \notin Writing
  BY DEF Cli, CliDownload, CliSwap, CliRemove, CliDisable, TypeOK, Writing, disk, CliIdle
<1>5. CASE cli'[id].pc \in Writing
  <2>1. Queued(id) /\ Recorded(id)
    BY DEF ConvInv, ConvAt
  <2>2. Queued(id)'
    BY <1>1, <2>1 DEF Queued
  <2>3. Recorded(id)'
    BY <1>1, <1>5, <2>1 DEF Recorded, RecordOf, Due, Restarts, Held
  <2>. QED  BY <1>3, <1>5, <2>2, <2>3, BusyAligned DEF ConvAt
<1>6. CASE UNCHANGED <<userDir, file>> /\ cli[id].pc \notin Writing /\ cli'[id].pc \notin Writing
  <2>1. SameAt(id)
    BY <1>1, <1>6 DEF SameAt, SameVars, SameFrames, SamePids, Held, Visited
  <2>2. ConvAt(id)
    BY DEF ConvInv
  <2>. QED  BY <1>3, <2>1, <2>2, SameKeeps
<1>. QED  BY <1>4, <1>5, <1>6

-----------------------------------------------------------------------------
(* The theorem *)

LEMMA ConvInit == Init => ConvInv
<1>1. SUFFICES ASSUME Init, NEW id \in Ids PROVE ConvAt(id)
  BY DEF ConvInv
<1>2. Aligned(id)
  BY <1>1, NoneIsNoId DEF Init, Aligned, Visited
<1>3. Queued(id)
  BY <1>1, NoneIsNoId DEF Init, Queued, On
<1>4. Recorded(id)
  BY <1>1 DEF Init, Recorded, Held, Free
<1>. QED  BY <1>2, <1>3, <1>4 DEF ConvAt

LEMMA ConvStep == IInv /\ ConvInv /\ [Next]_vars => ConvInv'
<1>. SUFFICES ASSUME IInv, ConvInv, [Next]_vars PROVE ConvInv'
  OBVIOUS
<1>0. TypeOK /\ ProcOK /\ ExitInv /\ JobInv
  BY DEF IInv, ProcOK
<1>1. CASE \E id \in Ids : RunFrame(id)
  BY <1>0, <1>1, FrameConv
<1>2. CASE \E id \in Ids :
             \/ StartNext(id) \/ RemoteDone(id) \/ Reload(id) \/ Cli(id)
             \/ \E enabled \in BOOLEAN : Toggle(id, enabled)
             \/ \E kind \in Kinds \ {"restart"} : Request(id, kind)
  <2>1. PICK id \in Ids :
             \/ StartNext(id) \/ RemoteDone(id) \/ Reload(id) \/ Cli(id)
             \/ \E enabled \in BOOLEAN : Toggle(id, enabled)
             \/ \E kind \in Kinds \ {"restart"} : Request(id, kind)
    BY <1>2
  <2>2. ConvAt(id)' /\ \A j \in Ids : j # id => SameAt(j)
    BY <1>0, <2>1, StartNextConv, RemoteDoneConv, ReloadConv, CliConv, ToggleConv, RequestConv
  <2>. QED  BY <2>2, OneIdKeeps
<1>3. CASE (\E id \in Ids : PreviewExt(id)) \/ StartExtensions \/ StopPreview \/ Relaunch
  BY <1>0, <1>3, PreviewExtConv, StartExtensionsConv, StopPreviewConv, RelaunchConv
<1>4. CASE \E p \in Pids : HandleExit(p) \/ ProcDies(p)
  BY <1>0, <1>4, HandleExitConv, ProcDiesConv
<1>5. CASE UNCHANGED vars
  <2>1. \A id \in Ids : SameAt(id)
    BY <1>5 DEF vars, service, disk, SameAt, SameVars, SameFrames, SamePids, Held, Visited
  <2>. QED  BY <2>1, SameKeeps DEF ConvInv
<1>. QED  BY <1>1, <1>2, <1>3, <1>4, <1>5 DEF Next

\* What the invariant says of an id with nothing outstanding.
LEMMA ConvResult == IInv /\ ConvInv => Converged
<1>. SUFFICES ASSUME IInv, ConvInv, NEW id \in Ids, Settled(id)
              PROVE  LET p == runtime[id]
                     IN  IF ~(Resolves(id) /\ IsEnabled(id, Cached(id))) THEN p = None
                         ELSE /\ p # None
                              /\ proc[p].rec = (IF preview = id THEN "preview" ELSE "installed")
                              /\ proc[p].copy = (IF preview = id THEN "dev" ELSE Installed(id))
  BY DEF Converged
<1>1. /\ activated /\ stack = <<>> /\ starting = {}
      /\ job[id] = "none" /\ pending_stop[id] = None /\ cli[id].pc \notin Writing
      /\ \A p \in Held(id) : proc[p].status = "alive"
  BY DEF Settled, MainLoop, Writing
<1>2. TypeOK /\ ProcInv
  BY DEF IInv
<1>3. /\ \A op : ~On(stack, op, id)
      /\ jobs[id] # <<>> => job[id] # "none"
      /\ Aligned(id) /\ Recorded(id)
  BY <1>1, <1>2, AtRest
<1>4. Quiet(id) /\ Visited(id)
  BY <1>1, <1>3 DEF Quiet, Leading, Visited
<1>5. runtime[id] # None <=> Wanted(id)
  BY <1>3, <1>4 DEF Aligned
<1>6. ~Due(id)
  BY <1>1, <1>3 DEF Due, Restarts
<1>7. CASE Wanted(id)
  <2>1. runtime[id] # None /\ runtime[id] \in Held(id)
    BY <1>2, <1>5, <1>7 DEF ProcInv, TypeOK, Held
  <2>. QED  BY <1>1, <1>3, <1>6, <1>7, <2>1 DEF Recorded, RecordOf, Wanted
<1>8. CASE ~Wanted(id)
  BY <1>5, <1>8 DEF Wanted
<1>. QED  BY <1>7, <1>8

\* Once nothing is outstanding, an id runs exactly when its record resolves and
\* is enabled, and its process is of the copy and the overlay in force.
THEOREM Converges == Spec => []Converged
<1>1. Init => IInv /\ ConvInv
  BY InvInit, ConvInit
<1>2. IInv /\ ConvInv /\ [Next]_vars => (IInv /\ ConvInv)'
  BY InvStep, ConvStep
<1>3. IInv /\ ConvInv => Converged
  BY ConvResult
<1>. QED  BY <1>1, <1>2, <1>3, PTL DEF Spec

=============================================================================
