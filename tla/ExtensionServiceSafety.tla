----------------------- MODULE ExtensionServiceSafety -----------------------
(* AtMostOneProcess and NoOrphanProcess are invariants of ExtensionService, *)
(* for any ids, processes, versions, requests and queue bound.              *)
EXTENDS ExtensionServiceProofs

ProcOK == AtMostOneProcess /\ ProcInv

\* The processes of the ids stay the same ones, and a running one stays running or crashes.
SameProcs ==
  \A q \in Pids :
    /\ proc'[q].status = "free" <=> proc[q].status = "free"
    /\ proc'[q].id = proc[q].id
    /\ proc[q].status \in {"alive", "crashed"} => proc'[q].status \in {"alive", "crashed"}

NoExit(s) == \A k \in 1..Len(s) : s[k].op # "exit_rest"

\* exit_rest of `id` is the n-th frame and the only one.
ExitAt(s, n, id) ==
  /\ n \in 1..Len(s) /\ s[n] = Frame("exit_rest", id)
  /\ \A k \in 1..Len(s) : k # n => s[k].op # "exit_rest"

\* What ExitInv says of exit_rest of `id` at position n.
ExitShape(n, id) ==
  /\ preview = None
  /\ \/ n = 1
     \/ /\ runtime[id] = None
        /\ \/ n = 2 /\ stack[1] = Frame("reconcile", id)
           \/ n = 2 /\ stack[1] = Frame("drain", id) /\ draining[id]
           \/ /\ n = 3 /\ stack[1].op \in Callbacks /\ stack[1].id = id
              /\ stack[2] = Frame("drain", id) /\ draining[id]
  /\ pending_stop[id] # None => Held(id) = {}

-----------------------------------------------------------------------------
(* Where exit_rest is on a stack *)

LEMMA ExitPush ==
  ASSUME NEW s \in Seq(Frames), NEW f \in Frames, f.op # "exit_rest"
  PROVE  /\ NoExit(s) => NoExit(Push(f, s))
         /\ \A n, id : ExitAt(s, n, id) => ExitAt(Push(f, s), n + 1, id)
<1>1. /\ Push(f, s) \in Seq(Frames) /\ Len(Push(f, s)) = Len(s) + 1 /\ Len(s) \in Nat
      /\ Push(f, s)[1] = f
      /\ \A k \in 1..Len(s) : Push(f, s)[k + 1] = s[k]
  BY PushFacts DEF Push
<1>2. \A k \in 1..Len(Push(f, s)) : k = 1 \/ (k - 1 \in 1..Len(s) /\ Push(f, s)[k] = s[k - 1])
  <2> SUFFICES ASSUME NEW k \in 1..Len(Push(f, s)), k # 1
               PROVE  k - 1 \in 1..Len(s) /\ Push(f, s)[k] = s[k - 1]
    OBVIOUS
  <2>1. k - 1 \in 1..Len(s) /\ (k - 1) + 1 = k
    BY <1>1
  <2>2. QED
    BY <1>1, <2>1
<1>3. ASSUME NoExit(s) PROVE NoExit(Push(f, s))
  BY <1>1, <1>2, <1>3 DEF NoExit
<1>4. ASSUME NEW n, NEW id, ExitAt(s, n, id)
      PROVE  ExitAt(Push(f, s), n + 1, id)
  <2>1. n \in 1..Len(s) /\ s[n] = Frame("exit_rest", id)
        /\ \A k \in 1..Len(s) : k # n => s[k].op # "exit_rest"
    BY <1>4 DEF ExitAt
  <2>2. n + 1 \in 1..Len(Push(f, s)) /\ Push(f, s)[n + 1] = Frame("exit_rest", id)
    BY <1>1, <2>1
  <2>3. ASSUME NEW k \in 1..Len(Push(f, s)), k # n + 1
        PROVE  Push(f, s)[k].op # "exit_rest"
    <3>1. CASE k = 1
      BY <1>1, <3>1
    <3>2. CASE k # 1
      <4>1. k - 1 \in 1..Len(s) /\ Push(f, s)[k] = s[k - 1]
        BY <1>2, <3>2
      <4>2. k - 1 # n
        BY <1>1, <2>1, <2>3
      <4>3. QED
        BY <2>1, <4>1, <4>2
    <3>3. QED
      BY <3>1, <3>2
  <2>4. QED
    BY <2>2, <2>3 DEF ExitAt
<1>5. QED
  BY <1>3, <1>4

LEMMA ExitTail ==
  ASSUME NEW s \in Seq(Frames), s # <<>>
  PROVE  /\ NoExit(s) => NoExit(Tail(s))
         /\ \A n, id : ExitAt(s, n, id) /\ n # 1 => ExitAt(Tail(s), n - 1, id)
         /\ \A id : ExitAt(s, 1, id) => NoExit(Tail(s))
<1>1. /\ Len(s) \in Nat /\ Len(s) >= 1
      /\ Tail(s) \in Seq(Frames) /\ Len(Tail(s)) = Len(s) - 1
      /\ \A k \in 1..(Len(s) - 1) : Tail(s)[k] = s[k + 1]
  BY TailFacts
<1>2. \A k \in 1..Len(Tail(s)) : k + 1 \in 1..Len(s) /\ k + 1 # 1 /\ Tail(s)[k] = s[k + 1]
  BY <1>1
<1>3. ASSUME NoExit(s) PROVE NoExit(Tail(s))
  BY <1>2, <1>3 DEF NoExit
<1>4. ASSUME NEW n, NEW id, ExitAt(s, n, id), n # 1
      PROVE  ExitAt(Tail(s), n - 1, id)
  <2>1. n \in 1..Len(s) /\ s[n] = Frame("exit_rest", id)
        /\ \A k \in 1..Len(s) : k # n => s[k].op # "exit_rest"
    BY <1>4 DEF ExitAt
  <2>2. n - 1 \in 1..Len(Tail(s)) /\ (n - 1) + 1 = n
    BY <1>1, <1>4, <2>1
  <2>3. Tail(s)[n - 1] = Frame("exit_rest", id)
    BY <1>2, <2>1, <2>2
  <2>4. \A k \in 1..Len(Tail(s)) : k # n - 1 => k + 1 # n
    BY <1>1, <2>1
  <2>5. \A k \in 1..Len(Tail(s)) : k # n - 1 => Tail(s)[k].op # "exit_rest"
    BY <1>2, <2>1, <2>4
  <2>6. QED
    BY <2>2, <2>3, <2>5 DEF ExitAt
<1>5. ASSUME NEW id, ExitAt(s, 1, id) PROVE NoExit(Tail(s))
  BY <1>2, <1>5 DEF ExitAt, NoExit
<1>6. QED
  BY <1>3, <1>4, <1>5

\* Putting exit_rest on a stack without one, and concatenating stacks without one.
LEMMA ExitNew ==
  ASSUME NEW s \in Seq(Frames), NEW id \in Ids, NoExit(s)
  PROVE  ExitAt(Push(Frame("exit_rest", id), s), 1, id)
<1> DEFINE f == Frame("exit_rest", id)
<1>1. f \in Frames
  BY FrameType DEF Ops
<1>2. /\ Len(Push(f, s)) = Len(s) + 1 /\ Len(s) \in Nat
      /\ Push(f, s)[1] = f
      /\ \A k \in 1..Len(s) : Push(f, s)[k + 1] = s[k]
  BY <1>1, PushFacts DEF Push
<1>3. ASSUME NEW k \in 1..Len(Push(f, s)), k # 1
      PROVE  Push(f, s)[k].op # "exit_rest"
  <2>1. k - 1 \in 1..Len(s) /\ (k - 1) + 1 = k
    BY <1>2, <1>3
  <2>2. QED
    BY <1>2, <2>1 DEF NoExit
<1>4. QED
  BY <1>2, <1>3 DEF ExitAt

LEMMA ExitConcat ==
  ASSUME NEW s \in Seq(Frames), NEW t \in Seq(Frames), NoExit(s), NoExit(t)
  PROVE  NoExit(s \o t)
<1>1. /\ Len(s \o t) = Len(s) + Len(t) /\ Len(s) \in Nat /\ Len(t) \in Nat
      /\ \A k \in 1..Len(s) : (s \o t)[k] = s[k]
      /\ \A k \in 1..(Len(s) + Len(t)) : k > Len(s) => (s \o t)[k] = t[k - Len(s)]
  OBVIOUS
<1>2. ASSUME NEW k \in 1..Len(s \o t) PROVE (s \o t)[k].op # "exit_rest"
  <2>1. CASE k \in 1..Len(s)
    BY <1>1, <2>1 DEF NoExit
  <2>2. CASE k > Len(s)
    <3>1. k - Len(s) \in 1..Len(t)
      BY <1>1, <2>2
    <3>2. QED
      BY <1>1, <2>2, <3>1 DEF NoExit
  <2>3. QED
    BY <1>1, <2>1, <2>2
<1>3. QED
  BY <1>2 DEF NoExit

LEMMA CallsNoExit ==
  ASSUME NEW id \in Ids, NEW cbs \in Seq(Callbacks)
  PROVE  NoExit(Calls(id, cbs))
<1>1. \A k \in 1..Len(cbs) : cbs[k] \in Callbacks
  OBVIOUS
<1>2. ASSUME NEW k \in 1..Len(Calls(id, cbs)) PROVE Calls(id, cbs)[k].op # "exit_rest"
  <2>1. k \in 1..Len(cbs) /\ Calls(id, cbs)[k] = Frame(cbs[k], id)
    BY CallsType
  <2>2. QED
    BY <1>1, <2>1 DEF Frame, Callbacks
<1>3. QED
  BY <1>2 DEF NoExit

-----------------------------------------------------------------------------
(* What the building blocks do to the processes *)

\* An id that is neither running nor stopping has no process.
LEMMA IdleHeld ==
  ASSUME TypeOK, ProcOK, NEW id \in Ids, runtime[id] = None, pending_stop[id] = None
  PROVE  Held(id) = {}
<1>1. None \notin Pids
  BY ServiceAssumption
<1>2. QED
  BY <1>1 DEF ProcOK, ProcInv, Held

LEMMA SameProcsKeep ==
  ASSUME TypeOK, ProcOK, SameProcs, UNCHANGED <<runtime, pending_stop>>
  PROVE  ProcOK' /\ \A id \in Ids : Held(id)' = Held(id)
<1>1. \A id \in Ids : Held(id)' = Held(id)
  BY DEF SameProcs, Held
<1>2. AtMostOneProcess'
  BY DEF SameProcs, ProcOK, AtMostOneProcess
<1>3. \A id \in Ids : runtime[id] # None => runtime[id] \in Pids
  BY DEF TypeOK
<1>4. ProcInv'
  BY <1>3 DEF SameProcs, ProcOK, ProcInv
<1>5. QED
  BY <1>1, <1>2, <1>4 DEF ProcOK

\* Marking an alive process as stopping, and what else _stop changes.
LEMMA StopKeeps ==
  ASSUME TypeOK, ProcOK, NEW id \in Ids, NEW cbs \in Seq(Callbacks), NEW rest \in Seq(Frames),
         StopProcess(id, cbs, rest)
  PROVE  /\ ProcOK'
         /\ \A i \in Ids : Held(i)' = Held(i)
         /\ \A i \in Ids : i # id => runtime'[i] = runtime[i] /\ pending_stop'[i] = pending_stop[i]
         /\ runtime'[id] = None
         /\ runtime[id] = None => (pending_stop'[id] = None <=> pending_stop[id] = None)
<1>1. None \notin Pids /\ None \notin Seq(Callbacks)
  BY ServiceAssumption
<1>2. CASE runtime[id] # None
  <2> DEFINE p == runtime[id]
  <2>1. p \in Pids /\ proc[p].id = id /\ proc[p].status \in {"alive", "crashed"}
    BY <1>2 DEF TypeOK, ProcOK, ProcInv
  <2>2. /\ runtime' = [runtime EXCEPT ![id] = None]
        /\ pending_stop' = [pending_stop EXCEPT ![id] = cbs]
        /\ proc' = IF proc[p].status = "alive" THEN Marked(p, "stopping") ELSE proc
    BY <1>2 DEF StopProcess
  <2>3. \A q \in Pids : /\ proc'[q].status = "free" <=> proc[q].status = "free"
                        /\ proc'[q].id = proc[q].id
                        /\ q # p => proc'[q].status = proc[q].status
    <3>1. CASE proc[p].status = "alive"
      <4>1. \A q \in Pids : /\ Marked(p, "stopping")[q].status = IF q = p THEN "stopping" ELSE proc[q].status
                            /\ Marked(p, "stopping")[q].id = proc[q].id
        <5>1. p \in Pids /\ proc[p].status # "free" /\ proc \in [Pids -> Procs]
          BY <2>1 DEF TypeOK
        <5> HIDE DEF p
        <5>2. QED
          BY <5>1, MarkedFacts
      <4>2. QED
        BY <2>1, <2>2, <3>1, <4>1
    <3>2. CASE proc[p].status # "alive"
      BY <2>2, <3>2
    <3>3. QED
      BY <3>1, <3>2
  <2>4. /\ \A i \in Ids : i # id => runtime'[i] = runtime[i] /\ pending_stop'[i] = pending_stop[i]
        /\ runtime'[id] = None /\ pending_stop'[id] = cbs /\ cbs # None
    BY <1>1, <2>2 DEF TypeOK
  <2> HIDE DEF p
  <2>5. \A i \in Ids : Held(i)' = Held(i)
    BY <2>3 DEF Held
  <2>6. AtMostOneProcess'
    BY <2>3 DEF ProcOK, AtMostOneProcess
  <2>7. ProcInv'
    <3>1. ASSUME NEW i \in Ids, runtime'[i] # None
          PROVE  /\ proc'[runtime'[i]].id = i
                 /\ proc'[runtime'[i]].status \in {"alive", "crashed"}
                 /\ pending_stop'[i] = None
      <4>1. i # id /\ runtime'[i] = runtime[i] /\ pending_stop'[i] = pending_stop[i]
        BY <2>4, <3>1
      <4>2. runtime[i] \in Pids /\ proc[runtime[i]].id = i /\ pending_stop[i] = None
            /\ proc[runtime[i]].status \in {"alive", "crashed"}
        BY <3>1, <4>1 DEF TypeOK, ProcOK, ProcInv
      <4>3. runtime[i] # p
        BY <2>1, <4>1, <4>2
      <4>4. QED
        BY <2>3, <4>1, <4>2, <4>3
    <3>2. ASSUME NEW q \in Pids, proc'[q].status # "free"
          PROVE  /\ proc'[q].id \in Ids
                 /\ \/ runtime'[proc'[q].id] = q
                    \/ runtime'[proc'[q].id] = None /\ pending_stop'[proc'[q].id] # None
      <4>1. proc[q].status # "free" /\ proc'[q].id = proc[q].id
        BY <2>3, <3>2
      <4>2. proc[q].id \in Ids /\ \/ runtime[proc[q].id] = q
                                  \/ runtime[proc[q].id] = None /\ pending_stop[proc[q].id] # None
        BY <4>1 DEF ProcOK, ProcInv
      <4>3. QED
        BY <2>4, <4>1, <4>2
    <3>3. QED
      BY <3>1, <3>2 DEF ProcInv
  <2>8. QED
    BY <1>2, <2>4, <2>5, <2>6, <2>7 DEF ProcOK
<1>3. CASE runtime[id] = None
  <2>1. UNCHANGED <<runtime, proc>>
    BY <1>3, Zenon DEF StopProcess
  <2>2. /\ \A i \in Ids : i # id => pending_stop'[i] = pending_stop[i]
        /\ pending_stop'[id] = None <=> pending_stop[id] = None
    <3>1. CASE pending_stop[id] # None
      <4>1. pending_stop[id] \in Seq(Callbacks)
        BY <3>1 DEF TypeOK
      <4>2. pending_stop[id] \o cbs \in Seq(Callbacks)
        BY <4>1
      <4>3. pending_stop' = [pending_stop EXCEPT ![id] = pending_stop[id] \o cbs]
        BY <1>3, <3>1 DEF StopProcess
      <4>4. QED
        BY <1>1, <3>1, <4>2, <4>3 DEF TypeOK
    <3>2. CASE pending_stop[id] = None
      BY <1>3, <3>2 DEF StopProcess
    <3>3. QED
      BY <3>1, <3>2
  <2>3. \A i \in Ids : Held(i)' = Held(i)
    BY <2>1 DEF Held
  <2>4. AtMostOneProcess'
    BY <2>1 DEF ProcOK, AtMostOneProcess
  <2>5. \A i \in Ids : pending_stop'[i] = None <=> pending_stop[i] = None
    BY <2>2
  <2>6. ProcInv'
    BY <2>1, <2>5 DEF ProcOK, ProcInv
  <2>7. QED
    BY <1>3, <2>1, <2>2, <2>3, <2>4, <2>6 DEF ProcOK
<1>4. QED
  BY <1>2, <1>3

\* A stop may be forgotten, and the running process with it, once the id has no process.
LEMMA ForgetKeeps ==
  ASSUME TypeOK, ProcOK, NEW id \in Ids, Held(id) = {},
         UNCHANGED proc,
         \A i \in Ids : i # id => runtime'[i] = runtime[i] /\ pending_stop'[i] = pending_stop[i],
         runtime'[id] = None
  PROVE  ProcOK' /\ \A i \in Ids : Held(i)' = Held(i)
<1>1. \A i \in Ids : Held(i)' = Held(i)
  BY DEF Held
<1>2. AtMostOneProcess'
  BY DEF ProcOK, AtMostOneProcess
<1>3. \A q \in Pids : proc[q].status # "free" => proc[q].id # id
  BY DEF Held
<1>4. ProcInv'
  BY <1>3 DEF ProcOK, ProcInv
<1>5. QED
  BY <1>1, <1>2, <1>4 DEF ProcOK

\* The id of a process that has exited loses it, and nothing else changes.
LEMMA LostKeeps ==
  ASSUME TypeOK, ProcOK, NEW id \in Ids, NEW errored \in BOOLEAN,
         \A q \in Pids : proc'[q].status # "free" =>
           proc'[q] = proc[q] /\ proc[q].id # id,
         \A q \in Pids : proc[q].status # "free" /\ proc[q].id # id => proc'[q] = proc[q],
         runtime' = IF errored THEN [runtime EXCEPT ![id] = None] ELSE runtime,
         ~errored => runtime[id] = None,
         \A i \in Ids : i # id => pending_stop'[i] = pending_stop[i]
  PROVE  ProcOK' /\ Held(id)' = {} /\ runtime'[id] = None
<1>1. /\ runtime'[id] = None
      /\ \A i \in Ids : i # id => runtime'[i] = runtime[i]
  BY DEF TypeOK
<1>2. Held(id)' = {}
  BY DEF Held
<1>3. AtMostOneProcess'
  BY DEF ProcOK, AtMostOneProcess
<1>4. ASSUME NEW i \in Ids, runtime'[i] # None
      PROVE  /\ proc'[runtime'[i]].id = i
             /\ proc'[runtime'[i]].status \in {"alive", "crashed"}
             /\ pending_stop'[i] = None
  <2>1. i # id /\ runtime'[i] = runtime[i] /\ pending_stop'[i] = pending_stop[i]
    BY <1>1, <1>4
  <2>2. runtime[i] \in Pids /\ proc[runtime[i]].id = i /\ pending_stop[i] = None
        /\ proc[runtime[i]].status \in {"alive", "crashed"}
    BY <1>4, <2>1 DEF TypeOK, ProcOK, ProcInv
  <2>3. QED
    BY <2>1, <2>2
<1>5. ASSUME NEW q \in Pids, proc'[q].status # "free"
      PROVE  /\ proc'[q].id \in Ids
             /\ \/ runtime'[proc'[q].id] = q
                \/ runtime'[proc'[q].id] = None /\ pending_stop'[proc'[q].id] # None
  <2>1. proc'[q] = proc[q] /\ proc[q].id # id
    BY <1>5
  <2>2. proc[q].id \in Ids /\ \/ runtime[proc[q].id] = q
                              \/ runtime[proc[q].id] = None /\ pending_stop[proc[q].id] # None
    BY <1>5, <2>1 DEF ProcOK, ProcInv
  <2>3. QED
    BY <1>1, <2>1, <2>2
<1>6. QED
  BY <1>1, <1>2, <1>3, <1>4, <1>5 DEF ProcOK, ProcInv

\* A process is started in a free slot, for an id that has none.
LEMMA SpawnKeeps ==
  ASSUME TypeOK, ProcOK, NEW id \in Ids, runtime[id] = None, pending_stop[id] = None,
         NEW p \in Pids, proc[p].status = "free", NEW r \in Procs, r.status = "alive", r.id = id,
         proc' = [proc EXCEPT ![p] = r],
         runtime' = [runtime EXCEPT ![id] = p],
         UNCHANGED pending_stop
  PROVE  ProcOK'
<1>1. proc'[p] = r /\ \A q \in Pids : q # p => proc'[q] = proc[q]
  BY DEF TypeOK
<1>2. runtime'[id] = p /\ \A i \in Ids : i # id => runtime'[i] = runtime[i]
  BY DEF TypeOK
<1>3. \A q \in Pids : proc[q].status # "free" => proc[q].id # id
  BY IdleHeld DEF Held
<1>4. AtMostOneProcess'
  BY <1>1, <1>3 DEF ProcOK, AtMostOneProcess
<1>5. ASSUME NEW i \in Ids, runtime'[i] # None
      PROVE  /\ proc'[runtime'[i]].id = i
             /\ proc'[runtime'[i]].status \in {"alive", "crashed"}
             /\ pending_stop'[i] = None
  <2>1. CASE i = id
    BY <1>1, <1>2, <2>1
  <2>2. CASE i # id
    <3>1. runtime'[i] = runtime[i] /\ runtime[i] \in Pids
      BY <1>2, <1>5, <2>2 DEF TypeOK
    <3>2. proc[runtime[i]].id = i /\ pending_stop[i] = None
          /\ proc[runtime[i]].status \in {"alive", "crashed"}
      BY <1>5, <3>1 DEF ProcOK, ProcInv
    <3>3. runtime[i] # p
      BY <3>2
    <3>4. QED
      BY <1>1, <3>1, <3>2, <3>3
  <2>3. QED
    BY <2>1, <2>2
<1>6. ASSUME NEW q \in Pids, proc'[q].status # "free"
      PROVE  /\ proc'[q].id \in Ids
             /\ \/ runtime'[proc'[q].id] = q
                \/ runtime'[proc'[q].id] = None /\ pending_stop'[proc'[q].id] # None
  <2>1. CASE q = p
    BY <1>1, <1>2, <2>1
  <2>2. CASE q # p
    <3>1. proc'[q] = proc[q]
      BY <1>1, <2>2
    <3>2. proc[q].id \in Ids /\ proc[q].id # id
          /\ \/ runtime[proc[q].id] = q
             \/ runtime[proc[q].id] = None /\ pending_stop[proc[q].id] # None
      BY <1>3, <1>6, <3>1 DEF ProcOK, ProcInv
    <3>3. QED
      BY <1>2, <3>1, <3>2
  <2>3. QED
    BY <2>1, <2>2
<1>7. QED
  BY <1>4, <1>5, <1>6 DEF ProcOK, ProcInv

-----------------------------------------------------------------------------
(* exit_rest and the stack *)

LEMMA ExitInvNone == ASSUME NoExit(stack') PROVE ExitInv'
BY DEF NoExit, ExitInv

LEMMA ExitInvAt ==
  ASSUME NEW n, NEW id, ExitAt(stack', n, id), ExitShape(n, id)'
  PROVE  ExitInv'
<1>1. \A k \in 1..Len(stack') : stack'[k].op = "exit_rest" => k = n
  BY DEF ExitAt
<1>2. stack'[n].id = id
  BY DEF ExitAt, Frame
<1>3. QED
  BY <1>1, <1>2 DEF ExitInv, ExitShape

\* There is at most one exit_rest on the stack.
LEMMA ExitInvCases ==
  ASSUME TypeOK, ExitInv
  PROVE  \/ NoExit(stack)
         \/ \E n \in 1..3, id \in Ids : ExitAt(stack, n, id) /\ ExitShape(n, id)
<1> SUFFICES ASSUME NEW n \in 1..Len(stack), stack[n].op = "exit_rest"
             PROVE  \E m \in 1..3, id \in Ids : ExitAt(stack, m, id) /\ ExitShape(m, id)
  BY DEF NoExit
<1>1. stack[n] \in Frames
  BY DEF TypeOK
<1>2. stack[n].id \in Ids /\ stack[n] = Frame("exit_rest", stack[n].id)
  BY <1>1 DEF Frames, Frame
<1>3. \A k \in 1..Len(stack) : stack[k].op = "exit_rest" => ExitShape(k, stack[k].id)
  BY DEF ExitInv, ExitShape
<1>4. \A k \in 1..Len(stack) : stack[k].op = "exit_rest" =>
        \/ k = 1
        \/ k = 2 /\ stack[1].op # "exit_rest"
        \/ k = 3 /\ stack[1].op # "exit_rest" /\ stack[2].op # "exit_rest"
  <2>1. \A i : Frame("reconcile", i).op # "exit_rest" /\ Frame("drain", i).op # "exit_rest"
    BY DEF Frame
  <2>2. \A c \in Callbacks : c # "exit_rest"
    BY DEF Callbacks
  <2>3. QED
    BY <1>3, <2>1, <2>2 DEF ExitShape
<1>5. n \in 1..3
  BY <1>4
<1>6. \A k \in 1..Len(stack) : k # n => stack[k].op # "exit_rest"
  BY <1>4
<1>7. ExitAt(stack, n, stack[n].id)
  BY <1>2, <1>6 DEF ExitAt
<1>8. QED
  BY <1>2, <1>3, <1>5, <1>7

\* An exit handler above a stack without exit_rest: it leaves one only below the restart of the
\* preview it tears down.
LEMMA ExitHandlerInv ==
  ASSUME TypeOK, ProcOK, NEW id \in Ids, NEW rec, NEW errored \in BOOLEAN, NEW conf \in Conf,
         NEW rest \in Seq(Frames), NoExit(rest),
         ExitHandler(id, rec, errored, conf, rest),
         \A q \in Pids : proc'[q].status # "free" =>
           proc'[q] = proc[q] /\ proc[q].id # id,
         \A q \in Pids : proc[q].status # "free" /\ proc[q].id # id => proc'[q] = proc[q],
         ~errored => runtime[id] = None
  PROVE  ProcOK' /\ ExitInv'
<1>1. runtime' = IF errored THEN [runtime EXCEPT ![id] = None] ELSE runtime
  BY DEF ExitHandler
<1>2. CASE errored /\ rec = "preview"
  <2>1. /\ preview' = None
        /\ EnterDrain(id, Push(Frame("exit_rest", id), rest))
        /\ UNCHANGED pending_stop
    BY <1>2 DEF ExitHandler
  <2>2. ProcOK' /\ Held(id)' = {} /\ runtime'[id] = None
    BY <1>1, <2>1, LostKeeps
  <2> DEFINE below == Push(Frame("exit_rest", id), rest)
  <2>3. below \in Seq(Frames) /\ ExitAt(below, 1, id)
    BY FrameType, PushFacts, ExitNew DEF Ops
  <2>4. /\ draining'[id]
        /\ stack' = IF draining[id] THEN below ELSE Push(Frame("drain", id), below)
    BY <2>1 DEF EnterDrain, TypeOK
  <2> HIDE DEF below
  <2>5. CASE draining[id]
    <3>1. ExitAt(stack', 1, id)
      BY <2>3, <2>4, <2>5
    <3>2. ExitShape(1, id)'
      BY <2>1, <2>2 DEF ExitShape
    <3>3. QED
      BY <2>2, <3>1, <3>2, ExitInvAt
  <2>6. CASE ~draining[id]
    <3>1. Frame("drain", id) \in Frames /\ Frame("drain", id).op # "exit_rest"
      BY DEF Frame, Frames, Ops
    <3>2. stack' = Push(Frame("drain", id), below)
      BY <2>4, <2>6
    <3>3. ExitAt(stack', 1 + 1, id)
      BY <2>3, <3>1, <3>2, ExitPush
    <3>4. ExitAt(stack', 2, id)
      BY <3>3
    <3>5. stack'[1] = Frame("drain", id)
      BY <2>3, <3>1, <3>2, PushFacts
    <3>6. ExitShape(2, id)'
      BY <2>1, <2>2, <2>4, <3>5 DEF ExitShape
    <3>7. QED
      BY <2>2, <3>4, <3>6, ExitInvAt
  <2>7. QED
    BY <2>5, <2>6
<1>3. CASE ~(errored /\ rec = "preview")
  <2>1. DrainStop(id, errored, rest)
    BY <1>3 DEF ExitHandler
  <2>2. \A i \in Ids : i # id => pending_stop'[i] = pending_stop[i]
    BY <2>1 DEF DrainStop, TypeOK
  <2>3. ProcOK'
    BY <1>1, <2>2, LostKeeps
  <2> DEFINE cbs   == IF pending_stop[id] = None THEN <<>> ELSE pending_stop[id]
             recon == IF errored THEN <<>> ELSE <<Frame("reconcile", id)>>
  <2>4. stack' = (Calls(id, cbs) \o recon) \o rest
    BY <2>1 DEF DrainStop
  <2>5. Calls(id, cbs) \in Seq(Frames) /\ NoExit(Calls(id, cbs))
    <3>1. cbs \in Seq(Callbacks)
      BY DEF TypeOK
    <3>2. QED
      BY <3>1, CallsType, CallsNoExit
  <2>6. recon \in Seq(Frames) /\ NoExit(recon)
    <3>1. Frame("reconcile", id) \in Frames /\ Frame("reconcile", id).op # "exit_rest"
      BY DEF Frame, Frames, Ops
    <3>2. QED
      BY <3>1 DEF NoExit
  <2> HIDE DEF cbs, recon
  <2>7. Calls(id, cbs) \o recon \in Seq(Frames) /\ NoExit(Calls(id, cbs) \o recon)
    BY <2>5, <2>6, ExitConcat
  <2>8. NoExit(stack')
    BY <2>4, <2>7, ExitConcat
  <2>9. QED
    BY <2>3, <2>8, ExitInvNone
<1>4. QED
  BY <1>2, <1>3

\* Without an overlay and a stop in flight, a handler of a failed start leaves the stack alone.
LEMMA NoCallbacks ==
  ASSUME NEW id \in Ids, NEW rest \in Seq(Frames)
  PROVE  (Calls(id, <<>>) \o <<>>) \o rest = rest
<1>1. Calls(id, <<>>) \in Seq(Frames) /\ Len(Calls(id, <<>>)) = 0
  <2>1. <<>> \in Seq(Callbacks) /\ Len(<<>>) = 0
    OBVIOUS
  <2>2. QED
    BY <2>1, CallsType
<1>2. Calls(id, <<>>) = <<>>
  BY <1>1
<1>3. QED
  BY <1>2

LEMMA StartExtensionInv ==
  ASSUME TypeOK, ProcOK, NEW id \in Ids, NEW conf \in Conf, NEW rest \in Seq(Frames),
         runtime[id] = None, pending_stop[id] = None,
         StartExtension(id, conf, rest)
  PROVE  /\ ProcOK'
         /\ NoExit(rest) => ExitInv'
         /\ preview = None => stack' = rest /\ preview' = None /\ pending_stop'[id] = None
<1> DEFINE rec     == IF preview = id THEN "preview" ELSE "installed"
           copy    == IF preview = id THEN "dev" ELSE Installed(id)
           cleared == IF preview = id THEN conf ELSE [conf EXCEPT !.error = FALSE]
           r       == [status |-> "alive", id |-> id, rec |-> rec, copy |-> copy]
<1>1. CASE \E p \in Pids :
             /\ proc[p].status = "free" /\ copy # None
             /\ proc' = [proc EXCEPT ![p] = r]
             /\ runtime' = [runtime EXCEPT ![id] = p]
             /\ stack' = rest
             /\ UNCHANGED <<pending_stop, preview>>
  <2>1. PICK p \in Pids :
             /\ proc[p].status = "free" /\ copy # None
             /\ proc' = [proc EXCEPT ![p] = r]
             /\ runtime' = [runtime EXCEPT ![id] = p]
             /\ stack' = rest
             /\ UNCHANGED <<pending_stop, preview>>
    BY <1>1
  <2>2. r \in Procs /\ r.status = "alive" /\ r.id = id
    <3>1. copy \in Copies
      BY <2>1, RecordTypes DEF Copies
    <3>2. QED
      BY <3>1 DEF Procs
  <2>3. ProcOK'
    <3> HIDE DEF r, copy
    <3> QED BY <2>1, <2>2, SpawnKeeps
  <2>4. NoExit(rest) => ExitInv'
    BY <2>1, ExitInvNone
  <2>5. QED
    BY <2>1, <2>3, <2>4
<1>2. CASE ExitHandler(id, rec, TRUE, cleared, rest) /\ UNCHANGED proc
  <2>1. cleared \in Conf
    BY ConfFacts
  <2>2. \A q \in Pids : proc[q].status # "free" => proc[q].id # id
    BY IdleHeld DEF Held
  <2>3. /\ \A q \in Pids : proc'[q].status # "free" => proc'[q] = proc[q] /\ proc[q].id # id
        /\ \A q \in Pids : proc[q].status # "free" /\ proc[q].id # id => proc'[q] = proc[q]
    BY <1>2, <2>2
  <2>4. NoExit(rest) => ExitInv'
    <3> HIDE DEF rec, cleared
    <3> QED BY <1>2, <2>1, <2>3, ExitHandlerInv
  <2>5. ProcOK'
    <3>1. runtime' = [runtime EXCEPT ![id] = None]
      BY <1>2 DEF ExitHandler
    <3>2. \A i \in Ids : i # id => pending_stop'[i] = pending_stop[i]
      BY <1>2 DEF ExitHandler, DrainStop, TypeOK
    <3>3. QED
      BY <2>3, <3>1, <3>2, LostKeeps
  <2>6. ASSUME preview = None
        PROVE  stack' = rest /\ preview' = None /\ pending_stop'[id] = None
    <3>1. preview # id
      BY <2>6, ServiceAssumption
    <3>2. DrainStop(id, TRUE, rest) /\ UNCHANGED preview
      BY <1>2, <3>1 DEF ExitHandler
    <3>3. stack' = (Calls(id, <<>>) \o <<>>) \o rest
      BY <3>2 DEF DrainStop
    <3>4. pending_stop'[id] = None
      BY <3>2 DEF DrainStop, TypeOK
    <3>5. QED
      BY <2>6, <3>2, <3>3, <3>4, NoCallbacks
  <2>7. QED
    BY <2>4, <2>5, <2>6
<1>3. QED
  BY <1>1, <1>2, Zenon DEF StartExtension

-----------------------------------------------------------------------------
(* The frames *)

\* Which frame is on top when exit_rest is on the stack.
LEMMA AboveExit ==
  ASSUME TypeOK, NEW op \in Ops, NEW id \in Ids, Runs(op, id),
         NEW n \in 1..3, NEW i \in Ids, ExitAt(stack, n, i), ExitShape(n, i)
  PROVE  /\ i = id
         /\ \/ op = "exit_rest" /\ n = 1
            \/ op = "reconcile" /\ n = 2 /\ runtime[id] = None
            \/ op = "drain" /\ n = 2 /\ runtime[id] = None /\ draining[id]
            \/ /\ op \in Callbacks /\ n = 3 /\ runtime[id] = None /\ draining[id]
               /\ stack[2] = Frame("drain", id)
<1>1. stack # <<>> /\ stack \in Seq(Frames) /\ stack[1] = Frame(op, id)
  BY TailFacts DEF Runs, TypeOK
<1>2. \A o1 \in Ops, o2 \in Ops, a \in Ids, b \in Ids :
        Frame(o1, a) = Frame(o2, b) => o1 = o2 /\ a = b
  BY DEF Frame
<1>3. Frame(op, id).op = op /\ Frame(op, id).id = id
  BY FrameType
<1>4. "exit_rest" \in Ops /\ "reconcile" \in Ops /\ "drain" \in Ops
  BY DEF Ops
<1>5. CASE n = 1
  BY <1>1, <1>2, <1>4, <1>5 DEF ExitAt
<1>6. CASE n # 1
  BY <1>1, <1>2, <1>3, <1>4, <1>6 DEF ExitShape
<1>7. QED
  BY <1>5, <1>6

\* The stack of a frame action, and the frames it may push.
LEMMA FrameStack ==
  ASSUME TypeOK, NEW op \in Ops, NEW id \in Ids, Runs(op, id)
  PROVE  /\ stack \in Seq(Frames) /\ stack # <<>>
         /\ Tail(stack) \in Seq(Frames)
         /\ Len(stack) >= 2 => Tail(stack) # <<>> /\ Tail(stack)[1] = stack[2]
         /\ \A f \in Ops \ {"exit_rest"} : Frame(f, id) \in Frames /\ Frame(f, id).op # "exit_rest"
<1>1. stack \in Seq(Frames) /\ stack # <<>>
  BY DEF Runs, TypeOK
<1>2. /\ Len(stack) \in Nat /\ Tail(stack) \in Seq(Frames)
      /\ Len(Tail(stack)) = Len(stack) - 1
      /\ \A k \in 1..(Len(stack) - 1) : Tail(stack)[k] = stack[k + 1]
  BY <1>1, TailFacts
<1>3. Len(stack) >= 2 => Tail(stack) # <<>> /\ Tail(stack)[1] = stack[2]
  <2> SUFFICES ASSUME Len(stack) >= 2 PROVE Tail(stack) # <<>> /\ Tail(stack)[1] = stack[2]
    OBVIOUS
  <2>1. Tail(stack)[1] = stack[2]
    BY <1>1
  <2>2. Len(Tail(stack)) # 0 /\ Len(<<>>) = 0
    BY <1>2
  <2>3. Tail(stack) # <<>>
    BY <2>2
  <2>4. QED
    BY <2>1, <2>3
<1>4. \A f \in Ops \ {"exit_rest"} : Frame(f, id) \in Frames /\ Frame(f, id).op # "exit_rest"
  BY FrameType
<1>5. QED
  BY <1>1, <1>2, <1>3, <1>4

LEMMA PushTop ==
  ASSUME NEW s \in Seq(Frames), s # <<>>, NEW f \in Frames
  PROVE  Push(f, s)[1] = f /\ Push(f, s)[2] = s[1]
BY DEF Push

LEMMA DrainDoneSafe ==
  ASSUME TypeOK, ProcOK, ExitInv, NEW id \in Ids, DrainDone(id)
  PROVE  ProcOK' /\ ExitInv'
<1>1. /\ Runs("drain", id) /\ "drain" \in Ops
      /\ UNCHANGED <<runtime, pending_stop, preview, proc>>
      /\ \/ stack' = Tail(stack)
         \/ stack' = Push(Frame("reconcile", id), Tail(stack))
  BY DEF DrainDone, Ops
<1>2. /\ stack \in Seq(Frames) /\ stack # <<>> /\ Tail(stack) \in Seq(Frames)
      /\ Frame("reconcile", id) \in Frames /\ Frame("reconcile", id).op # "exit_rest"
  BY <1>1, FrameStack DEF Ops
<1>3. ProcOK' /\ \A i \in Ids : Held(i)' = Held(i)
  BY <1>1, SameProcsKeep DEF SameProcs
<1>4. CASE NoExit(stack)
  <2>1. NoExit(stack')
    BY <1>1, <1>2, <1>4, ExitTail, ExitPush
  <2>2. QED
    BY <1>3, <2>1, ExitInvNone
<1>5. CASE \E n \in 1..3, i \in Ids : ExitAt(stack, n, i) /\ ExitShape(n, i)
  <2>1. PICK n \in 1..3, i \in Ids : ExitAt(stack, n, i) /\ ExitShape(n, i)
    BY <1>5
  <2>2. i = id /\ n = 2 /\ runtime[id] = None
    BY <1>1, <2>1, AboveExit DEF Callbacks
  <2>3. ExitAt(Tail(stack), 1, id)
    <3>1. ExitAt(Tail(stack), 2 - 1, id)
      BY <1>2, <2>1, <2>2, ExitTail
    <3>2. QED
      BY <3>1
  <2>4. preview' = None /\ runtime'[id] = None /\ (pending_stop'[id] # None => Held(id)' = {})
    BY <1>1, <1>3, <2>1, <2>2 DEF ExitShape
  <2>5. CASE stack' = Tail(stack)
    <3>1. ExitShape(1, id)'
      BY <2>4 DEF ExitShape
    <3>2. QED
      BY <1>3, <2>3, <2>5, <3>1, ExitInvAt
  <2>6. CASE stack' = Push(Frame("reconcile", id), Tail(stack))
    <3>1. ExitAt(stack', 1 + 1, id)
      BY <1>2, <2>3, <2>6, ExitPush
    <3>2. ExitAt(stack', 2, id)
      BY <3>1
    <3>3. stack'[1] = Frame("reconcile", id)
      BY <1>2, <2>6, PushFacts
    <3>4. ExitShape(2, id)'
      BY <2>4, <3>3 DEF ExitShape
    <3>5. QED
      BY <1>3, <3>2, <3>4, ExitInvAt
  <2>7. QED
    BY <1>1, <2>5, <2>6
<1>6. QED
  BY <1>4, <1>5, ExitInvCases

LEMMA ReleaseSafe ==
  ASSUME TypeOK, ProcOK, ExitInv, NEW id \in Ids, Release(id)
  PROVE  ProcOK' /\ ExitInv'
<1>1. /\ Runs("release", id) /\ "release" \in Ops /\ "release" \in Callbacks
      /\ UNCHANGED <<runtime, pending_stop, preview, proc>>
      /\ EnterDrain(id, Tail(stack))
  BY DEF Release, Ops, Callbacks
<1>2. /\ stack \in Seq(Frames) /\ stack # <<>> /\ Tail(stack) \in Seq(Frames)
      /\ Frame("drain", id) \in Frames /\ Frame("drain", id).op # "exit_rest"
  BY <1>1, FrameStack DEF Ops
<1>3. ProcOK' /\ \A i \in Ids : Held(i)' = Held(i)
  BY <1>1, SameProcsKeep DEF SameProcs
<1>4. CASE NoExit(stack)
  <2>1. NoExit(stack')
    BY <1>1, <1>2, <1>4, ExitTail, ExitPush DEF EnterDrain
  <2>2. QED
    BY <1>3, <2>1, ExitInvNone
<1>5. CASE \E n \in 1..3, i \in Ids : ExitAt(stack, n, i) /\ ExitShape(n, i)
  <2>1. PICK n \in 1..3, i \in Ids : ExitAt(stack, n, i) /\ ExitShape(n, i)
    BY <1>5
  <2>2. i = id /\ n = 3 /\ runtime[id] = None /\ draining[id] /\ stack[2] = Frame("drain", id)
    BY <1>1, <2>1, AboveExit DEF Callbacks
  <2>3. stack' = Tail(stack) /\ draining'[id]
    BY <1>1, <2>2 DEF EnterDrain, TypeOK
  <2>4. ExitAt(stack', 2, id)
    <3>1. ExitAt(Tail(stack), 3 - 1, id)
      BY <1>2, <2>1, <2>2, ExitTail
    <3>2. QED
      BY <2>3, <3>1
  <2>5. stack'[1] = Frame("drain", id)
    <3>1. 3 \in 1..Len(stack)
      BY <2>1, <2>2 DEF ExitAt
    <3>2. Tail(stack)[1] = stack[2]
      BY <1>1, <1>2, <3>1, FrameStack
    <3>3. QED
      BY <2>2, <2>3, <3>2
  <2>6. ExitShape(2, id)'
    BY <1>1, <1>3, <2>1, <2>2, <2>3, <2>5 DEF ExitShape
  <2>7. QED
    BY <1>3, <2>4, <2>6, ExitInvAt
<1>6. QED
  BY <1>4, <1>5, ExitInvCases

\* Swap, SwapSystem and Remove: the callback is replaced by the release of its job.
LEMMA CallbackSafe ==
  ASSUME TypeOK, ProcOK, ExitInv, NEW id \in Ids, Swap(id) \/ SwapSystem(id) \/ Remove(id)
  PROVE  ProcOK' /\ ExitInv'
<1>1. /\ \E cb \in Callbacks : Runs(cb, id)
      /\ UNCHANGED <<runtime, pending_stop, preview, proc, draining>>
      /\ stack' = Push(Frame("release", id), Tail(stack))
  BY DEF Swap, SwapSystem, Remove, Callbacks
<1>2. PICK cb \in Callbacks : Runs(cb, id)
  BY <1>1
<1>3. cb \in Ops /\ cb \notin {"exit_rest", "reconcile", "drain"} /\ "release" \in Callbacks
  BY DEF Ops, Callbacks
<1>4. /\ stack \in Seq(Frames) /\ stack # <<>> /\ Tail(stack) \in Seq(Frames)
      /\ Frame("release", id) \in Frames /\ Frame("release", id).op # "exit_rest"
      /\ Frame("release", id).op = "release" /\ Frame("release", id).id = id
  BY <1>2, <1>3, FrameStack, FrameType DEF Ops
<1>5. ProcOK' /\ \A i \in Ids : Held(i)' = Held(i)
  BY <1>1, SameProcsKeep DEF SameProcs
<1>6. CASE NoExit(stack)
  <2>1. NoExit(stack')
    BY <1>1, <1>4, <1>6, ExitTail, ExitPush
  <2>2. QED
    BY <1>5, <2>1, ExitInvNone
<1>7. CASE \E n \in 1..3, i \in Ids : ExitAt(stack, n, i) /\ ExitShape(n, i)
  <2>1. PICK n \in 1..3, i \in Ids : ExitAt(stack, n, i) /\ ExitShape(n, i)
    BY <1>7
  <2>2. i = id /\ n = 3 /\ runtime[id] = None /\ draining[id] /\ stack[2] = Frame("drain", id)
    BY <1>2, <1>3, <2>1, AboveExit
  <2>3. ExitAt(stack', 3, id)
    <3>1. ExitAt(Tail(stack), 3 - 1, id)
      BY <1>4, <2>1, <2>2, ExitTail
    <3>2. ExitAt(stack', (3 - 1) + 1, id)
      BY <1>1, <1>4, <3>1, ExitPush
    <3>3. QED
      BY <3>2
  <2>4. stack'[1] = Frame("release", id) /\ stack'[2] = Frame("drain", id)
    <3>1. 3 \in 1..Len(stack)
      BY <2>1, <2>2 DEF ExitAt
    <3>2. Tail(stack)[1] = stack[2] /\ Tail(stack) # <<>>
      BY <1>2, <1>3, <1>4, <3>1, FrameStack
    <3>3. QED
      BY <1>1, <1>4, <2>2, <3>2, PushTop
  <2>5. ExitShape(3, id)'
    BY <1>1, <1>3, <1>4, <1>5, <2>1, <2>2, <2>4 DEF ExitShape
  <2>6. QED
    BY <1>5, <2>3, <2>5, ExitInvAt
<1>8. QED
  BY <1>6, <1>7, ExitInvCases

LEMMA ReconcileSafe ==
  ASSUME TypeOK, ProcOK, ExitInv, NEW id \in Ids, Reconcile(id)
  PROVE  ProcOK' /\ ExitInv'
<1> DEFINE conf == IF Resolves(id) THEN Reloaded(id) ELSE cache[id]
           rest == Tail(stack)
<1>1. Runs("reconcile", id) /\ "reconcile" \in Ops
  BY DEF Reconcile, Ops
<1>2. stack \in Seq(Frames) /\ stack # <<>> /\ rest \in Seq(Frames)
  BY <1>1, FrameStack
<1>3. \/ NoExit(rest) /\ NoExit(stack)
      \/ /\ ExitAt(rest, 1, id) /\ runtime[id] = None /\ preview = None
         /\ pending_stop[id] # None => Held(id) = {}
  <2>1. CASE NoExit(stack)
    BY <1>2, <2>1, ExitTail
  <2>2. CASE \E n \in 1..3, i \in Ids : ExitAt(stack, n, i) /\ ExitShape(n, i)
    <3>1. PICK n \in 1..3, i \in Ids : ExitAt(stack, n, i) /\ ExitShape(n, i)
      BY <2>2
    <3>2. i = id /\ n = 2 /\ runtime[id] = None
      BY <1>1, <3>1, AboveExit DEF Callbacks
    <3>3. ExitAt(rest, 2 - 1, id)
      BY <1>2, <3>1, <3>2, ExitTail
    <3>4. QED
      BY <3>1, <3>2, <3>3 DEF ExitShape
  <2>3. QED
    BY <2>1, <2>2, ExitInvCases
<1>4. CASE /\ runtime[id] = None /\ pending_stop[id] = None /\ Resolves(id)
           /\ StartExtension(id, conf, rest)
  <2>1. conf \in Conf
    BY <1>4, RecordTypes
  <2>2. /\ ProcOK'
        /\ NoExit(rest) => ExitInv'
        /\ preview = None => stack' = rest /\ preview' = None /\ pending_stop'[id] = None
    <3> HIDE DEF conf, rest
    <3> QED BY <1>2, <1>4, <2>1, StartExtensionInv
  <2>3. CASE NoExit(rest)
    BY <2>2, <2>3
  <2>4. CASE ExitAt(rest, 1, id) /\ preview = None
    <3>1. ExitShape(1, id)'
      BY <2>2, <2>4 DEF ExitShape
    <3>2. QED
      BY <2>2, <2>4, <3>1, ExitInvAt
  <2>5. QED
    BY <1>3, <2>3, <2>4
<1>5. CASE StopProcess(id, <<>>, rest) /\ runtime[id] # None /\ UNCHANGED preview
  <2>1. <<>> \in Seq(Callbacks)
    OBVIOUS
  <2>2. ProcOK'
    BY <1>2, <1>5, <2>1, StopKeeps
  <2>3. NoExit(rest) /\ stack' = rest
    BY <1>3, <1>5, Zenon DEF StopProcess
  <2>4. QED
    BY <2>2, <2>3, ExitInvNone
<1>6. CASE stack' = rest /\ UNCHANGED <<runtime, pending_stop, preview, proc>>
  <2>1. ProcOK' /\ \A i \in Ids : Held(i)' = Held(i)
    BY <1>6, SameProcsKeep DEF SameProcs
  <2>2. CASE NoExit(rest)
    BY <1>6, <2>1, <2>2, ExitInvNone
  <2>3. CASE ExitAt(rest, 1, id) /\ preview = None /\ (pending_stop[id] # None => Held(id) = {})
    <3>1. ExitShape(1, id)'
      BY <1>6, <2>1, <2>3 DEF ExitShape
    <3>2. QED
      BY <1>6, <2>1, <2>3, <3>1, ExitInvAt
  <2>4. QED
    BY <1>3, <2>2, <2>3
<1>7. \/ /\ runtime[id] = None /\ pending_stop[id] = None /\ Resolves(id)
         /\ StartExtension(id, conf, rest)
      \/ StopProcess(id, <<>>, rest) /\ runtime[id] # None /\ UNCHANGED preview
      \/ stack' = rest /\ UNCHANGED <<runtime, pending_stop, preview, proc>>
  BY Zenon DEF Reconcile
<1>8. QED
  BY <1>4, <1>5, <1>6, <1>7

LEMMA StopStack ==
  ASSUME NEW id \in Ids, NEW cb \in Callbacks, NEW rest \in Seq(Frames),
         StopProcess(id, <<cb>>, rest)
  PROVE  stack' \in {rest, Push(Frame(cb, id), rest)}
<1>1. ASSUME NEW t \in Seq(Callbacks), Len(t) = 1, t[1] = cb
      PROVE  /\ Calls(id, t) \in Seq(Frames) /\ Len(Calls(id, t)) = 1
             /\ Calls(id, t)[1] = Frame(cb, id)
  BY <1>1, CallsType
<1>2. /\ Calls(id, <<cb>>) \in Seq(Frames) /\ Len(Calls(id, <<cb>>)) = 1
      /\ Calls(id, <<cb>>)[1] = Frame(cb, id)
  BY <1>1
<1>3. Calls(id, <<cb>>) = <<Frame(cb, id)>>
  BY <1>2
<1>4. stack' = rest \/ stack' = Calls(id, <<cb>>) \o rest
  BY Zenon DEF StopProcess
<1>5. QED
  BY <1>3, <1>4 DEF Push

LEMMA StartJobSafe ==
  ASSUME TypeOK, ProcOK, ExitInv, NEW id \in Ids, StartJob(id)
  PROVE  ProcOK' /\ ExitInv'
<1>1. Runs("drain", id) /\ "drain" \in Ops /\ UNCHANGED <<preview, draining>>
  BY DEF StartJob, Ops
<1>2. stack \in Seq(Frames) /\ stack # <<>> /\ stack[1] = Frame("drain", id)
  BY <1>1, FrameStack, TailFacts DEF Runs
<1>3. \E cb \in Callbacks :
        \/ stack' \in {stack, Push(Frame(cb, id), stack)} /\ UNCHANGED <<runtime, pending_stop, proc>>
        \/ StopProcess(id, <<cb>>, stack)
  BY DEF StartJob, Callbacks
<1>4. PICK cb \in Callbacks :
        \/ stack' \in {stack, Push(Frame(cb, id), stack)} /\ UNCHANGED <<runtime, pending_stop, proc>>
        \/ StopProcess(id, <<cb>>, stack)
  BY <1>3
<1>5. stack' \in {stack, Push(Frame(cb, id), stack)}
  BY <1>2, <1>4, StopStack
<1>6. /\ ProcOK'
      /\ \A i \in Ids : Held(i)' = Held(i)
      /\ runtime[id] = None => /\ runtime'[id] = None
                               /\ pending_stop'[id] = None <=> pending_stop[id] = None
  <2>1. CASE UNCHANGED <<runtime, pending_stop, proc>>
    BY <2>1, SameProcsKeep DEF SameProcs
  <2>2. CASE StopProcess(id, <<cb>>, stack)
    <3>1. <<cb>> \in Seq(Callbacks)
      OBVIOUS
    <3>2. QED
      BY <1>2, <2>2, <3>1, StopKeeps
  <2>3. QED
    BY <1>4, <2>1, <2>2
<1>7. /\ Frame(cb, id) \in Frames /\ Frame(cb, id).op # "exit_rest"
      /\ Frame(cb, id).op \in Callbacks /\ Frame(cb, id).id = id
  BY DEF Frame, Frames, Ops, Callbacks
<1>8. CASE NoExit(stack)
  <2>1. NoExit(stack')
    BY <1>2, <1>5, <1>7, <1>8, ExitPush
  <2>2. QED
    BY <1>6, <2>1, ExitInvNone
<1>9. CASE \E n \in 1..3, i \in Ids : ExitAt(stack, n, i) /\ ExitShape(n, i)
  <2>1. PICK n \in 1..3, i \in Ids : ExitAt(stack, n, i) /\ ExitShape(n, i)
    BY <1>9
  <2>2. i = id /\ n = 2 /\ runtime[id] = None /\ draining[id]
    BY <1>1, <2>1, AboveExit DEF Callbacks
  <2>3. /\ preview' = None /\ runtime'[id] = None /\ draining'[id]
        /\ pending_stop'[id] # None => Held(id)' = {}
    BY <1>1, <1>6, <2>1, <2>2 DEF ExitShape
  <2>4. CASE stack' = stack
    <3>1. ExitShape(2, id)'
      BY <1>2, <2>3, <2>4 DEF ExitShape
    <3>2. QED
      BY <1>6, <2>1, <2>2, <2>4, <3>1, ExitInvAt
  <2>5. CASE stack' = Push(Frame(cb, id), stack)
    <3>1. ExitAt(stack', 2 + 1, id)
      BY <1>2, <1>7, <2>1, <2>2, <2>5, ExitPush
    <3>2. ExitAt(stack', 3, id)
      BY <3>1
    <3>3. stack'[1] = Frame(cb, id) /\ stack'[2] = Frame("drain", id)
      BY <1>2, <1>7, <2>5, PushTop
    <3>4. ExitShape(3, id)'
      BY <1>7, <2>3, <3>3 DEF ExitShape
    <3>5. QED
      BY <1>6, <3>2, <3>4, ExitInvAt
  <2>6. QED
    BY <1>5, <2>4, <2>5
<1>10. QED
  BY <1>8, <1>9, ExitInvCases

\* The stop is forgotten when its process is gone: what ExitInv is for.
LEMMA ExitRestSafe ==
  ASSUME TypeOK, ProcOK, ExitInv, NEW id \in Ids, ExitRest(id)
  PROVE  ProcOK' /\ ExitInv'
<1>1. /\ Runs("exit_rest", id) /\ "exit_rest" \in Ops
      /\ DrainStop(id, TRUE, Tail(stack)) /\ UNCHANGED <<runtime, proc>>
  BY DEF ExitRest, Ops
<1>2. stack \in Seq(Frames) /\ stack # <<>> /\ Tail(stack) \in Seq(Frames)
      /\ stack[1] = Frame("exit_rest", id) /\ 1 \in 1..Len(stack)
  BY <1>1, FrameStack, TailFacts DEF Runs
<1>3. NoExit(Tail(stack)) /\ (pending_stop[id] # None => Held(id) = {})
  <2>1. ~NoExit(stack)
    BY <1>2 DEF NoExit, Frame
  <2>2. PICK n \in 1..3, i \in Ids : ExitAt(stack, n, i) /\ ExitShape(n, i)
    BY <2>1, ExitInvCases
  <2>3. i = id /\ n = 1
    BY <1>1, <2>2, AboveExit DEF Callbacks
  <2>4. QED
    BY <1>2, <2>2, <2>3, ExitTail DEF ExitShape
<1>4. \A i \in Ids : pending_stop'[i] = IF i = id THEN None ELSE pending_stop[i]
  BY <1>1 DEF DrainStop, TypeOK
<1>5. ProcOK'
  <2>1. CASE pending_stop[id] = None
    <3>1. pending_stop' = pending_stop
      BY <1>1, <2>1 DEF DrainStop, TypeOK
    <3>2. QED
      BY <1>1, <3>1, SameProcsKeep DEF SameProcs
  <2>2. CASE pending_stop[id] # None
    <3>1. runtime[id] = None
      BY <2>2 DEF ProcOK, ProcInv
    <3>2. QED
      BY <1>1, <1>3, <1>4, <2>2, <3>1, ForgetKeeps
  <2>3. QED
    BY <2>1, <2>2
<1>6. NoExit(stack')
  <2> DEFINE cbs == IF pending_stop[id] = None THEN <<>> ELSE pending_stop[id]
  <2>1. stack' = (Calls(id, cbs) \o <<>>) \o Tail(stack)
    BY <1>1 DEF DrainStop
  <2>2. cbs \in Seq(Callbacks)
    BY DEF TypeOK
  <2> HIDE DEF cbs
  <2>3. Calls(id, cbs) \in Seq(Frames) /\ NoExit(Calls(id, cbs))
    BY <2>2, CallsType, CallsNoExit
  <2>4. Calls(id, cbs) \o <<>> = Calls(id, cbs)
    BY <2>3
  <2>5. QED
    BY <1>2, <1>3, <2>1, <2>3, <2>4, ExitConcat
<1>7. QED
  BY <1>5, <1>6, ExitInvNone

-----------------------------------------------------------------------------
(* The handlers *)

LEMMA HandleExitSafe ==
  ASSUME TypeOK, ProcOK, NEW p \in Pids, HandleExit(p)
  PROVE  ProcOK' /\ ExitInv'
<1> DEFINE id      == proc[p].id
           errored == proc[p].status = "crashed"
<1>1. /\ proc[p].status \in {"crashed", "stopped"}
      /\ ExitHandler(id, proc[p].rec, errored, Cached(id), <<>>)
      /\ proc' = [proc EXCEPT ![p] = Free]
  BY DEF HandleExit
<1>2. id \in Ids /\ errored \in BOOLEAN
  BY <1>1 DEF TypeOK, Procs
<1>3. Cached(id) \in Conf
  BY <1>2, RecordTypes
<1>4. proc'[p].status = "free" /\ \A q \in Pids : q # p => proc'[q] = proc[q]
  BY <1>1 DEF TypeOK, Free
<1>5. \A q \in Pids : q # p /\ proc[q].status # "free" => proc[q].id # id
  BY <1>1 DEF ProcOK, AtMostOneProcess
<1>6. ~errored => runtime[id] = None
  <2> SUFFICES ASSUME ~errored PROVE runtime[id] = None
    OBVIOUS
  <2>1. proc[p].status = "stopped"
    BY <1>1
  <2>2. runtime[id] # p
    BY <1>2, <2>1, ServiceAssumption DEF ProcOK, ProcInv
  <2>3. QED
    BY <2>1, <2>2 DEF ProcOK, ProcInv
<1>7. /\ \A q \in Pids : proc'[q].status # "free" => proc'[q] = proc[q] /\ proc[q].id # id
      /\ \A q \in Pids : proc[q].status # "free" /\ proc[q].id # id => proc'[q] = proc[q]
  BY <1>4, <1>5
<1>8. <<>> \in Seq(Frames) /\ NoExit(<<>>)
  BY DEF NoExit
<1>9. QED
  <2> HIDE DEF id, errored
  <2> QED BY <1>1, <1>2, <1>3, <1>6, <1>7, <1>8, ExitHandlerInv

LEMMA StartNextSafe ==
  ASSUME TypeOK, ProcOK, NEW id \in Ids, StartNext(id)
  PROVE  ProcOK' /\ ExitInv'
<1>1. <<>> \in Seq(Frames) /\ NoExit(<<>>) /\ Cached(id) \in Conf /\ stack = <<>>
  BY RecordTypes DEF StartNext, NoExit
<1>2. CASE /\ runtime[id] = None /\ pending_stop[id] = None
           /\ StartExtension(id, Cached(id), <<>>)
  BY <1>1, <1>2, StartExtensionInv
<1>3. CASE UNCHANGED <<runtime, pending_stop, stack, proc>>
  BY <1>1, <1>3, SameProcsKeep, ExitInvNone DEF SameProcs
<1>4. \/ /\ runtime[id] = None /\ pending_stop[id] = None
         /\ StartExtension(id, Cached(id), <<>>)
      \/ UNCHANGED <<runtime, pending_stop, stack, proc>>
  BY Zenon DEF StartNext
<1>5. QED
  BY <1>2, <1>3, <1>4

LEMMA QueueNoExit ==
  ASSUME NEW id \in Ids, EnterDrain(id, <<>>)
  PROVE  NoExit(stack')
<1>1. /\ <<>> \in Seq(Frames) /\ NoExit(<<>>)
      /\ Frame("drain", id) \in Frames /\ Frame("drain", id).op # "exit_rest"
  BY DEF NoExit, Frame, Frames, Ops
<1>2. QED
  BY <1>1, ExitPush DEF EnterDrain

\* A handler that only queues work: the processes stay as they are.
LEMMA QuietSafe ==
  ASSUME TypeOK, ProcOK, SameProcs, UNCHANGED <<runtime, pending_stop>>, NoExit(stack')
  PROVE  ProcOK' /\ ExitInv'
BY SameProcsKeep, ExitInvNone

LEMMA HandlersSafe ==
  ASSUME TypeOK, ProcOK, NEW id \in Ids,
         \/ \E enabled \in BOOLEAN : Toggle(id, enabled)
         \/ \E kind \in Kinds \ {"restart"} : Request(id, kind)
         \/ PreviewExt(id)
         \/ RemoteDone(id)
         \/ Reload(id)
  PROVE  ProcOK' /\ ExitInv'
<1>1. \A f \in Ops \ {"exit_rest"} : NoExit(<<Frame(f, id)>>)
  BY DEF NoExit, Frame
<1>2. NoExit(<<>>)
  BY DEF NoExit
<1>3. ASSUME NEW enabled \in BOOLEAN, Toggle(id, enabled)
      PROVE  ProcOK' /\ ExitInv'
  <2>1. stack' = <<Frame("reconcile", id)>> /\ UNCHANGED <<runtime, pending_stop, proc>>
    BY <1>3 DEF Toggle
  <2>2. NoExit(stack')
    BY <1>1, <2>1 DEF Ops
  <2>3. QED
    BY <2>1, <2>2, QuietSafe DEF SameProcs
<1>4. ASSUME NEW kind \in Kinds, Request(id, kind)
      PROVE  ProcOK' /\ ExitInv'
  <2>1. EnterDrain(id, <<>>) /\ UNCHANGED <<runtime, pending_stop, proc>>
    BY <1>4 DEF Request
  <2>2. QED
    BY <2>1, QueueNoExit, QuietSafe DEF SameProcs
<1>5. CASE PreviewExt(id)
  <2> DEFINE restarts == IF preview \in {None, id} THEN <<id>> ELSE <<preview, id>>
  <2>1. /\ stack' = [k \in DOMAIN restarts |-> Frame("drain", restarts[k])]
        /\ proc' = Supersede(proc)
        /\ UNCHANGED <<runtime, pending_stop>>
    BY <1>5 DEF PreviewExt
  <2>2. restarts \in Seq(Ids)
    BY DEF TypeOK
  <2> HIDE DEF restarts
  <2>3. NoExit(stack')
    <3>1. DOMAIN restarts = 1..Len(restarts) /\ Len(restarts) \in Nat
      BY <2>2
    <3>2. \A i : Frame("drain", i).op # "exit_rest"
      BY DEF Frame
    <3>3. Len(stack') = Len(restarts)
          /\ \A k \in 1..Len(restarts) : stack'[k] = Frame("drain", restarts[k])
      BY <2>1, <3>1
    <3>4. QED
      BY <3>2, <3>3 DEF NoExit
  <2>4. SameProcs
    BY <2>1, SupersedeType DEF SameProcs, TypeOK
  <2>5. QED
    BY <2>1, <2>3, <2>4, QuietSafe
<1>6. CASE RemoteDone(id)
  <2>1. \E cb \in Callbacks : \/ stack' = <<Frame(cb, id)>> /\ UNCHANGED <<runtime, pending_stop, proc>>
                              \/ StopProcess(id, <<cb>>, <<>>)
    BY <1>6 DEF RemoteDone, Callbacks
  <2>2. PICK cb \in Callbacks : \/ stack' = <<Frame(cb, id)>> /\ UNCHANGED <<runtime, pending_stop, proc>>
                                \/ StopProcess(id, <<cb>>, <<>>)
    BY <2>1
  <2>3. NoExit(<<Frame(cb, id)>>)
    BY <1>1 DEF Ops, Callbacks
  <2>4. CASE stack' = <<Frame(cb, id)>> /\ UNCHANGED <<runtime, pending_stop, proc>>
    BY <2>3, <2>4, QuietSafe DEF SameProcs
  <2>5. CASE StopProcess(id, <<cb>>, <<>>)
    <3>1. <<>> \in Seq(Frames) /\ <<cb>> \in Seq(Callbacks)
      OBVIOUS
    <3>2. ProcOK'
      BY <2>5, <3>1, StopKeeps
    <3>3. stack' = <<>> \/ stack' = Push(Frame(cb, id), <<>>)
      BY <2>5, <3>1, StopStack
    <3>4. Push(Frame(cb, id), <<>>) = <<Frame(cb, id)>>
      BY DEF Push
    <3>5. QED
      BY <1>2, <2>3, <3>2, <3>3, <3>4, ExitInvNone
  <2>6. QED
    BY <2>2, <2>4, <2>5
<1>7. CASE Reload(id)
  <2>1. /\ \/ EnterDrain(id, <<>>)
           \/ stack = <<>> /\ UNCHANGED stack
        /\ UNCHANGED <<runtime, pending_stop, proc>>
    BY <1>7 DEF Reload, MainLoop
  <2>2. NoExit(stack')
    BY <1>2, <2>1, QueueNoExit
  <2>3. QED
    BY <2>1, <2>2, QuietSafe DEF SameProcs
<1>8. QED
  BY <1>3, <1>4, <1>5, <1>6, <1>7

\* A step outside the service, which leaves the ids their processes.
LEMMA AsideSafe ==
  ASSUME TypeOK, ProcOK, ExitInv, SameProcs, UNCHANGED service
  PROVE  ProcOK' /\ ExitInv'
<1> USE DEF service
<1>1. ProcOK' /\ \A i \in Ids : Held(i)' = Held(i)
  BY SameProcsKeep
<1>2. \A k \in 1..Len(stack) : stack[k].id \in Ids
  <2>1. \A k \in 1..Len(stack) : stack[k] \in Frames
    BY DEF TypeOK
  <2>2. QED
    BY <2>1 DEF Frames
<1>3. ExitInv'
  BY <1>1, <1>2 DEF ExitInv
<1>4. QED
  BY <1>1, <1>3

LEMMA OthersSafe ==
  ASSUME TypeOK, ProcOK, ExitInv,
         \/ \E id \in Ids : Cli(id)
         \/ StartExtensions
         \/ StopPreview
         \/ \E p \in Pids : ProcDies(p)
         \/ Relaunch
  PROVE  ProcOK' /\ ExitInv'
<1> USE DEF service
<1>1. NoExit(<<>>)
  BY DEF NoExit
<1>2. CASE StartExtensions
  <2>1. stack' = <<>> /\ UNCHANGED <<runtime, pending_stop, proc>>
    BY <1>2 DEF StartExtensions, MainLoop
  <2>2. QED
    BY <1>1, <2>1, QuietSafe DEF SameProcs
<1>3. CASE StopPreview
  <2>1. /\ preview \in Ids
        /\ EnterDrain(preview, <<>>)
        /\ proc' = Supersede(proc)
        /\ UNCHANGED <<runtime, pending_stop>>
    BY <1>3 DEF StopPreview, TypeOK
  <2>2. SameProcs
    BY <2>1, SupersedeType DEF SameProcs, TypeOK
  <2>3. QED
    BY <2>1, <2>2, QueueNoExit, QuietSafe
<1>4. CASE Relaunch
  <2>1. /\ stack' = <<>>
        /\ runtime' = [i \in Ids |-> None] /\ proc' = [p \in Pids |-> Free]
    BY <1>4 DEF Relaunch, MainLoop
  <2>2. ProcOK'
    BY <2>1 DEF ProcOK, ProcInv, AtMostOneProcess, Free
  <2>3. QED
    BY <1>1, <2>1, <2>2, ExitInvNone
<1>5. CASE SameProcs /\ UNCHANGED service
  BY <1>5, AsideSafe
<1>6. CASE \E id \in Ids : Cli(id)
  <2>1. UNCHANGED <<service, proc>>
    BY <1>6 DEF Cli, CliDownload, CliSwap, CliRemove, CliDisable
  <2>2. QED
    BY <1>5, <2>1 DEF SameProcs
<1>7. ASSUME NEW p \in Pids, ProcDies(p)
      PROVE  ProcOK' /\ ExitInv'
  <2> DEFINE status == IF proc[p].status = "alive" THEN "crashed" ELSE "stopped"
  <2>1. /\ proc[p].status \in {"alive", "stopping"}
        /\ proc' = Marked(p, status) /\ UNCHANGED service
    BY <1>7 DEF ProcDies
  <2>2. /\ proc \in [Pids -> Procs] /\ proc[p].status # "free"
        /\ status \in {"alive", "stopping", "crashed", "stopped"}
    BY <2>1 DEF TypeOK
  <2>3. \A q \in Pids : /\ Marked(p, status)[q].status = IF q = p THEN status ELSE proc[q].status
                        /\ Marked(p, status)[q].id = proc[q].id
    <3> HIDE DEF status
    <3> QED BY <2>2, MarkedFacts
  <2>4. SameProcs
    BY <2>1, <2>3 DEF SameProcs
  <2>5. QED
    BY <1>5, <2>1, <2>4
<1>8. QED
  BY <1>2, <1>3, <1>4, <1>6, <1>7

-----------------------------------------------------------------------------
(* The theorems *)

BaseInv == TypeOK /\ ProcOK /\ ExitInv

LEMMA BaseInit == Init => BaseInv
<1> SUFFICES ASSUME Init PROVE BaseInv
  OBVIOUS
<1>1. TypeOK
  BY TypeInit
<1>2. AtMostOneProcess /\ ProcInv
  BY DEF Init, AtMostOneProcess, ProcInv, Free
<1>3. ExitInv
  BY DEF Init, ExitInv
<1>4. QED
  BY <1>1, <1>2, <1>3 DEF BaseInv, ProcOK

LEMMA BaseStep == BaseInv /\ [Next]_vars => BaseInv'
<1> SUFFICES ASSUME BaseInv, [Next]_vars PROVE BaseInv'
  OBVIOUS
<1>1. TypeOK /\ ProcOK /\ ExitInv
  BY DEF BaseInv
<1>2. TypeOK'
  BY <1>1, TypeStep
<1>3. ASSUME NEW id \in Ids, RunFrame(id)
      PROVE  ProcOK' /\ ExitInv'
  BY <1>1, <1>3, StartJobSafe, DrainDoneSafe, ReleaseSafe, ReconcileSafe, CallbackSafe, ExitRestSafe
     DEF RunFrame
<1>4. ASSUME NEW id \in Ids,
             \/ StartNext(id)
             \/ \E enabled \in BOOLEAN : Toggle(id, enabled)
             \/ \E kind \in Kinds \ {"restart"} : Request(id, kind)
             \/ PreviewExt(id)
             \/ RemoteDone(id)
             \/ Reload(id)
      PROVE  ProcOK' /\ ExitInv'
  BY <1>1, <1>4, StartNextSafe, HandlersSafe
<1>5. ASSUME NEW p \in Pids, HandleExit(p)
      PROVE  ProcOK' /\ ExitInv'
  BY <1>1, <1>5, HandleExitSafe
<1>6. ASSUME \/ \E id \in Ids : Cli(id)
             \/ StartExtensions
             \/ StopPreview
             \/ \E p \in Pids : ProcDies(p)
             \/ Relaunch
      PROVE  ProcOK' /\ ExitInv'
  BY <1>1, <1>6, OthersSafe
<1>7. ASSUME UNCHANGED vars
      PROVE  ProcOK' /\ ExitInv'
  BY <1>1, <1>7, AsideSafe DEF vars, SameProcs
<1>8. ProcOK' /\ ExitInv'
  <2>1. CASE Next
    BY <1>3, <1>4, <1>5, <1>6, <2>1, Zenon DEF Next
  <2>2. QED
    BY <1>7, <2>1
<1>9. QED
  BY <1>2, <1>8 DEF BaseInv

\* Whatever order requests, exits, stop callbacks and jobs come in, no extension id ever has two
\* processes: the guard of start_extension and the drain in exit_handler are enough.
THEOREM OneProcess == Spec => []AtMostOneProcess
<1>1. BaseInv => AtMostOneProcess
  BY DEF BaseInv, ProcOK
<1>2. QED
  BY <1>1, BaseInit, BaseStep, PTL DEF Spec

\* The service never forgets a process: each is the running one of its id, or the one a stop in
\* flight (pending_stop) waits for.
THEOREM NoProcessLost == Spec => []NoOrphanProcess
<1>1. BaseInv => NoOrphanProcess
  BY DEF BaseInv, ProcOK, ProcInv, NoOrphanProcess
<1>2. QED
  BY <1>1, BaseInit, BaseStep, PTL DEF Spec

=============================================================================
