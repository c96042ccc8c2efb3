------------------------ MODULE ExtensionRequestsStreams ------------------------
(***************************************************************************)
(* Proofs about ExtensionRequests, continued: the order in which the       *)
(* batches of a stream reach their callback, and what the id of a visible  *)
(* result stands for.                                                      *)
(***************************************************************************)
EXTENDS ExtensionRequestsProofs

-----------------------------------------------------------------------------
(* Where the answers to a request are.  Batch k of request r is due while  *)
(* it may still be made, then in the queue of the main loop, then in the   *)
(* app's socket, or in what was read from it since closed.                 *)

Queued(q, r, k) == \E i \in 1..Len(q) : q[i].req = r /\ q[i].no = k
Sorted(q) == \A j \in 1..Len(q) : \A i \in 1..j - 1 : q[i].req = q[j].req => q[i].no < q[j].no

\* All there is of an extension: its process and what is on its sockets.
Line(e) == [x |-> ext[e], events |-> toExt[e], out |-> toApp[e], late |-> late[e]]
Lines == [x: Processes, events: Seq(Events), out: Seq(Messages), late: Seq(Messages)]

Coming(v, r) ==
  \/ \E i \in 1..Len(v.events) : v.events[i].req = r
  \/ r # 0 /\ v.x.debounce = r
Due(v, r, k) ==
  \/ Coming(v, r) /\ k = 1
  \/ \E t \in v.x.threads : t.req = r /\ t.no + 1 = k
Pend(v, r, k) ==
  Due(v, r, k) \/ Queued(v.x.idle, r, k) \/ Queued(v.out, r, k) \/ Queued(v.late, r, k)
\* What the process has still to send.
Rest(v, r, k) == Due(v, r, k) \/ Queued(v.x.idle, r, k)

\* A request is in one place of its extension's side.
ComesOnce(v) ==
  /\ \A j \in 1..Len(v.events) : \A i \in 1..j - 1 : v.events[i].req # v.events[j].req
  /\ \A i \in 1..Len(v.events) : v.events[i].req # v.x.debounce
UniqueInv(v) ==
  /\ ComesOnce(v)
  /\ \A t \in v.x.threads : ~Coming(v, t.req)
  /\ \A t, u \in v.x.threads : t.req = u.req => t = u

\* The batches of a request are in their order, each place ahead of the one
\* before it; what is left of a closed socket is of requests of its own.
OrderInv(v) ==
  /\ Sorted(v.x.idle) /\ Sorted(v.out) /\ Sorted(v.late)
  /\ \A r \in Reqs, k, l \in Nos : Queued(v.x.idle, r, k) /\ Due(v, r, l) => k < l
  /\ \A r \in Reqs, k, l \in Nos :
       Queued(v.out, r, k) /\ (Queued(v.x.idle, r, l) \/ Due(v, r, l)) => k < l
  /\ \A r \in Reqs, k, l \in Nos :
       Queued(v.late, r, k) => ~Queued(v.out, r, l) /\ ~Queued(v.x.idle, r, l) /\ ~Due(v, r, l)

\* The batches of a request are of one input, so they are superseded together.
Inputs(v, r, c) ==
  \/ \E t \in v.x.threads : t.req = r /\ t.input = c
  \/ \E i \in 1..Len(v.x.idle) : v.x.idle[i].req = r /\ v.x.idle[i].input = c
InputInv(v) ==
  /\ \A r \in Reqs, c \in Nat : Inputs(v, r, c) => c <= v.x.input
  /\ \A r \in Reqs, c, d \in Nat : Inputs(v, r, c) /\ Inputs(v, r, d) => c = d
Alive(v, r) == \A c \in Nat : Inputs(v, r, c) => ~Superseded(v.x, c)

Side(v) == UniqueInv(v) /\ OrderInv(v) /\ InputInv(v)

\* Of what still answers request r, whose batch n is awaited next, no batch is
\* missing: the one before each is awaited, or on its way ahead of it.
Chain(v, r, n) ==
  /\ \A k \in Nos : Queued(v.out, r, k) => k = n \/ Queued(v.out, r, k - 1)
  /\ \A k \in Nos : Queued(v.late, r, k) => k = n \/ Queued(v.late, r, k - 1)
  /\ Alive(v, r) => \A k \in Nos : Queued(v.x.idle, r, k) \/ Due(v, r, k) =>
       k = n \/ Queued(v.out, r, k - 1) \/ Queued(v.x.idle, r, k - 1)

\* What a step of an extension's side may do to it.
Narrows(v, w) ==
  /\ \A r \in Reqs : Coming(w, r) => Coming(v, r)
  /\ \A r \in Reqs, k \in Nos : Rest(w, r, k) => \E l \in Nos : l <= k /\ Rest(v, r, l)
Moves(v, w) ==
  /\ Narrows(v, w)
  /\ \A r \in Reqs, k \in Nos : Pend(w, r, k) => \E l \in Nos : l <= k /\ Pend(v, r, l)
  /\ \A r \in Reqs, n \in Nat : Chain(v, r, n) => Chain(w, r, n)

\* The app and the lines of all extensions.  A request is of one extension,
\* and the newest of the active one.
AllLines == [e \in Exts |-> Line(e)]
PlaceInv(a, L) ==
  /\ \A e \in Exts, r \in Reqs, k \in Nos : Pend(L[e], r, k) => r <= Len(a.sent)
  /\ \A e, f \in Exts, r \in Reqs, k, l \in Nos : Pend(L[e], r, k) /\ Pend(L[f], r, l) => e = f
  /\ \A e \in Exts, r \in Reqs, k \in Nos :
       Pend(L[e], r, k) /\ r = Len(a.sent) /\ a.sent[r] = a.ask => e = a.active

\* What a callback has been given is behind what is still to come.
GotInv(a, L) ==
  \A e \in Exts, r \in Reqs, k \in Nos : Pend(L[e], r, k) /\ r <= Len(a.sent) =>
    \A i \in 1..Len(a.got[a.sent[r]]) :
      a.got[a.sent[r]][i].of = a.sent[r] => a.got[a.sent[r]][i].no < k

Increasing(a) ==
  \A n \in Asks : \A i \in 1..Len(a.got[n]) : a.got[n][i].of = n =>
    \A j \in 1..i - 1 : a.got[n][j].of = n => a.got[n][j].no < a.got[n][i].no

\* The stream of the newest ask, while its callback waits: no batch is missing.
Streaming(a) == a.sent # <<>> /\ a.sent[Len(a.sent)] = a.ask /\ a.pending.ask = a.ask
ChainInv(a, L) ==
  Streaming(a) =>
    a.active \in Exts /\ Chain(L[a.active], Len(a.sent), Len(a.got[a.ask]) + 1)
Gapless(a) ==
  a.ask # 0 => \A i \in 1..Len(a.got[a.ask]) : a.got[a.ask][i].of = a.ask => a.got[a.ask][i].no = i

StreamInv(a, L) ==
  /\ \A e \in Exts : Side(L[e])
  /\ PlaceInv(a, L) /\ GotInv(a, L) /\ Increasing(a) /\ ChainInv(a, L) /\ Gapless(a)

-----------------------------------------------------------------------------
(* Queues. *)

LEMMA QueuedAppend ==
  ASSUME NEW S, NEW q \in Seq(S), NEW m \in S, NEW r, NEW k
  PROVE  Queued(Append(q, m), r, k) <=> Queued(q, r, k) \/ (m.req = r /\ m.no = k)
<1>. DEFINE p == Append(q, m)
<1>1. /\ Len(p) = Len(q) + 1 /\ Len(q) \in Nat /\ p[Len(q) + 1] = m
      /\ \A i \in 1..Len(q) : p[i] = q[i]
  BY AppendProperties, LenProperties
<1>. HIDE DEF p
<1>2. \A i \in 1..Len(p) : i \in 1..Len(q) \/ i = Len(q) + 1
  BY <1>1
<1>3. Len(q) + 1 \in 1..Len(p) /\ \A i \in 1..Len(q) : i \in 1..Len(p)
  BY <1>1
<1>. QED  BY <1>1, <1>2, <1>3 DEF Queued, p

LEMMA SortedAppend ==
  ASSUME NEW S, NEW q \in Seq(S), NEW m \in S, Sorted(q),
         \A i \in 1..Len(q) : q[i].req = m.req => q[i].no < m.no
  PROVE  Sorted(Append(q, m))
<1>. DEFINE p == Append(q, m)
<1>1. /\ Len(p) = Len(q) + 1 /\ Len(q) \in Nat /\ p[Len(q) + 1] = m
      /\ \A i \in 1..Len(q) : p[i] = q[i]
  BY AppendProperties, LenProperties
<1>. HIDE DEF p
<1>3. ASSUME NEW j \in 1..Len(p), NEW i \in 1..j - 1, p[i].req = p[j].req
      PROVE  p[i].no < p[j].no
  <2>1. CASE j = Len(q) + 1
    <3>1. i \in 1..Len(q)
      BY <2>1, <1>1
    <3>. QED  BY <3>1, <2>1, <1>1, <1>3
  <2>2. CASE j # Len(q) + 1
    <3>1. j \in 1..Len(q) /\ i \in 1..Len(q)
      BY <2>2, <1>1
    <3>. QED  BY <3>1, <1>1, <1>3 DEF Sorted
  <2>. QED  BY <2>1, <2>2
<1>. QED  BY <1>3 DEF Sorted, p

LEMMA QueuedTail ==
  ASSUME NEW S, NEW q \in Seq(S), q # <<>>
  PROVE  /\ Head(q) = q[1] /\ Queued(q, Head(q).req, Head(q).no)
         /\ \A r, k : Queued(Tail(q), r, k) => Queued(q, r, k)
         /\ \A r, k : Queued(q, r, k) => Queued(Tail(q), r, k) \/ (Head(q).req = r /\ Head(q).no = k)
<1>1. /\ Len(Tail(q)) = Len(q) - 1 /\ Len(q) \in Nat /\ Len(q) # 0 /\ Head(q) = q[1]
      /\ \A i \in 1..Len(Tail(q)) : Tail(q)[i] = q[i + 1]
  BY HeadTailProperties, LenProperties, EmptySeq
<1>. DEFINE p == Tail(q)
<1>. HIDE DEF p
<1>2. /\ \A i \in 1..Len(p) : i + 1 \in 1..Len(q)
      /\ \A i \in 1..Len(q) : i = 1 \/ (i - 1 \in 1..Len(p) /\ (i - 1) + 1 = i)
      /\ 1 \in 1..Len(q)
  BY <1>1 DEF p
<1>3. \A i \in 1..Len(p) : p[i] = q[i + 1]
  BY <1>1 DEF p
<1>4. \A r, k : Queued(p, r, k) => Queued(q, r, k)
  BY <1>2, <1>3 DEF Queued
<1>5. ASSUME NEW r, NEW k, NEW i \in 1..Len(q), q[i].req = r, q[i].no = k, i # 1
      PROVE  Queued(p, r, k)
  <2>1. i - 1 \in 1..Len(p) /\ p[i - 1] = q[i]
    BY <1>2, <1>3, <1>5
  <2>. QED  BY <2>1, <1>5 DEF Queued
<1>6. Queued(q, q[1].req, q[1].no)
  BY <1>2 DEF Queued
<1>7. \A r, k : Queued(q, r, k) => Queued(p, r, k) \/ (q[1].req = r /\ q[1].no = k)
  BY <1>5 DEF Queued
<1>. QED  BY <1>1, <1>4, <1>6, <1>7 DEF p

LEMMA SortedTail ==
  ASSUME NEW S, NEW q \in Seq(S), q # <<>>, Sorted(q)
  PROVE  /\ Sorted(Tail(q))
         /\ \A k : Queued(Tail(q), Head(q).req, k) => Head(q).no < k
<1>. DEFINE p == Tail(q)
<1>1. /\ Len(p) = Len(q) - 1 /\ Len(q) \in Nat /\ Len(q) # 0 /\ Head(q) = q[1]
      /\ \A i \in 1..Len(p) : p[i] = q[i + 1]
  BY HeadTailProperties, LenProperties, EmptySeq
<1>. HIDE DEF p
<1>2. \A i \in 1..Len(p) : i + 1 \in 1..Len(q) /\ 1 \in 1..(i + 1) - 1
  BY <1>1
<1>3. \A j \in 1..Len(p) : \A i \in 1..j - 1 :
        i \in 1..Len(p) /\ j + 1 \in 1..Len(q) /\ i + 1 \in 1..(j + 1) - 1
  BY <1>1
<1>4. Sorted(p)
  <2>. SUFFICES ASSUME NEW j \in 1..Len(p), NEW i \in 1..j - 1, p[i].req = p[j].req
                PROVE  p[i].no < p[j].no
    BY DEF Sorted
  <2>1. p[j] = q[j + 1] /\ p[i] = q[i + 1]
    BY <1>1, <1>3
  <2>. QED  BY <2>1, <1>3 DEF Sorted
<1>5. ASSUME NEW i \in 1..Len(p), p[i].req = q[1].req
      PROVE  q[1].no < p[i].no
  <2>1. p[i] = q[i + 1] /\ i + 1 \in 1..Len(q) /\ 1 \in 1..(i + 1) - 1
    BY <1>1, <1>2
  <2>. QED  BY <2>1, <1>5 DEF Sorted
<1>. QED  BY <1>1, <1>4, <1>5 DEF Queued, p

\* What is read from a socket that is closed: p before, and a prefix of q.
LEMMA QueuedClosed ==
  ASSUME NEW S, NEW p \in Seq(S), NEW q \in Seq(S), NEW n \in 0..Len(q)
  PROVE  LET w == p \o SubSeq(q, 1, n)
         IN  /\ Len(w) = Len(p) + n /\ Len(p) \in Nat
             /\ \A i \in 1..Len(p) : i \in 1..Len(w) /\ w[i] = p[i]
             /\ \A i \in 1..n : i \in 1..Len(q) /\ Len(p) + i \in 1..Len(w) /\ w[Len(p) + i] = q[i]
             /\ \A i \in 1..Len(w) : i \in 1..Len(p) \/ (i - Len(p) \in 1..n /\ w[i] = q[i - Len(p)])
<1>1. Len(q) \in Nat /\ n \in Nat /\ \A i \in 1..Len(q) : q[i] \in S
  BY LenProperties, ElementOfSeq
<1>2. n \in Int /\ 1 \in Int /\ \A i \in 1..n : q[i] \in S /\ i \in 1..Len(q)
  BY <1>1
<1>. DEFINE u == SubSeq(q, 1, n)
            w == p \o u
<1>3. u \in Seq(S) /\ (1 <= n => Len(u) = n - 1 + 1) /\ (~(1 <= n) => Len(u) = 0)
      /\ \A i \in 1..n - 1 + 1 : u[i] = q[1 + i - 1]
  BY <1>2, SubSeqProperties
<1>4. Len(u) = n /\ \A i \in 1..n : u[i] = q[i]
  BY <1>1, <1>3
<1>. HIDE DEF u
<1>5. Len(w) = Len(p) + Len(u) /\ Len(p) \in Nat
      /\ \A i \in 1..Len(p) + Len(u) : w[i] = IF i <= Len(p) THEN p[i] ELSE u[i - Len(p)]
  BY <1>3, ConcatProperties, LenProperties
<1>. HIDE DEF w
<1>6. \A i \in 1..Len(p) : i \in 1..Len(w) /\ w[i] = p[i]
  BY <1>1, <1>4, <1>5
<1>7. \A i \in 1..n : Len(p) + i \in 1..Len(w) /\ w[Len(p) + i] = q[i]
  <2>. SUFFICES ASSUME NEW i \in 1..n
                PROVE  Len(p) + i \in 1..Len(w) /\ w[Len(p) + i] = q[i]
    OBVIOUS
  <2>1. Len(p) + i \in 1..Len(p) + Len(u) /\ ~(Len(p) + i <= Len(p)) /\ (Len(p) + i) - Len(p) = i
    BY <1>1, <1>4, <1>5
  <2>. QED  BY <2>1, <1>4, <1>5
<1>8. \A i \in 1..Len(w) : i \in 1..Len(p) \/ (i - Len(p) \in 1..n /\ w[i] = q[i - Len(p)])
  BY <1>1, <1>4, <1>5
<1>. QED  BY <1>1, <1>2, <1>4, <1>5, <1>6, <1>7, <1>8 DEF w, u

LEMMA SortedClosed ==
  ASSUME NEW S, NEW p \in Seq(S), NEW q \in Seq(S), NEW n \in 0..Len(q),
         Sorted(p), Sorted(q), \A r, k, l : Queued(p, r, k) => ~Queued(q, r, l)
  PROVE  LET w == p \o SubSeq(q, 1, n)
         IN  /\ Sorted(w)
             /\ \A r, k : Queued(w, r, k) => Queued(p, r, k) \/ Queued(q, r, k)
             /\ \A r, k : Queued(p, r, k) => Queued(w, r, k)
             /\ \A r : \A k, l \in Nat :
                  Queued(w, r, k) /\ Queued(q, r, k) /\ Queued(q, r, l) /\ l < k => Queued(w, r, l)
<1>. DEFINE w == p \o SubSeq(q, 1, n)
<1>. HIDE DEF w
<1>1. /\ Len(w) = Len(p) + n /\ Len(p) \in Nat
      /\ \A i \in 1..Len(p) : i \in 1..Len(w) /\ w[i] = p[i]
      /\ \A i \in 1..n : i \in 1..Len(q) /\ Len(p) + i \in 1..Len(w) /\ w[Len(p) + i] = q[i]
      /\ \A i \in 1..Len(w) : i \in 1..Len(p) \/ (i - Len(p) \in 1..n /\ w[i] = q[i - Len(p)])
  BY QueuedClosed DEF w
<1>2. Len(q) \in Nat /\ n \in Nat
  BY LenProperties
<1>3. \A i \in 1..Len(p), j \in 1..Len(q) : p[i].req # q[j].req
  BY DEF Queued
<1>4. Sorted(w)
  <2>. SUFFICES ASSUME NEW j \in 1..Len(w), NEW i \in 1..j - 1, w[i].req = w[j].req
                PROVE  w[i].no < w[j].no
    BY DEF Sorted
  <2>1. i \in 1..Len(w)
    BY <1>1, <1>2
  <2>2. CASE j \in 1..Len(p)
    <3>1. i \in 1..Len(p)
      BY <2>2, <1>1
    <3>. QED  BY <3>1, <2>2, <1>1 DEF Sorted
  <2>3. CASE j \notin 1..Len(p)
    <3>1. j - Len(p) \in 1..n /\ w[j] = q[j - Len(p)] /\ j - Len(p) \in 1..Len(q)
      BY <2>3, <1>1
    <3>2. CASE i \in 1..Len(p)
      BY <3>1, <3>2, <1>1, <1>3
    <3>3. CASE i \notin 1..Len(p)
      <4>1. i - Len(p) \in 1..n /\ w[i] = q[i - Len(p)]
        BY <3>3, <2>1, <1>1
      <4>2. i - Len(p) \in 1..(j - Len(p)) - 1
        BY <4>1, <3>1, <1>1, <1>2
      <4>. QED  BY <3>1, <4>1, <4>2 DEF Sorted
    <3>. QED  BY <3>2, <3>3
  <2>. QED  BY <2>2, <2>3
<1>5. \A r, k : Queued(w, r, k) => Queued(p, r, k) \/ Queued(q, r, k)
  BY <1>1 DEF Queued
<1>6. \A r, k : Queued(p, r, k) => Queued(w, r, k)
  BY <1>1 DEF Queued
<1>7. ASSUME NEW r, NEW k \in Nat, NEW l \in Nat, Queued(w, r, k), Queued(q, r, k), Queued(q, r, l), l < k
      PROVE  Queued(w, r, l)
  <2>1. PICK i \in 1..Len(w) : w[i].req = r /\ w[i].no = k
    BY <1>7 DEF Queued
  <2>2. PICK j \in 1..Len(q) : q[j].req = r /\ q[j].no = l
    BY <1>7 DEF Queued
  <2>3. i \notin 1..Len(p)
    BY <2>1, <2>2, <1>1, <1>3
  <2>4. i - Len(p) \in 1..n /\ w[i] = q[i - Len(p)] /\ i - Len(p) \in 1..Len(q)
    BY <2>3, <1>1
  <2>. DEFINE h == i - Len(p)
  <2>. HIDE DEF h
  <2>5. h \in 1..n /\ h \in 1..Len(q) /\ q[h].req = r /\ q[h].no = k
    BY <2>1, <2>4 DEF h
  <2>6. CASE h < j
    <3>1. h \in 1..j - 1
      BY <2>2, <2>5, <2>6, <1>2
    <3>2. k < l
      BY <3>1, <2>2, <2>5 DEF Sorted
    <3>. QED  BY <3>2, <1>7
  <2>7. CASE ~(h < j)
    <3>1. j \in 1..n
      BY <2>2, <2>5, <2>7, <1>2
    <3>2. w[Len(p) + j] = q[j] /\ Len(p) + j \in 1..Len(w)
      BY <3>1, <1>1
    <3>. QED  BY <3>2, <2>2 DEF Queued
  <2>. QED  BY <2>6, <2>7
<1>. QED  BY <1>4, <1>5, <1>6, <1>7 DEF w

-----------------------------------------------------------------------------
(* What an extension's side does to its line. *)

LEMMA LineTypes ==
  ASSUME NEW v \in Lines
  PROVE  /\ v.x \in Processes /\ v.events \in Seq(Events)
         /\ v.out \in Seq(Messages) /\ v.late \in Seq(Messages)
         /\ v.x.idle \in Seq(Batches) /\ v.x.threads \subseteq Tasks /\ v.x.input \in Nat
         /\ Len(v.events) \in Nat /\ Len(v.out) \in Nat /\ Len(v.late) \in Nat
         /\ Len(v.x.idle) \in Nat
BY LenProperties DEF Lines, Processes

LEMMA NosTypes ==
  /\ MaxBatches \in Nat /\ MaxAsks \in Nat /\ Nos \subseteq Nat /\ Reqs \subseteq Nat \ {0}
  /\ 1 \in Nos /\ \A k \in 1..(MaxBatches + 1) : k \in Nos /\ k # 0
  /\ \A k \in Nos : k <= k /\ (k # 0 => k - 1 \in Nos)
<1>1. MaxBatches \in Nat /\ MaxAsks \in Nat /\ Nos \subseteq Nat /\ Reqs \subseteq Nat \ {0}
  BY RequestsAssumption DEF Nos, Reqs
<1>2. 1 \in Nos /\ \A k \in 1..(MaxBatches + 1) : k \in Nos /\ k # 0
  BY <1>1 DEF Nos
<1>3. \A k \in Nos : k <= k /\ (k # 0 => k - 1 \in Nos)
  BY <1>1 DEF Nos
<1>. QED  BY <1>1, <1>2, <1>3

\* Batches are numbered from one, and requests too.
LEMMA QueueTypes ==
  ASSUME NEW v \in Lines
  PROVE  /\ \A r, k : Queued(v.x.idle, r, k) => r \in Reqs /\ k \in Nos /\ k # 0
         /\ \A r, k : Queued(v.out, r, k) => r \in Reqs /\ k \in Nos /\ k # 0
         /\ \A r, k : Queued(v.late, r, k) => r \in Reqs /\ k \in Nos /\ k # 0
         /\ \A r, k : Due(v, r, k) => k \in Nos /\ k # 0
         /\ \A r : Coming(v, r) => r # 0
<1>1. \A i \in 1..Len(v.x.idle) : v.x.idle[i] \in Batches
  BY LineTypes, ElementOfSeq
<1>2. \A i \in 1..Len(v.out) : v.out[i] \in Messages
  BY LineTypes, ElementOfSeq
<1>3. \A i \in 1..Len(v.late) : v.late[i] \in Messages
  BY LineTypes, ElementOfSeq
<1>4. \A r, k : Queued(v.x.idle, r, k) => r \in Reqs /\ k \in Nos /\ k # 0
  BY <1>1, NosTypes DEF Queued, Batches
<1>5. \A r, k : Queued(v.out, r, k) => r \in Reqs /\ k \in Nos /\ k # 0
  BY <1>2, NosTypes DEF Queued, Messages
<1>6. \A r, k : Queued(v.late, r, k) => r \in Reqs /\ k \in Nos /\ k # 0
  BY <1>3, NosTypes DEF Queued, Messages
<1>7. \A t \in v.x.threads : t.no + 1 \in 1..(MaxBatches + 1)
  BY LineTypes, NosTypes DEF Tasks
<1>8. \A r, k : Due(v, r, k) => k \in Nos /\ k # 0
  BY <1>7, NosTypes DEF Due
<1>9. \A i \in 1..Len(v.events) : v.events[i] \in Events
  BY LineTypes, ElementOfSeq
<1>10. \A i \in 1..Len(v.events) : v.events[i].req # 0
  BY <1>9, NosTypes DEF Events
<1>11. \A r : Coming(v, r) => r # 0
  BY <1>10 DEF Coming
<1>. QED  BY <1>4, <1>5, <1>6, <1>8, <1>11

\* A request that is coming has nothing of its own anywhere else.
LEMMA ComingIsFirst ==
  ASSUME NEW v \in Lines, Side(v), NEW r \in Reqs, Coming(v, r)
  PROVE  /\ \A k \in Nos : ~Queued(v.x.idle, r, k) /\ ~Queued(v.out, r, k) /\ ~Queued(v.late, r, k)
         /\ \A t \in v.x.threads : t.req # r
         /\ \A c : ~Inputs(v, r, c)
         /\ \A k \in Nos : Due(v, r, k) <=> k = 1
<1>1. Due(v, r, 1) /\ 1 \in Nos
  BY NosTypes DEF Due
<1>2. \A k \in Nos : ~Queued(v.x.idle, r, k)
  <2>. SUFFICES ASSUME NEW k \in Nos, Queued(v.x.idle, r, k)  PROVE FALSE
    OBVIOUS
  <2>1. k < 1
    BY <1>1 DEF Side, OrderInv
  <2>. QED  BY <2>1, QueueTypes, NosTypes
<1>3. \A k \in Nos : ~Queued(v.out, r, k)
  <2>. SUFFICES ASSUME NEW k \in Nos, Queued(v.out, r, k)  PROVE FALSE
    OBVIOUS
  <2>1. k < 1
    BY <1>1 DEF Side, OrderInv
  <2>. QED  BY <2>1, QueueTypes, NosTypes
<1>4. \A k \in Nos : ~Queued(v.late, r, k)
  BY <1>1 DEF Side, OrderInv
<1>5. \A t \in v.x.threads : t.req # r
  BY DEF Side, UniqueInv
<1>6. \A c : ~Inputs(v, r, c)
  <2>. SUFFICES ASSUME NEW i \in 1..Len(v.x.idle), v.x.idle[i].req = r  PROVE FALSE
    BY <1>5 DEF Inputs
  <2>1. Queued(v.x.idle, r, v.x.idle[i].no)
    BY DEF Queued
  <2>. QED  BY <2>1, <1>2, QueueTypes
<1>7. \A k \in Nos : Due(v, r, k) <=> k = 1
  BY <1>5 DEF Due
<1>. QED  BY <1>2, <1>3, <1>4, <1>5, <1>6, <1>7

\* A request that is alive after the step was alive before it.
LEMMA AliveBefore ==
  ASSUME NEW v \in Lines, NEW w \in Lines, Side(v), NEW r \in Reqs,
         w.x.input = v.x.input \/ w.x.input = v.x.input + 1,
         \A c \in Nat : Inputs(w, r, c) => Inputs(v, r, c),
         Coming(w, r) => Coming(v, r),
         NEW k \in Nos, Queued(w.x.idle, r, k) \/ Due(w, r, k), Alive(w, r)
  PROVE  Alive(v, r)
<1>1. CASE Coming(v, r)
  BY <1>1, ComingIsFirst DEF Alive
<1>2. CASE ~Coming(v, r)
  <2>1. PICK c : Inputs(w, r, c) /\ c \in Nat
    <3>1. CASE Queued(w.x.idle, r, k)
      <4>1. PICK i \in 1..Len(w.x.idle) : w.x.idle[i].req = r
        BY <3>1 DEF Queued
      <4>2. w.x.idle[i] \in Batches
        BY LineTypes, ElementOfSeq
      <4>3. w.x.idle[i].input \in Nat
        BY <4>2 DEF Batches
      <4>. QED  BY <4>1, <4>3 DEF Inputs
    <3>2. CASE Due(w, r, k)
      <4>1. PICK t \in w.x.threads : t.req = r
        BY <1>2, <3>2 DEF Due
      <4>2. t.input \in Nat
        BY LineTypes DEF Tasks
      <4>. QED  BY <4>1, <4>2 DEF Inputs
    <3>. QED  BY <3>1, <3>2
  <2>2. ~Superseded(w.x, c) /\ Inputs(v, r, c)
    BY <2>1 DEF Alive
  <2>3. c <= v.x.input /\ v.x.input \in Nat
    BY <2>1, <2>2, LineTypes DEF Side, InputInv
  <2>4. ~Superseded(v.x, c)
    BY <2>1, <2>2, <2>3 DEF Superseded
  <2>5. \A d \in Nat : Inputs(v, r, d) => d = c
    BY <2>1, <2>2 DEF Side, InputInv
  <2>. QED  BY <2>4, <2>5 DEF Alive
<1>. QED  BY <1>1, <1>2

LEMMA SameQueues ==
  ASSUME NEW v \in Lines, NEW w \in Lines, OrderInv(v),
         w.x.idle = v.x.idle, w.out = v.out, w.late = v.late,
         \A r \in Reqs : Coming(w, r) => Coming(v, r),
         \A r \in Reqs, k \in Nos : Due(w, r, k) => Due(v, r, k),
         \A r \in Reqs, k \in Nos :
           Alive(w, r) /\ (Queued(w.x.idle, r, k) \/ Due(w, r, k)) => Alive(v, r)
  PROVE  OrderInv(w) /\ Moves(v, w)
<1>1. OrderInv(w)
  BY DEF OrderInv
<1>2. \A r \in Reqs, k \in Nos : Pend(w, r, k) => Pend(v, r, k)
  BY DEF Pend
<1>3. \A k \in Nos : k <= k
  BY NosTypes, Zenon
<1>4. ASSUME NEW r \in Reqs, NEW n \in Nat, Chain(v, r, n)
      PROVE  Chain(w, r, n)
  BY <1>4 DEF Chain
<1>5. Narrows(v, w)
  BY <1>3 DEF Narrows, Rest
<1>. QED  BY <1>1, <1>2, <1>3, <1>4, <1>5 DEF Moves

\* Less is to come than there was, and nothing else has changed.
LEMMA FewerMoves ==
  ASSUME NEW v \in Lines, NEW w \in Lines, Side(v), ComesOnce(w),
         w.x.idle = v.x.idle, w.out = v.out, w.late = v.late, w.x.threads \subseteq v.x.threads,
         w.x.input = v.x.input \/ w.x.input = v.x.input + 1,
         \A r : Coming(w, r) => Coming(v, r)
  PROVE  Side(w) /\ Moves(v, w)
<1>1. \A r, k : Due(w, r, k) => Due(v, r, k)
  BY DEF Due
<1>2. \A r, c : Inputs(w, r, c) => Inputs(v, r, c)
  BY DEF Inputs
<1>3. OrderInv(w) /\ Moves(v, w)
  BY <1>1, <1>2, SameQueues, AliveBefore DEF Side
<1>4. UniqueInv(w)
  BY DEF Side, UniqueInv
<1>5. v.x.input \in Nat /\ w.x.input \in Nat /\ \A c \in Nat : c <= v.x.input => c <= w.x.input
  BY LineTypes
<1>6. InputInv(w)
  BY <1>2, <1>5 DEF Side, InputInv
<1>. QED  BY <1>3, <1>4, <1>6 DEF Side

\* The process is another one, or none.
LEMMA ClearsMoves ==
  ASSUME NEW v \in Lines, NEW w \in Lines, Side(v), ComesOnce(w),
         w.x.idle = <<>>, w.x.threads = {}, w.out = v.out, w.late = v.late,
         \A r : Coming(w, r) => Coming(v, r)
  PROVE  Side(w) /\ Moves(v, w)
<1>1. \A r, k : ~Queued(w.x.idle, r, k)
  BY EmptySeq DEF Queued
<1>2. \A r, k : Due(w, r, k) => Coming(v, r) /\ Due(v, r, k)
  BY DEF Due
<1>3. \A r, c : ~Inputs(w, r, c)
  BY EmptySeq DEF Inputs
<1>4. Sorted(w.x.idle)
  BY EmptySeq DEF Sorted
<1>5. OrderInv(w)
  BY <1>1, <1>2, <1>4 DEF OrderInv, Side
<1>6. UniqueInv(w) /\ InputInv(w)
  BY <1>3 DEF UniqueInv, InputInv
<1>7. \A r \in Reqs, k \in Nos : Pend(w, r, k) => Pend(v, r, k)
  BY <1>1, <1>2 DEF Pend
<1>8. \A k \in Nos : k <= k
  BY NosTypes, Zenon
<1>9. ASSUME NEW r \in Reqs, NEW n \in Nat, Chain(v, r, n)
      PROVE  Chain(w, r, n)
  <2>. SUFFICES ASSUME NEW k \in Nos, Due(w, r, k)
                PROVE  k = n \/ Queued(w.out, r, k - 1)
    BY <1>9, <1>1 DEF Chain
  <2>1. Coming(v, r) /\ Due(v, r, k) /\ k = 1 /\ 0 \in Nos
    BY <1>2, ComingIsFirst, NosTypes DEF Nos
  <2>2. Alive(v, r) /\ ~Queued(v.x.idle, r, 1 - 1)
    BY <2>1, ComingIsFirst DEF Alive
  <2>. QED  BY <2>1, <2>2, <1>9 DEF Chain
<1>10. Narrows(v, w)
  BY <1>1, <1>2, <1>8 DEF Narrows, Rest
<1>. QED  BY <1>5, <1>6, <1>7, <1>8, <1>9, <1>10 DEF Side, Moves

\* Request s is no longer to come: what is done with it.
Takes(v, w, s) ==
  /\ Coming(v, s) /\ ComesOnce(w)
  /\ \A r : Coming(w, r) => Coming(v, r) /\ r # s
  /\ w.x.idle = v.x.idle /\ w.late = v.late

LEMMA StartsMoves ==
  ASSUME NEW v \in Lines, NEW w \in Lines, Side(v), NEW s \in Reqs, Takes(v, w, s),
         NEW t \in Tasks, t.req = s, t.no = 0, w.x.threads = v.x.threads \cup {t}, w.out = v.out,
         \/ t.input = 0 /\ w.x.input = v.x.input
         \/ t.input = v.x.input + 1 /\ w.x.input = v.x.input + 1
  PROVE  Side(w) /\ Moves(v, w)
<1>1. /\ v.x.input \in Nat /\ w.x.input \in Nat /\ t.input \in Nat /\ t.input <= w.x.input
      /\ \A c \in Nat : c <= v.x.input => c <= w.x.input
  BY LineTypes
<1>2. UniqueInv(w)
  <2>1. \A u \in v.x.threads : u.req # s /\ ~Coming(w, u.req)
    BY ComingIsFirst DEF Takes, Side, UniqueInv
  <2>2. ~Coming(w, s)
    BY DEF Takes
  <2>. QED  BY <2>1, <2>2 DEF UniqueInv, Takes, Side
<1>3. \A r \in Reqs : \A c : Inputs(w, r, c) <=> Inputs(v, r, c) \/ (r = s /\ c = t.input)
  BY DEF Inputs, Takes
<1>4. \A c : ~Inputs(v, s, c)
  BY ComingIsFirst DEF Takes
<1>5. InputInv(w)
  BY <1>1, <1>3, <1>4 DEF InputInv, Side
<1>6. \A r \in Reqs, k \in Nos : Due(w, r, k) => Due(v, r, k)
  <2>1. t.no + 1 = 1
    OBVIOUS
  <2>. QED  BY <2>1 DEF Due, Takes
<1>7. ASSUME NEW r \in Reqs, NEW k \in Nos, Alive(w, r),
             Queued(w.x.idle, r, k) \/ Due(w, r, k)
      PROVE  Alive(v, r)
  <2>1. CASE r = s
    BY <2>1, <1>4 DEF Alive
  <2>2. CASE r # s
    <3>1. \A c \in Nat : Inputs(w, r, c) => Inputs(v, r, c)
      BY <2>2, <1>3
    <3>2. Coming(w, r) => Coming(v, r)
      BY DEF Takes
    <3>. QED  BY <3>1, <3>2, <1>7, AliveBefore
  <2>. QED  BY <2>1, <2>2
<1>8. OrderInv(w) /\ Moves(v, w)
  <2>1. \A r \in Reqs : Coming(w, r) => Coming(v, r)
    BY DEF Takes
  <2>. QED  BY <2>1, <1>6, <1>7, SameQueues DEF Takes, Side
<1>. QED  BY <1>2, <1>5, <1>8 DEF Side

LEMMA RepliesMoves ==
  ASSUME NEW v \in Lines, NEW w \in Lines, Side(v), NEW s \in Reqs, Takes(v, w, s),
         w.x.threads = v.x.threads, w.x.input = v.x.input \/ w.x.input = v.x.input + 1,
         NEW m \in Messages, m.req = s, m.no = 1, w.out = Append(v.out, m)
  PROVE  Side(w) /\ Moves(v, w)
<1>1. /\ v.x.input \in Nat /\ w.x.input \in Nat
      /\ \A c \in Nat : c <= v.x.input => c <= w.x.input
  BY LineTypes
<1>2. \A r, k : Queued(w.out, r, k) <=> Queued(v.out, r, k) \/ (r = s /\ k = 1)
  BY LineTypes, QueuedAppend
<1>3. \A r, c : Inputs(w, r, c) <=> Inputs(v, r, c)
  BY DEF Inputs, Takes
<1>4. \A r, k : Due(w, r, k) => Due(v, r, k)
  BY DEF Due, Takes
<1>5. \A k \in Nos : ~Due(w, s, k)
  BY ComingIsFirst DEF Due, Takes
<1>6. \A k \in Nos : ~Queued(v.x.idle, s, k) /\ ~Queued(v.out, s, k) /\ ~Queued(v.late, s, k)
  BY ComingIsFirst DEF Takes
<1>7. UniqueInv(w) /\ InputInv(w)
  BY <1>1, <1>3 DEF UniqueInv, InputInv, Takes, Side
<1>8. Sorted(w.out)
  <2>1. \A i \in 1..Len(v.out) : v.out[i].req # s
    BY <1>6, QueueTypes DEF Queued
  <2>. QED  BY <2>1, LineTypes, SortedAppend DEF Side, OrderInv
<1>9. OrderInv(w)
  <2>1. Sorted(w.x.idle) /\ Sorted(w.late)
    BY DEF Side, OrderInv, Takes
  <2>2. \A r \in Reqs, k, l \in Nos : Queued(w.x.idle, r, k) /\ Due(w, r, l) => k < l
    BY <1>4 DEF Side, OrderInv, Takes
  <2>3. \A r \in Reqs, k, l \in Nos :
          Queued(w.out, r, k) /\ (Queued(w.x.idle, r, l) \/ Due(w, r, l)) => k < l
    BY <1>2, <1>4, <1>5, <1>6 DEF Side, OrderInv, Takes
  <2>4. \A r \in Reqs, k, l \in Nos : Queued(w.late, r, k) =>
          ~Queued(w.out, r, l) /\ ~Queued(w.x.idle, r, l) /\ ~Due(w, r, l)
    BY <1>2, <1>4, <1>6 DEF Side, OrderInv, Takes
  <2>. QED  BY <1>8, <2>1, <2>2, <2>3, <2>4 DEF OrderInv
<1>10. \A r \in Reqs, k \in Nos : Pend(w, r, k) => Pend(v, r, k)
  <2>1. Pend(v, s, 1)
    BY DEF Pend, Due, Takes
  <2>2. \A r, k : Queued(w.x.idle, r, k) <=> Queued(v.x.idle, r, k)
    BY DEF Takes
  <2>3. \A r, k : Queued(w.late, r, k) <=> Queued(v.late, r, k)
    BY DEF Takes
  <2>. SUFFICES ASSUME NEW r \in Reqs, NEW k \in Nos, Pend(w, r, k)  PROVE Pend(v, r, k)
    OBVIOUS
  <2>4. CASE r = s /\ k = 1
    BY <2>1, <2>4
  <2>5. CASE ~(r = s /\ k = 1)
    BY <2>2, <2>3, <2>5, <1>2, <1>4 DEF Pend
  <2>. QED  BY <2>4, <2>5
<1>11. \A k \in Nos : k <= k
  BY NosTypes, Zenon
<1>12. ASSUME NEW r \in Reqs, NEW n \in Nat, Chain(v, r, n)
       PROVE  Chain(w, r, n)
  <2>1. ASSUME NEW k \in Nos, Queued(w.out, r, k)
        PROVE  k = n \/ Queued(w.out, r, k - 1)
    <3>1. CASE Queued(v.out, r, k)
      BY <3>1, <1>2, <1>12 DEF Chain
    <3>2. CASE r = s /\ k = 1
      <4>1. Alive(v, s) /\ Due(v, s, 1)
        BY ComingIsFirst DEF Alive, Due, Takes
      <4>2. 1 = n \/ Queued(v.out, s, 1 - 1) \/ Queued(v.x.idle, s, 1 - 1)
        BY <3>2, <4>1, <1>12, NosTypes DEF Chain
      <4>3. \A j : j = 0 => ~Queued(v.out, s, j) /\ ~Queued(v.x.idle, s, j)
        BY QueueTypes
      <4>4. 1 - 1 = 0
        OBVIOUS
      <4>5. 1 = n
        BY <4>2, <4>3, <4>4
      <4>. QED  BY <4>5, <3>2
    <3>. QED  BY <3>1, <3>2, <1>2, <2>1
  <2>2. ASSUME NEW k \in Nos, Alive(w, r), Queued(w.x.idle, r, k) \/ Due(w, r, k)
        PROVE  k = n \/ Queued(w.out, r, k - 1) \/ Queued(w.x.idle, r, k - 1)
    <3>1. Alive(v, r)
      BY <1>3, <2>2, AliveBefore DEF Takes
    <3>2. Queued(v.x.idle, r, k) \/ Due(v, r, k)
      BY <2>2, <1>4 DEF Takes
    <3>3. k = n \/ Queued(v.out, r, k - 1) \/ Queued(v.x.idle, r, k - 1)
      BY <3>1, <3>2, <1>12 DEF Chain
    <3>. QED  BY <3>3, <1>2 DEF Takes
  <2>3. \A k \in Nos : Queued(w.late, r, k) => k = n \/ Queued(w.late, r, k - 1)
    BY <1>12 DEF Chain, Takes
  <2>. QED  BY <2>1, <2>2, <2>3 DEF Chain
<1>13. Narrows(v, w)
  BY <1>4, <1>11 DEF Narrows, Rest, Takes
<1>. QED  BY <1>7, <1>9, <1>10, <1>11, <1>12, <1>13 DEF Side, Moves

\* A thread hands batch b over, and goes on or not.
LEMMA HandsMoves ==
  ASSUME NEW v \in Lines, NEW w \in Lines, Side(v), NEW t \in v.x.threads, NEW b \in Batches,
         b.req = t.req, b.input = t.input, b.no = t.no + 1,
         w.x.idle = Append(v.x.idle, b), w.out = v.out, w.late = v.late,
         w.events = v.events, w.x.debounce = v.x.debounce, w.x.input = v.x.input,
         NEW us, w.x.threads = (v.x.threads \ {t}) \cup us,
         \A u \in us : us = {u} /\ u.req = t.req /\ u.input = t.input /\ u.no = t.no + 1
  PROVE  Side(w) /\ Moves(v, w)
<1>1. /\ t \in Tasks /\ b.no \in Nos /\ b.no \in Nat /\ t.req \in Reqs /\ t.no \in Nat
      /\ t.input \in Nat /\ v.x.input \in Nat
  <2>1. t \in Tasks
    BY LineTypes
  <2>2. t.req \in Reqs /\ t.no \in 0..MaxBatches /\ t.input \in Nat
    BY <2>1 DEF Tasks
  <2>3. b.no \in 1..(MaxBatches + 1)
    BY DEF Batches
  <2>. QED  BY <2>1, <2>2, <2>3, LineTypes, NosTypes
<1>2. \A r : Coming(w, r) <=> Coming(v, r)
  BY DEF Coming
<1>3. \A u \in w.x.threads : (u \in v.x.threads /\ u # t) \/ u \in us
  OBVIOUS
<1>4. UniqueInv(w)
  <2>1. ComesOnce(w)
    BY DEF ComesOnce, Side, UniqueInv
  <2>2. \A u \in w.x.threads : ~Coming(w, u.req)
    BY <1>2, <1>3 DEF Side, UniqueInv
  <2>3. \A u \in v.x.threads : u # t => u.req # t.req
    BY DEF Side, UniqueInv
  <2>4. \A u, u2 \in w.x.threads : u.req = u2.req => u = u2
    BY <1>3, <2>3 DEF Side, UniqueInv
  <2>. QED  BY <2>1, <2>2, <2>4 DEF UniqueInv
<1>5. \A r, k : Queued(w.x.idle, r, k) <=> Queued(v.x.idle, r, k) \/ (r = t.req /\ k = b.no)
  BY LineTypes, QueuedAppend
<1>6. Inputs(v, t.req, t.input)
  BY DEF Inputs
<1>7. \A r, c : Inputs(w, r, c) => Inputs(v, r, c)
  <2>. SUFFICES ASSUME NEW r, NEW c, Inputs(w, r, c)  PROVE Inputs(v, r, c)
    OBVIOUS
  <2>. DEFINE p == Append(v.x.idle, b)
  <2>1. /\ Len(p) = Len(v.x.idle) + 1 /\ p[Len(v.x.idle) + 1] = b
        /\ \A i \in 1..Len(v.x.idle) : p[i] = v.x.idle[i]
    BY LineTypes, AppendProperties
  <2>2. w.x.idle = p
    OBVIOUS
  <2>. HIDE DEF p
  <2>3. \A i \in 1..Len(p) : i \in 1..Len(v.x.idle) \/ i = Len(v.x.idle) + 1
    BY <2>1, LineTypes
  <2>4. ASSUME NEW i \in 1..Len(p), p[i].req = r, p[i].input = c
        PROVE  Inputs(v, r, c)
    <3>1. CASE i \in 1..Len(v.x.idle)
      BY <3>1, <2>1, <2>4 DEF Inputs
    <3>2. CASE i = Len(v.x.idle) + 1
      BY <3>2, <2>1, <2>4, <1>6
    <3>. QED  BY <3>1, <3>2, <2>3
  <2>5. ASSUME NEW u \in w.x.threads, u.req = r, u.input = c
        PROVE  Inputs(v, r, c)
    <3>1. CASE u \in v.x.threads
      BY <3>1, <2>5 DEF Inputs
    <3>2. CASE u \in us
      BY <3>2, <2>5, <1>6
    <3>. QED  BY <3>1, <3>2, <1>3
  <2>. QED  BY <2>2, <2>4, <2>5 DEF Inputs
<1>8. InputInv(w)
  BY <1>7 DEF Side, InputInv
<1>9. Due(v, t.req, b.no)
  BY DEF Due
<1>10. \A r \in Reqs, k \in Nos : Due(w, r, k) => Due(v, r, k) \/ (r = t.req /\ k = b.no + 1)
  <2>. SUFFICES ASSUME NEW r \in Reqs, NEW k \in Nos, NEW u \in w.x.threads,
                       u.req = r, u.no + 1 = k
                PROVE  Due(v, r, k) \/ (r = t.req /\ k = b.no + 1)
    BY <1>2 DEF Due
  <2>. QED  BY <1>3 DEF Due
<1>11. \A k \in Nos : Due(w, t.req, k) => k = b.no + 1
  <2>. SUFFICES ASSUME NEW k \in Nos, NEW u \in w.x.threads, u.req = t.req, u.no + 1 = k
                PROVE  k = b.no + 1
    BY <1>2, <1>4 DEF Due, UniqueInv, Side
  <2>1. u \in us
    BY <1>3 DEF Side, UniqueInv
  <2>. QED  BY <2>1
<1>12. Sorted(w.x.idle)
  <2>1. ASSUME NEW i \in 1..Len(v.x.idle), v.x.idle[i].req = b.req
        PROVE  v.x.idle[i].no < b.no
    <3>1. Queued(v.x.idle, b.req, v.x.idle[i].no)
      BY <2>1 DEF Queued
    <3>2. v.x.idle[i].no \in Nos
      BY <3>1, QueueTypes
    <3>. QED  BY <3>1, <3>2, <1>1, <1>9 DEF Side, OrderInv
  <2>2. Sorted(v.x.idle) /\ v.x.idle \in Seq(Batches)
    BY LineTypes DEF Side, OrderInv
  <2>3. Sorted(Append(v.x.idle, b))
    BY <2>1, <2>2, SortedAppend, Zenon
  <2>. QED  BY <2>3
<1>13. OrderInv(w)
  <2>1. Sorted(w.out) /\ Sorted(w.late)
    BY DEF Side, OrderInv
  <2>2. ASSUME NEW r \in Reqs, NEW k \in Nos, NEW l \in Nos, Queued(w.x.idle, r, k), Due(w, r, l)
        PROVE  k < l
    <3>1. CASE r = t.req
      <4>1. l = b.no + 1
        BY <3>1, <2>2, <1>11
      <4>2. k = b.no \/ k < b.no
        BY <3>1, <2>2, <1>1, <1>5, <1>9 DEF Side, OrderInv
      <4>. QED  BY <4>1, <4>2, <1>1, NosTypes
    <3>2. CASE r # t.req
      BY <3>2, <2>2, <1>5, <1>10 DEF Side, OrderInv
    <3>. QED  BY <3>1, <3>2
  <2>3. ASSUME NEW r \in Reqs, NEW k \in Nos, NEW l \in Nos,
               Queued(w.out, r, k), Queued(w.x.idle, r, l) \/ Due(w, r, l)
        PROVE  k < l
    <3>1. CASE Queued(v.x.idle, r, l) \/ Due(v, r, l)
      BY <3>1, <2>3 DEF Side, OrderInv
    <3>2. CASE r = t.req /\ (l = b.no \/ l = b.no + 1)
      <4>1. k < b.no
        BY <3>2, <2>3, <1>1, <1>9 DEF Side, OrderInv
      <4>. QED  BY <4>1, <3>2, <1>1, NosTypes
    <3>. QED  BY <3>1, <3>2, <2>3, <1>5, <1>10
  <2>4. \A r \in Reqs, k, l \in Nos : Queued(w.late, r, k) =>
          ~Queued(w.out, r, l) /\ ~Queued(w.x.idle, r, l) /\ ~Due(w, r, l)
    BY <1>1, <1>5, <1>9, <1>10 DEF Side, OrderInv
  <2>. QED  BY <1>12, <2>1, <2>2, <2>3, <2>4 DEF OrderInv
<1>14. ASSUME NEW r \in Reqs, NEW k \in Nos, Pend(w, r, k)
       PROVE  \E l \in Nos : l <= k /\ Pend(v, r, l)
  <2>1. CASE Pend(v, r, k)
    <3>1. k <= k
      BY NosTypes, Zenon
    <3>. QED  BY <3>1, <2>1
  <2>2. CASE r = t.req /\ (k = b.no \/ k = b.no + 1)
    <3>1. b.no <= k
      BY <2>2, <1>1
    <3>. QED  BY <3>1, <2>2, <1>1, <1>9 DEF Pend
  <2>. QED  BY <2>1, <2>2, <1>14, <1>5, <1>10 DEF Pend
<1>15. ASSUME NEW r \in Reqs, NEW n \in Nat, Chain(v, r, n)
       PROVE  Chain(w, r, n)
  <2>1. ASSUME NEW k \in Nos, Alive(w, r), Queued(w.x.idle, r, k) \/ Due(w, r, k)
        PROVE  k = n \/ Queued(w.out, r, k - 1) \/ Queued(w.x.idle, r, k - 1)
    <3>1. Alive(v, r)
      BY <1>2, <1>7, <2>1, AliveBefore
    <3>2. CASE (Queued(v.x.idle, r, k) \/ Due(v, r, k)) \/ (r = t.req /\ k = b.no)
      <4>1. Queued(v.x.idle, r, k) \/ Due(v, r, k)
        BY <3>2, <1>9
      <4>2. k = n \/ Queued(v.out, r, k - 1) \/ Queued(v.x.idle, r, k - 1)
        BY <3>1, <4>1, <1>15 DEF Chain
      <4>. QED  BY <4>2, <1>5
    <3>3. CASE r = t.req /\ k = b.no + 1
      <4>1. k - 1 = b.no
        BY <3>3, <1>1
      <4>. QED  BY <4>1, <3>3, <1>5
    <3>. QED  BY <3>2, <3>3, <2>1, <1>5, <1>10
  <2>. QED  BY <2>1, <1>15 DEF Chain
<1>16. ASSUME NEW r \in Reqs, NEW k \in Nos, Rest(w, r, k)
       PROVE  \E l \in Nos : l <= k /\ Rest(v, r, l)
  <2>1. CASE Rest(v, r, k)
    <3>1. k <= k
      BY NosTypes, Zenon
    <3>. QED  BY <3>1, <2>1
  <2>2. CASE r = t.req /\ (k = b.no \/ k = b.no + 1)
    <3>1. b.no <= k
      BY <2>2, <1>1
    <3>. QED  BY <3>1, <2>2, <1>1, <1>9 DEF Rest
  <2>. QED  BY <2>1, <2>2, <1>16, <1>5, <1>10 DEF Rest
<1>17. Narrows(v, w)
  BY <1>2, <1>16 DEF Narrows
<1>. QED  BY <1>4, <1>8, <1>13, <1>14, <1>15, <1>17 DEF Side, Moves

\* The main loop takes the first batch off its queue, to send it or drop it.
Unqueues(v, w) ==
  /\ v.x.idle # <<>> /\ w.x.idle = Tail(v.x.idle)
  /\ w.x.threads = v.x.threads /\ w.x.debounce = v.x.debounce /\ w.x.input = v.x.input
  /\ w.events = v.events /\ w.late = v.late

LEMMA UnqueuesFacts ==
  ASSUME NEW v \in Lines, NEW w \in Lines, Side(v), Unqueues(v, w), NEW b, b = Head(v.x.idle)
  PROVE  /\ UniqueInv(w) /\ InputInv(w) /\ b \in Batches /\ Sorted(w.x.idle)
         /\ b.req \in Reqs /\ b.no \in Nos /\ b.no \in Nat /\ b.input \in Nat
         /\ \A r : Coming(w, r) <=> Coming(v, r)
         /\ \A r, k : Due(w, r, k) <=> Due(v, r, k)
         /\ \A r, c : Inputs(w, r, c) => Inputs(v, r, c)
         /\ Inputs(v, b.req, b.input)
         /\ Queued(v.x.idle, b.req, b.no)
         /\ \A r, k : Queued(w.x.idle, r, k) => Queued(v.x.idle, r, k)
         /\ \A r, k : Queued(v.x.idle, r, k) => Queued(w.x.idle, r, k) \/ (b.req = r /\ b.no = k)
         /\ \A k : Queued(w.x.idle, b.req, k) => b.no < k
<1>1. v.x.idle \in Seq(Batches) /\ v.x.idle # <<>> /\ Sorted(v.x.idle)
  BY LineTypes DEF Unqueues, Side, OrderInv
<1>2. Len(v.x.idle) \in Nat /\ 1 \in 1..Len(v.x.idle) /\ b = v.x.idle[1]
  BY <1>1, QueuedTail, EmptySeq, LenProperties
<1>3. b \in Batches
  BY <1>1, <1>2, ElementOfSeq
<1>4. b.req \in Reqs /\ b.no \in 1..(MaxBatches + 1) /\ b.input \in Nat
  BY <1>3 DEF Batches
<1>5. \A r : Coming(w, r) <=> Coming(v, r)
  BY DEF Unqueues, Coming
<1>6. \A r, k : Due(w, r, k) <=> Due(v, r, k)
  BY <1>5 DEF Unqueues, Due
<1>7. /\ Queued(v.x.idle, b.req, b.no)
      /\ \A r, k : Queued(w.x.idle, r, k) => Queued(v.x.idle, r, k)
      /\ \A r, k : Queued(v.x.idle, r, k) => Queued(w.x.idle, r, k) \/ (b.req = r /\ b.no = k)
  BY <1>1, QueuedTail DEF Unqueues
<1>8. Sorted(w.x.idle) /\ \A k : Queued(w.x.idle, b.req, k) => b.no < k
  BY <1>1, SortedTail DEF Unqueues
<1>9. Inputs(v, b.req, b.input)
  BY <1>2 DEF Inputs
<1>10. \A r, c : Inputs(w, r, c) => Inputs(v, r, c)
  <2>1. /\ \A i \in 1..Len(Tail(v.x.idle)) : Tail(v.x.idle)[i] = v.x.idle[i + 1]
        /\ Len(Tail(v.x.idle)) = Len(v.x.idle) - 1
    BY <1>1, HeadTailProperties
  <2>. DEFINE p == Tail(v.x.idle)
  <2>2. w.x.idle = p /\ w.x.threads = v.x.threads
    BY DEF Unqueues
  <2>3. Len(p) = Len(v.x.idle) - 1 /\ \A i \in 1..Len(p) : p[i] = v.x.idle[i + 1]
    BY <2>1
  <2>. HIDE DEF p
  <2>4. \A i \in 1..Len(p) : i + 1 \in 1..Len(v.x.idle)
    BY <2>3, <1>2
  <2>. QED  BY <2>2, <2>3, <2>4 DEF Inputs
<1>11. UniqueInv(w)
  BY <1>5 DEF Unqueues, UniqueInv, ComesOnce, Side
<1>12. InputInv(w)
  BY <1>10 DEF InputInv, Side, Unqueues
<1>. QED  BY <1>3, <1>4, <1>5, <1>6, <1>7, <1>8, <1>9, <1>10, <1>11, <1>12, NosTypes

LEMMA DropsMoves ==
  ASSUME NEW v \in Lines, NEW w \in Lines, Side(v), Unqueues(v, w),
         w.out = v.out, Superseded(v.x, Head(v.x.idle).input)
  PROVE  Side(w) /\ Moves(v, w)
<1>. DEFINE b == Head(v.x.idle)
<1>1. /\ UniqueInv(w) /\ InputInv(w) /\ Sorted(w.x.idle) /\ b.input \in Nat
      /\ \A r : Coming(w, r) <=> Coming(v, r)
      /\ \A r, k : Due(w, r, k) <=> Due(v, r, k)
      /\ \A r, c : Inputs(w, r, c) => Inputs(v, r, c)
      /\ Inputs(v, b.req, b.input)
      /\ \A r, k : Queued(w.x.idle, r, k) => Queued(v.x.idle, r, k)
      /\ \A r, k : Queued(v.x.idle, r, k) => Queued(w.x.idle, r, k) \/ (b.req = r /\ b.no = k)
  BY UnqueuesFacts
<1>2. Superseded(v.x, b.input)
  OBVIOUS
<1>. HIDE DEF b
<1>3. OrderInv(w)
  BY <1>1 DEF OrderInv, Side, Unqueues
<1>4. \A r \in Reqs, k \in Nos : Pend(w, r, k) => Pend(v, r, k)
  BY <1>1 DEF Pend, Unqueues
<1>5. \A k \in Nos : k <= k
  BY NosTypes, Zenon
<1>6. ASSUME NEW r \in Reqs, NEW n \in Nat, Chain(v, r, n)
      PROVE  Chain(w, r, n)
  <2>1. ASSUME NEW k \in Nos, Alive(w, r), Queued(w.x.idle, r, k) \/ Due(w, r, k)
        PROVE  k = n \/ Queued(w.out, r, k - 1) \/ Queued(w.x.idle, r, k - 1)
    <3>1. w.x.input = v.x.input
      BY DEF Unqueues
    <3>2. Alive(v, r)
      BY <1>1, <2>1, <3>1, AliveBefore
    <3>3. r # b.req
      BY <1>1, <1>2, <3>2 DEF Alive
    <3>4. k = n \/ Queued(v.out, r, k - 1) \/ Queued(v.x.idle, r, k - 1)
      BY <1>1, <1>6, <2>1, <3>2 DEF Chain
    <3>. QED  BY <3>3, <3>4, <1>1
  <2>2. \A k \in Nos : Queued(w.late, r, k) => k = n \/ Queued(w.late, r, k - 1)
    BY <1>6 DEF Chain, Unqueues
  <2>. QED  BY <2>1, <2>2, <1>6 DEF Chain
<1>7. Narrows(v, w)
  BY <1>1, <1>5 DEF Narrows, Rest
<1>. QED  BY <1>1, <1>3, <1>4, <1>5, <1>6, <1>7 DEF Side, Moves

LEMMA SendsMoves ==
  ASSUME NEW v \in Lines, NEW w \in Lines, Side(v), Unqueues(v, w),
         ~Superseded(v.x, Head(v.x.idle).input), NEW m \in Messages,
         m.req = Head(v.x.idle).req, m.no = Head(v.x.idle).no, w.out = Append(v.out, m)
  PROVE  Side(w) /\ Moves(v, w)
<1>. DEFINE b == Head(v.x.idle)
<1>2. ~Superseded(v.x, b.input) /\ m.req = b.req /\ m.no = b.no /\ b = Head(v.x.idle)
  OBVIOUS
<1>. HIDE DEF b
<1>1. /\ UniqueInv(w) /\ InputInv(w) /\ Sorted(w.x.idle) /\ b.input \in Nat
      /\ b.req \in Reqs /\ b.no \in Nos /\ b.no \in Nat
      /\ \A r : Coming(w, r) <=> Coming(v, r)
      /\ \A r, k : Due(w, r, k) <=> Due(v, r, k)
      /\ \A r, c : Inputs(w, r, c) => Inputs(v, r, c)
      /\ Inputs(v, b.req, b.input)
      /\ Queued(v.x.idle, b.req, b.no)
      /\ \A r, k : Queued(w.x.idle, r, k) => Queued(v.x.idle, r, k)
      /\ \A r, k : Queued(v.x.idle, r, k) => Queued(w.x.idle, r, k) \/ (b.req = r /\ b.no = k)
      /\ \A k : Queued(w.x.idle, b.req, k) => b.no < k
  <2>. SUFFICES ASSUME NEW c, c = b
                PROVE  /\ UniqueInv(w) /\ InputInv(w) /\ Sorted(w.x.idle) /\ c.input \in Nat
                       /\ c.req \in Reqs /\ c.no \in Nos /\ c.no \in Nat
                       /\ \A r : Coming(w, r) <=> Coming(v, r)
                       /\ \A r, k : Due(w, r, k) <=> Due(v, r, k)
                       /\ \A r, i : Inputs(w, r, i) => Inputs(v, r, i)
                       /\ Inputs(v, c.req, c.input)
                       /\ Queued(v.x.idle, c.req, c.no)
                       /\ \A r, k : Queued(w.x.idle, r, k) => Queued(v.x.idle, r, k)
                       /\ \A r, k : Queued(v.x.idle, r, k) =>
                            Queued(w.x.idle, r, k) \/ (c.req = r /\ c.no = k)
                       /\ \A k : Queued(w.x.idle, c.req, k) => c.no < k
    OBVIOUS
  <2>1. c = Head(v.x.idle)
    BY <1>2
  <2>. QED  BY <2>1, UnqueuesFacts
<1>3. \A r, k : Queued(w.out, r, k) <=> Queued(v.out, r, k) \/ (r = b.req /\ k = b.no)
  <2>1. v.out \in Seq(Messages)
    BY LineTypes
  <2>. QED  BY <1>2, <2>1, QueuedAppend
<1>4. Sorted(w.out)
  <2>1. ASSUME NEW i \in 1..Len(v.out), v.out[i].req = m.req
        PROVE  v.out[i].no < m.no
    <3>1. Queued(v.out, b.req, v.out[i].no)
      BY <1>2, <2>1 DEF Queued
    <3>2. v.out[i].no \in Nos
      BY <3>1, QueueTypes
    <3>. QED  BY <3>1, <3>2, <1>1, <1>2 DEF Side, OrderInv
  <2>2. Sorted(v.out) /\ v.out \in Seq(Messages)
    BY LineTypes DEF Side, OrderInv
  <2>3. Sorted(Append(v.out, m))
    BY <2>1, <2>2, SortedAppend, Zenon
  <2>. QED  BY <2>3
<1>5. OrderInv(w)
  <2>1. Sorted(w.late)
    BY DEF Side, OrderInv, Unqueues
  <2>2. \A r \in Reqs, k, l \in Nos : Queued(w.x.idle, r, k) /\ Due(w, r, l) => k < l
    BY <1>1 DEF Side, OrderInv
  <2>3. ASSUME NEW r \in Reqs, NEW k \in Nos, NEW l \in Nos,
               Queued(w.out, r, k), Queued(w.x.idle, r, l) \/ Due(w, r, l)
        PROVE  k < l
    <3>1. CASE Queued(v.out, r, k)
      BY <3>1, <2>3, <1>1 DEF Side, OrderInv
    <3>2. CASE r = b.req /\ k = b.no
      BY <3>2, <2>3, <1>1 DEF Side, OrderInv
    <3>. QED  BY <3>1, <3>2, <2>3, <1>3
  <2>4. \A r \in Reqs, k, l \in Nos : Queued(w.late, r, k) =>
          ~Queued(w.out, r, l) /\ ~Queued(w.x.idle, r, l) /\ ~Due(w, r, l)
    BY <1>1, <1>3 DEF Side, OrderInv, Unqueues
  <2>. QED  BY <1>1, <1>4, <2>1, <2>2, <2>3, <2>4 DEF OrderInv
<1>6. \A r \in Reqs, k \in Nos : Pend(w, r, k) => Pend(v, r, k)
  BY <1>1, <1>3 DEF Pend, Unqueues
<1>7. \A k \in Nos : k <= k
  BY NosTypes, Zenon
<1>8. ASSUME NEW r \in Reqs, NEW n \in Nat, Chain(v, r, n)
      PROVE  Chain(w, r, n)
  <2>1. ASSUME NEW k \in Nos, Alive(w, r), Queued(w.x.idle, r, k) \/ Due(w, r, k)
        PROVE  k = n \/ Queued(w.out, r, k - 1) \/ Queued(w.x.idle, r, k - 1)
    <3>1. w.x.input = v.x.input
      BY DEF Unqueues
    <3>2. Alive(v, r)
      BY <1>1, <2>1, <3>1, AliveBefore
    <3>3. k = n \/ Queued(v.out, r, k - 1) \/ Queued(v.x.idle, r, k - 1)
      BY <1>1, <1>8, <2>1, <3>2 DEF Chain
    <3>. QED  BY <3>3, <1>1, <1>3
  <2>2. ASSUME NEW k \in Nos, Queued(w.out, r, k)
        PROVE  k = n \/ Queued(w.out, r, k - 1)
    <3>1. CASE Queued(v.out, r, k)
      BY <3>1, <1>3, <1>8 DEF Chain
    <3>2. CASE r = b.req /\ k = b.no
      <4>1. Alive(v, r)
        BY <1>1, <1>2, <3>2 DEF Alive, Side, InputInv
      <4>2. k = n \/ Queued(v.out, r, k - 1) \/ Queued(v.x.idle, r, k - 1)
        BY <1>1, <1>8, <3>2, <4>1 DEF Chain
      <4>3. ~Queued(v.x.idle, r, k - 1)
        <5>1. ~(b.no < b.no - 1) /\ b.no # b.no - 1
          BY <1>1
        <5>. QED  BY <5>1, <3>2, <1>1
      <4>. QED  BY <4>2, <4>3, <1>3
    <3>. QED  BY <3>1, <3>2, <2>2, <1>3
  <2>3. \A k \in Nos : Queued(w.late, r, k) => k = n \/ Queued(w.late, r, k - 1)
    BY <1>8 DEF Chain, Unqueues
  <2>. QED  BY <2>1, <2>2, <2>3 DEF Chain
<1>9. Narrows(v, w)
  BY <1>1, <1>7 DEF Narrows, Rest
<1>. QED  BY <1>1, <1>5, <1>6, <1>7, <1>8, <1>9 DEF Side, Moves

\* The app closes its end, and still has some of what was written to it.
LEMMA ClosesMoves ==
  ASSUME NEW v \in Lines, NEW w \in Lines, Side(v), w.x.idle = <<>>, w.x.threads = {},
         w.x.debounce = 0, w.events = <<>>, w.out = <<>>,
         NEW n \in 0..Len(v.out), w.late = v.late \o SubSeq(v.out, 1, n)
  PROVE  Side(w) /\ Moves(v, w)
<1>1. /\ \A r, k : ~Queued(w.x.idle, r, k) /\ ~Queued(w.out, r, k) /\ ~Due(w, r, k)
      /\ \A r, c : ~Inputs(w, r, c)
  BY EmptySeq DEF Queued, Inputs, Due, Coming
<1>2. v.late \in Seq(Messages) /\ v.out \in Seq(Messages) /\ Sorted(v.late) /\ Sorted(v.out)
  BY LineTypes DEF Side, OrderInv
<1>3. \A r, k, l : Queued(v.late, r, k) => ~Queued(v.out, r, l)
  BY QueueTypes DEF Side, OrderInv
<1>4. /\ Sorted(w.late)
      /\ \A r, k : Queued(w.late, r, k) => Queued(v.late, r, k) \/ Queued(v.out, r, k)
      /\ \A r, k : Queued(v.late, r, k) => Queued(w.late, r, k)
      /\ \A r : \A k, l \in Nat : Queued(w.late, r, k) /\ Queued(v.out, r, k)
                                    /\ Queued(v.out, r, l) /\ l < k => Queued(w.late, r, l)
  BY <1>2, <1>3, SortedClosed
<1>5. Sorted(<<>>)
  BY EmptySeq DEF Sorted
<1>6. OrderInv(w)
  BY <1>1, <1>4, <1>5 DEF OrderInv
<1>7. UniqueInv(w) /\ InputInv(w)
  BY <1>1, EmptySeq DEF UniqueInv, ComesOnce, InputInv
<1>8. \A r \in Reqs, k \in Nos : Pend(w, r, k) => Pend(v, r, k)
  BY <1>1, <1>4 DEF Pend
<1>9. \A k \in Nos : k <= k
  BY NosTypes, Zenon
<1>10. ASSUME NEW r \in Reqs, NEW i \in Nat, Chain(v, r, i)
       PROVE  Chain(w, r, i)
  <2>. SUFFICES ASSUME NEW k \in Nos, Queued(w.late, r, k)
                PROVE  k = i \/ Queued(w.late, r, k - 1)
    BY <1>1 DEF Chain
  <2>1. CASE Queued(v.late, r, k)
    BY <2>1, <1>4, <1>10 DEF Chain
  <2>2. CASE Queued(v.out, r, k)
    <3>1. k = i \/ Queued(v.out, r, k - 1)
      BY <2>2, <1>10 DEF Chain
    <3>2. k \in Nat /\ k # 0
      BY <2>2, QueueTypes, NosTypes
    <3>3. k - 1 \in Nat /\ k - 1 < k
      BY <3>2
    <3>. QED  BY <3>1, <3>2, <3>3, <2>2, <1>4
  <2>. QED  BY <2>1, <2>2, <1>4
<1>11. Narrows(v, w)
  <2>1. \A r : Coming(w, r) => Due(w, r, 1)
    BY DEF Due
  <2>. QED  BY <2>1, <1>1 DEF Narrows, Rest
<1>. QED  BY <1>6, <1>7, <1>8, <1>9, <1>10, <1>11 DEF Side, Moves

\* The app reads the first message of a queue: the batch that was awaited.
Reads(v, w, m) ==
  /\ w.x = v.x /\ w.events = v.events
  /\ \/ v.out # <<>> /\ m = Head(v.out) /\ w.out = Tail(v.out) /\ w.late = v.late
     \/ v.late # <<>> /\ m = Head(v.late) /\ w.late = Tail(v.late) /\ w.out = v.out

\* What is left when message m was read: all that was to come of its request
\* comes after it, and it was the batch that was awaited.
Took(v, w, m) ==
  /\ Pend(v, m.req, m.no) /\ m.req \in Reqs /\ m.no \in Nos
  /\ \A r \in Reqs, k \in Nos : Pend(w, r, k) => Pend(v, r, k)
  /\ \A k \in Nos : Pend(w, m.req, k) => m.no < k
  /\ \A r \in Reqs, n \in Nat : r # m.req /\ Chain(v, r, n) => Chain(w, r, n)
  /\ \A n \in Nat : Chain(v, m.req, n) => m.no = n /\ Chain(w, m.req, n + 1)

LEMMA ReadsSame ==
  ASSUME NEW v \in Lines, NEW w \in Lines, Side(v), NEW m, Reads(v, w, m)
  PROVE  /\ UniqueInv(w) /\ InputInv(w)
         /\ \A r : Alive(w, r) <=> Alive(v, r)
         /\ \A r, k : Due(w, r, k) <=> Due(v, r, k)
<1>1. \A r : Coming(w, r) <=> Coming(v, r)
  BY DEF Reads, Coming
<1>2. \A r, c : Inputs(w, r, c) <=> Inputs(v, r, c)
  BY DEF Reads, Inputs
<1>3. UniqueInv(w)
  BY <1>1 DEF Reads, UniqueInv, ComesOnce, Side
<1>4. InputInv(w) /\ \A r : Alive(w, r) <=> Alive(v, r)
  BY <1>2 DEF Reads, InputInv, Side, Alive
<1>5. \A r, k : Due(w, r, k) <=> Due(v, r, k)
  BY <1>1 DEF Reads, Due
<1>. QED  BY <1>3, <1>4, <1>5

LEMMA ReadsOut ==
  ASSUME NEW v \in Lines, NEW w \in Lines, Side(v), NEW m, Reads(v, w, m),
         v.out # <<>>, m = Head(v.out), w.out = Tail(v.out), w.late = v.late
  PROVE  Side(w) /\ Took(v, w, m)
<1>1. v.out \in Seq(Messages) /\ Sorted(v.out)
  BY LineTypes DEF Side, OrderInv
<1>2. /\ Queued(v.out, m.req, m.no)
      /\ \A r, k : Queued(w.out, r, k) => Queued(v.out, r, k)
      /\ \A r, k : Queued(v.out, r, k) => Queued(w.out, r, k) \/ (m.req = r /\ m.no = k)
  BY <1>1, QueuedTail
<1>3. Sorted(w.out) /\ \A k : Queued(w.out, m.req, k) => m.no < k
  BY <1>1, SortedTail
<1>4. m.req \in Reqs /\ m.no \in Nos /\ m.no \in Nat
  BY <1>2, QueueTypes, NosTypes
<1>5. /\ UniqueInv(w) /\ InputInv(w)
      /\ \A r : Alive(w, r) <=> Alive(v, r)
      /\ \A r, k : Due(w, r, k) <=> Due(v, r, k)
  BY ReadsSame
<1>6. w.x = v.x
  BY DEF Reads
<1>7. OrderInv(w)
  <2>1. Sorted(w.x.idle) /\ Sorted(w.late)
    BY <1>6 DEF Side, OrderInv
  <2>2. \A r \in Reqs, k, l \in Nos : Queued(w.x.idle, r, k) /\ Due(w, r, l) => k < l
    BY <1>5, <1>6 DEF Side, OrderInv
  <2>3. \A r \in Reqs, k, l \in Nos :
          Queued(w.out, r, k) /\ (Queued(w.x.idle, r, l) \/ Due(w, r, l)) => k < l
    BY <1>2, <1>5, <1>6 DEF Side, OrderInv
  <2>4. \A r \in Reqs, k, l \in Nos : Queued(w.late, r, k) =>
          ~Queued(w.out, r, l) /\ ~Queued(w.x.idle, r, l) /\ ~Due(w, r, l)
    BY <1>2, <1>5, <1>6 DEF Side, OrderInv
  <2>. QED  BY <1>3, <2>1, <2>2, <2>3, <2>4 DEF OrderInv
<1>8. \A r \in Reqs, k \in Nos : Pend(w, r, k) => Pend(v, r, k)
  BY <1>2, <1>5, <1>6 DEF Pend
<1>9. ASSUME NEW k \in Nos, Pend(w, m.req, k)
      PROVE  m.no < k
  <2>1. CASE Queued(w.out, m.req, k)
    BY <2>1, <1>3
  <2>2. CASE Queued(w.x.idle, m.req, k) \/ Due(w, m.req, k)
    BY <2>2, <1>2, <1>4, <1>5, <1>6 DEF Side, OrderInv
  <2>3. ~Queued(w.late, m.req, k)
    BY <1>2, <1>4 DEF Side, OrderInv
  <2>. QED  BY <2>1, <2>2, <2>3, <1>9 DEF Pend
<1>10. ASSUME NEW r \in Reqs, NEW n \in Nat, r # m.req, Chain(v, r, n)
       PROVE  Chain(w, r, n)
  <2>1. \A k : Queued(w.out, r, k) <=> Queued(v.out, r, k)
    BY <1>2, <1>10
  <2>. QED  BY <2>1, <1>5, <1>6, <1>10 DEF Chain
<1>11. ASSUME NEW n \in Nat, Chain(v, m.req, n)
       PROVE  m.no = n /\ Chain(w, m.req, n + 1)
  <2>. DEFINE r == m.req
  <2>1. m.no = n
    <3>1. m.no = n \/ Queued(v.out, r, m.no - 1)
      BY <1>2, <1>4, <1>11 DEF Chain
    <3>2. ~(m.no < m.no - 1) /\ m.no # m.no - 1
      BY <1>4
    <3>. QED  BY <3>1, <3>2, <1>2, <1>3
  <2>2. ASSUME NEW k \in Nos, k = n \/ Queued(v.out, r, k - 1) \/ Queued(v.x.idle, r, k - 1),
               m.no < k
        PROVE  k = n + 1 \/ Queued(w.out, r, k - 1) \/ Queued(w.x.idle, r, k - 1)
    <3>1. k # n /\ (k - 1 = m.no => k = n + 1)
      BY <2>1, <2>2, NosTypes
    <3>2. Queued(v.out, r, k - 1) => Queued(w.out, r, k - 1) \/ k - 1 = m.no
      BY <1>2
    <3>. QED  BY <3>1, <3>2, <2>2, <1>6
  <2>3. \A k \in Nos : Queued(w.out, r, k) => k = n + 1 \/ Queued(w.out, r, k - 1)
    <3>. SUFFICES ASSUME NEW k \in Nos, Queued(w.out, r, k)
                  PROVE  k = n + 1 \/ Queued(w.out, r, k - 1)
      OBVIOUS
    <3>1. k = n \/ Queued(v.out, r, k - 1)
      BY <1>2, <1>11 DEF Chain
    <3>2. k # n /\ (k - 1 = m.no => k = n + 1)
      BY <2>1, <1>3, <1>4, NosTypes
    <3>. QED  BY <3>1, <3>2, <1>2
  <2>4. \A k \in Nos : Queued(w.late, r, k) => k = n + 1 \/ Queued(w.late, r, k - 1)
    BY <1>2, <1>4 DEF Side, OrderInv
  <2>5. Alive(w, r) => \A k \in Nos : Queued(w.x.idle, r, k) \/ Due(w, r, k) =>
          k = n + 1 \/ Queued(w.out, r, k - 1) \/ Queued(w.x.idle, r, k - 1)
    <3>. SUFFICES ASSUME Alive(w, r), NEW k \in Nos, Queued(w.x.idle, r, k) \/ Due(w, r, k)
                  PROVE  k = n + 1 \/ Queued(w.out, r, k - 1) \/ Queued(w.x.idle, r, k - 1)
      OBVIOUS
    <3>1. k = n \/ Queued(v.out, r, k - 1) \/ Queued(v.x.idle, r, k - 1)
      BY <1>5, <1>6, <1>11 DEF Chain
    <3>2. m.no < k
      BY <1>9 DEF Pend
    <3>. QED  BY <3>1, <3>2, <2>2
  <2>. QED  BY <2>1, <2>3, <2>4, <2>5 DEF Chain
<1>. QED  BY <1>2, <1>4, <1>5, <1>7, <1>8, <1>9, <1>10, <1>11 DEF Side, Pend, Took

LEMMA ReadsLate ==
  ASSUME NEW v \in Lines, NEW w \in Lines, Side(v), NEW m, Reads(v, w, m),
         v.late # <<>>, m = Head(v.late), w.late = Tail(v.late), w.out = v.out
  PROVE  Side(w) /\ Took(v, w, m)
<1>1. v.late \in Seq(Messages) /\ Sorted(v.late)
  BY LineTypes DEF Side, OrderInv
<1>2. /\ Queued(v.late, m.req, m.no)
      /\ \A r, k : Queued(w.late, r, k) => Queued(v.late, r, k)
      /\ \A r, k : Queued(v.late, r, k) => Queued(w.late, r, k) \/ (m.req = r /\ m.no = k)
  BY <1>1, QueuedTail
<1>3. Sorted(w.late) /\ \A k : Queued(w.late, m.req, k) => m.no < k
  BY <1>1, SortedTail
<1>4. m.req \in Reqs /\ m.no \in Nos /\ m.no \in Nat
  BY <1>2, QueueTypes, NosTypes
<1>5. /\ UniqueInv(w) /\ InputInv(w)
      /\ \A r : Alive(w, r) <=> Alive(v, r)
      /\ \A r, k : Due(w, r, k) <=> Due(v, r, k)
  BY ReadsSame
<1>6. w.x = v.x
  BY DEF Reads
<1>7. OrderInv(w)
  BY <1>2, <1>3, <1>5, <1>6 DEF Side, OrderInv
<1>8. \A r \in Reqs, k \in Nos : Pend(w, r, k) => Pend(v, r, k)
  BY <1>2, <1>5, <1>6 DEF Pend
<1>9. \A k \in Nos :
        ~Queued(v.out, m.req, k) /\ ~Queued(v.x.idle, m.req, k) /\ ~Due(v, m.req, k)
  BY <1>2, <1>4 DEF Side, OrderInv
<1>10. ASSUME NEW k \in Nos, Pend(w, m.req, k)
       PROVE  m.no < k
  BY <1>3, <1>5, <1>6, <1>9, <1>10 DEF Pend
<1>11. ASSUME NEW r \in Reqs, NEW n \in Nat, r # m.req, Chain(v, r, n)
       PROVE  Chain(w, r, n)
  <2>1. \A k : Queued(w.late, r, k) <=> Queued(v.late, r, k)
    BY <1>2, <1>11
  <2>. QED  BY <2>1, <1>5, <1>6, <1>11 DEF Chain
<1>12. ASSUME NEW n \in Nat, Chain(v, m.req, n)
       PROVE  m.no = n /\ Chain(w, m.req, n + 1)
  <2>. DEFINE r == m.req
  <2>1. m.no = n
    <3>1. m.no = n \/ Queued(v.late, r, m.no - 1)
      BY <1>2, <1>4, <1>12 DEF Chain
    <3>2. ~(m.no < m.no - 1) /\ m.no # m.no - 1
      BY <1>4
    <3>. QED  BY <3>1, <3>2, <1>2, <1>3
  <2>2. \A k \in Nos : Queued(w.late, r, k) => k = n + 1 \/ Queued(w.late, r, k - 1)
    <3>. SUFFICES ASSUME NEW k \in Nos, Queued(w.late, r, k)
                  PROVE  k = n + 1 \/ Queued(w.late, r, k - 1)
      OBVIOUS
    <3>1. k = n \/ Queued(v.late, r, k - 1)
      BY <1>2, <1>12 DEF Chain
    <3>2. k # n /\ (k - 1 = m.no => k = n + 1)
      BY <2>1, <1>3, <1>4, NosTypes
    <3>. QED  BY <3>1, <3>2, <1>2
  <2>. QED  BY <2>1, <2>2, <1>5, <1>6, <1>9 DEF Chain
<1>. QED  BY <1>2, <1>4, <1>5, <1>7, <1>8, <1>10, <1>11, <1>12 DEF Side, Pend, Took

\* An event of a new request is written to the extension.
LEMMA WritesMoves ==
  ASSUME NEW v \in Lines, NEW w \in Lines, Side(v), NEW ev \in Events, w.x = v.x,
         w.events = Append(v.events, ev), w.out = v.out, w.late = v.late,
         \A k \in Nos : ~Pend(v, ev.req, k)
  PROVE  /\ Side(w) /\ ev.req \in Reqs
         /\ \A r \in Reqs, k \in Nos : Pend(w, r, k) => Pend(v, r, k) \/ (r = ev.req /\ k = 1)
         /\ \A r \in Reqs, n \in Nat : r # ev.req /\ Chain(v, r, n) => Chain(w, r, n)
         /\ Chain(w, ev.req, 1)
<1>. DEFINE p == Append(v.events, ev)
<1>1. /\ Len(p) = Len(v.events) + 1 /\ p[Len(v.events) + 1] = ev /\ Len(v.events) \in Nat
      /\ \A i \in 1..Len(v.events) : p[i] = v.events[i]
  BY LineTypes, AppendProperties
<1>2. w.events = p
  OBVIOUS
<1>. HIDE DEF p
<1>3. /\ \A i \in 1..Len(p) : i \in 1..Len(v.events) \/ i = Len(v.events) + 1
      /\ \A i \in 1..Len(v.events) : i \in 1..Len(p)
      /\ Len(v.events) + 1 \in 1..Len(p)
  BY <1>1
<1>4. ev.req \in Reqs /\ ev.req # 0 /\ 1 \in Nos
  BY NosTypes DEF Events
<1>5. \A r : Coming(w, r) <=> Coming(v, r) \/ r = ev.req
  BY <1>1, <1>2, <1>3 DEF Coming
<1>6. ~Coming(v, ev.req)
  BY <1>4 DEF Pend, Due
<1>7. \A t \in v.x.threads : t.req # ev.req
  <2>. SUFFICES ASSUME NEW t \in v.x.threads, t.req = ev.req  PROVE FALSE
    OBVIOUS
  <2>1. Due(v, ev.req, t.no + 1)
    BY DEF Due
  <2>2. t.no + 1 \in Nos
    BY <2>1, QueueTypes
  <2>. QED  BY <2>1, <2>2 DEF Pend
<1>8. \A r, k : Due(w, r, k) <=> Due(v, r, k) \/ (r = ev.req /\ k = 1)
  BY <1>5 DEF Due
<1>9. ComesOnce(w)
  <2>1. \A i \in 1..Len(v.events) : v.events[i].req # ev.req
    BY <1>6 DEF Coming
  <2>2. v.x.debounce # ev.req
    BY <1>4, <1>6 DEF Coming
  <2>3. \A i \in 1..Len(p) : p[i].req # w.x.debounce
    BY <2>2, <1>1, <1>3 DEF Side, UniqueInv, ComesOnce
  <2>4. ASSUME NEW j \in 1..Len(p), NEW i \in 1..j - 1
        PROVE  p[i].req # p[j].req
    <3>1. i \in 1..Len(v.events)
      BY <1>1
    <3>2. CASE j = Len(v.events) + 1
      BY <3>1, <3>2, <2>1, <1>1
    <3>3. CASE j \in 1..Len(v.events)
      BY <3>1, <3>3, <1>1 DEF Side, UniqueInv, ComesOnce
    <3>. QED  BY <3>2, <3>3, <1>3
  <2>. QED  BY <2>3, <2>4, <1>2 DEF ComesOnce
<1>10. UniqueInv(w)
  BY <1>5, <1>7, <1>9 DEF Side, UniqueInv
<1>11. /\ InputInv(w)
       /\ \A r : Alive(w, r) <=> Alive(v, r)
  BY DEF InputInv, Inputs, Alive, Side
<1>12. \A k \in Nos : ~Queued(v.x.idle, ev.req, k) /\ ~Queued(v.out, ev.req, k)
                        /\ ~Queued(v.late, ev.req, k) /\ ~Due(v, ev.req, k)
  BY DEF Pend
<1>13. OrderInv(w)
  BY <1>8, <1>12 DEF OrderInv, Side
<1>14. \A r \in Reqs, k \in Nos : Pend(w, r, k) => Pend(v, r, k) \/ (r = ev.req /\ k = 1)
  BY <1>8 DEF Pend
<1>15. ASSUME NEW r \in Reqs, NEW n \in Nat, r # ev.req, Chain(v, r, n)
       PROVE  Chain(w, r, n)
  BY <1>8, <1>11, <1>15 DEF Chain
<1>16. Chain(w, ev.req, 1)
  BY <1>8, <1>12 DEF Chain
<1>. QED  BY <1>4, <1>10, <1>11, <1>13, <1>14, <1>15, <1>16 DEF Side

-----------------------------------------------------------------------------
(* The actions of an extension's side, as moves of its line. *)

LEMMA LineFacts ==
  ASSUME Types, NEW e \in Exts
  PROVE  /\ Line(e) \in Lines /\ Line(e).x = ext[e] /\ Line(e).events = toExt[e]
         /\ Line(e).out = toApp[e] /\ Line(e).late = late[e]
BY DEF Types, Line, Lines

LEMMA NextLineFacts ==
  ASSUME Types', NEW e \in Exts
  PROVE  /\ Line(e)' \in Lines /\ Line(e)'.x = ext'[e] /\ Line(e)'.events = toExt'[e]
         /\ Line(e)'.out = toApp'[e] /\ Line(e)'.late = late'[e]
BY DEF Types, Line, Lines

\* The step is one of extension e's line.
OfLine(e) == \A f \in Exts : f # e => Line(f)' = Line(f)
SideMoves(e) == OfLine(e) /\ Side(Line(e))' /\ Moves(Line(e), Line(e)')

LEMMA SendResponseLine ==
  ASSUME Types, Types', NEW e \in Exts, NEW x \in Processes, NEW b \in Batches,
         SendResponse(e, x, b)
  PROVE  /\ \A f \in Exts : f # e => ext'[f] = ext[f] /\ toApp'[f] = toApp[f]
         /\ ext'[e].threads = x.threads /\ ext'[e].debounce = x.debounce
         /\ ext'[e].input = x.input /\ ext'[e].idle = x.idle
         /\ \/ toApp' = toApp /\ Superseded(x, b.input)
            \/ /\ ~Superseded(x, b.input)
               /\ \E m \in Messages : /\ m.req = b.req /\ m.no = b.no
                                      /\ toApp'[e] = Append(toApp[e], m)
<1>1. ext \in [Exts -> Processes] /\ toApp \in [Exts -> Seq(Messages)]
  BY DEF Types
<1>2. CASE Superseded(x, b.input)
  BY <1>1, <1>2 DEF SendResponse
<1>3. CASE ~Superseded(x, b.input)
  <2>1. ~(ext' = [ext EXCEPT ![e] = x] /\ toApp' = toApp)
    <3>. SUFFICES ASSUME toApp' = toApp  PROVE FALSE
      OBVIOUS
    <3>1. PICK m : toApp' = [toApp EXCEPT ![e] = Append(@, m)]
      BY <1>3 DEF SendResponse
    <3>2. toApp[e] = Append(toApp[e], m) /\ toApp[e] \in Seq(Messages)
      BY <1>1, <3>1
    <3>3. toApp'[e] \in Seq(Messages)
      BY DEF Types
    <3>4. Len(Append(toApp[e], m)) = Len(toApp[e]) + 1 /\ Len(toApp[e]) \in Nat
      BY <3>2, LenProperties
    <3>. QED  BY <3>2, <3>4
  <2>2. PICK y \in Processes, m \in Messages :
          /\ Responded(x, b, y, m) /\ ~Superseded(x, b.input)
          /\ ext' = [ext EXCEPT ![e] = y] /\ toApp' = [toApp EXCEPT ![e] = Append(@, m)]
    BY <2>1, SendResponseFacts
  <2>3. OnlyIds(x, y)
    BY <2>2, AssignIdsFacts DEF Responded, OnlyIds
  <2>4. ext'[e] = y /\ toApp'[e] = Append(toApp[e], m)
    BY <1>1, <2>2
  <2>5. \A f \in Exts : f # e => ext'[f] = ext[f] /\ toApp'[f] = toApp[f]
    BY <1>1, <2>2
  <2>. QED  BY <1>3, <2>2, <2>3, <2>4, <2>5 DEF OnlyIds, Responded
<1>. QED  BY <1>2, <1>3

LEMMA TriggersMove ==
  ASSUME Types, Types', NEW e \in Exts, Side(Line(e)),
         NEW x \in Processes, NEW ev \in Events, DoTriggerEvent(e, x, ev),
         x.idle = ext[e].idle, x.threads = ext[e].threads, x.input = ext[e].input,
         late' = late, Coming(Line(e), ev.req),
         \A w : w.events = toExt'[e] /\ w.x.debounce = x.debounce =>
           ComesOnce(w) /\ \A r : Coming(w, r) => Coming(Line(e), r) /\ r # ev.req
  PROVE  /\ \A f \in Exts : f # e => ext'[f] = ext[f] /\ toApp'[f] = toApp[f]
         /\ Side(Line(e)') /\ Moves(Line(e), Line(e)')
<1>. DEFINE v == Line(e)
            w == Line(e)'
<1>1. /\ v \in Lines /\ v.x = ext[e] /\ v.events = toExt[e] /\ v.out = toApp[e] /\ v.late = late[e]
  BY LineFacts
<1>2. /\ w \in Lines /\ w.x = ext'[e] /\ w.events = toExt'[e] /\ w.out = toApp'[e] /\ w.late = late[e]
  BY NextLineFacts
<1>3. /\ Side(v) /\ Coming(v, ev.req)
      /\ \A u : u.events = toExt'[e] /\ u.x.debounce = x.debounce =>
           ComesOnce(u) /\ \A r : Coming(u, r) => Coming(v, r) /\ r # ev.req
  OBVIOUS
<1>. SUFFICES /\ \A f \in Exts : f # e => ext'[f] = ext[f] /\ toApp'[f] = toApp[f]
              /\ Side(w) /\ Moves(v, w)
  OBVIOUS
<1>. HIDE DEF v, w
<1>4. ev.req \in Reqs /\ ext \in [Exts -> Processes] /\ toApp \in [Exts -> Seq(Messages)]
  BY DEF Types, Events
<1>5. ASSUME w.x.debounce = x.debounce, w.x.idle = x.idle
      PROVE  Takes(v, w, ev.req)
  BY <1>1, <1>2, <1>3, <1>5 DEF Takes
<1>6. CASE ext' = [ext EXCEPT ![e] = [x EXCEPT !.listening = FALSE]] /\ toApp' = toApp
  <2>1. /\ ext'[e].debounce = x.debounce /\ ext'[e].idle = x.idle /\ ext'[e].threads = x.threads
        /\ ext'[e].input = x.input /\ \A f \in Exts : f # e => ext'[f] = ext[f]
    BY <1>4, <1>6 DEF Processes
  <2>2. Takes(v, w, ev.req)
    BY <1>2, <1>5, <2>1
  <2>3. ComesOnce(w) /\ (\A r : Coming(w, r) => Coming(v, r)) /\ w.out = v.out
    BY <1>1, <1>2, <1>6, <2>2 DEF Takes
  <2>4. w.x.threads \subseteq v.x.threads /\ w.x.input = v.x.input /\ w.x.idle = v.x.idle
        /\ w.late = v.late
    BY <1>1, <1>2, <2>1
  <2>5. Side(w) /\ Moves(v, w)
    BY <1>1, <1>2, <1>3, <2>3, <2>4, FewerMoves
  <2>. QED  BY <2>1, <2>5, <1>6
<1>7. ASSUME NEW y \in Processes, NEW t \in Tasks, t.req = ev.req, t.no = 0, Started(x, y, t),
             ext' = [ext EXCEPT ![e] = [y EXCEPT !.threads = @ \cup {t}]], toApp' = toApp
      PROVE  (\A f \in Exts : f # e => ext'[f] = ext[f]) /\ Side(w) /\ Moves(v, w)
  <2>1. /\ ext'[e].debounce = y.debounce /\ ext'[e].idle = y.idle
        /\ ext'[e].threads = y.threads \cup {t}
        /\ ext'[e].input = y.input /\ \A f \in Exts : f # e => ext'[f] = ext[f]
    BY <1>4, <1>7 DEF Processes
  <2>2. Takes(v, w, ev.req)
    BY <1>2, <1>5, <1>7, <2>1 DEF Started
  <2>3. /\ w.x.threads = v.x.threads \cup {t} /\ w.out = v.out
        /\ \/ t.input = 0 /\ w.x.input = v.x.input
           \/ t.input = v.x.input + 1 /\ w.x.input = v.x.input + 1
    BY <1>1, <1>2, <1>7, <2>1 DEF Started
  <2>4. Side(w) /\ Moves(v, w)
    BY <1>1, <1>2, <1>3, <1>4, <1>7, <2>2, <2>3, StartsMoves
  <2>. QED  BY <2>1, <2>4
<1>8. ASSUME NEW y \in Processes, NEW t \in Tasks, NEW b \in Batches, Started(x, y, t),
             b.req = ev.req, b.no = 1, SendResponse(e, y, b)
      PROVE  /\ \A f \in Exts : f # e => ext'[f] = ext[f] /\ toApp'[f] = toApp[f]
             /\ Side(w) /\ Moves(v, w)
  <2>1. /\ \A f \in Exts : f # e => ext'[f] = ext[f] /\ toApp'[f] = toApp[f]
        /\ ext'[e].threads = y.threads /\ ext'[e].debounce = y.debounce
        /\ ext'[e].input = y.input /\ ext'[e].idle = y.idle
        /\ \/ toApp' = toApp
           \/ \E m \in Messages : /\ m.req = b.req /\ m.no = b.no
                                  /\ toApp'[e] = Append(toApp[e], m)
    BY <1>8, SendResponseLine
  <2>2. Takes(v, w, ev.req)
    BY <1>2, <1>5, <1>8, <2>1 DEF Started
  <2>3. /\ w.x.threads = v.x.threads
        /\ w.x.input = v.x.input \/ w.x.input = v.x.input + 1
    BY <1>1, <1>2, <1>8, <2>1 DEF Started
  <2>4. CASE toApp' = toApp
    <3>1. ComesOnce(w) /\ (\A r : Coming(w, r) => Coming(v, r)) /\ w.out = v.out
          /\ w.x.idle = v.x.idle /\ w.late = v.late /\ w.x.threads \subseteq v.x.threads
      BY <1>1, <1>2, <2>2, <2>3, <2>4 DEF Takes
    <3>2. Side(w) /\ Moves(v, w)
      BY <1>1, <1>2, <1>3, <2>3, <3>1, FewerMoves
    <3>. QED  BY <3>2, <2>1
  <2>5. ASSUME NEW m \in Messages, m.req = b.req, m.no = b.no, toApp'[e] = Append(toApp[e], m)
        PROVE  Side(w) /\ Moves(v, w)
    <3>1. m.req = ev.req /\ m.no = 1 /\ w.out = Append(v.out, m)
      BY <1>1, <1>2, <1>8, <2>5
    <3>. QED  BY <1>1, <1>2, <1>3, <1>4, <2>2, <2>3, <3>1, RepliesMoves
  <2>. QED  BY <2>1, <2>4, <2>5
<1>. QED  BY <1>6, <1>7, <1>8, DoTriggerEventFacts

LEMMA ReadEventMoves ==
  ASSUME Types, Types', NEW e \in Exts, Side(Line(e)), ReadEvent(e)
  PROVE  SideMoves(e)
<1>. DEFINE v == Line(e)
            w == Line(e)'
            ev == Head(toExt[e])
<1>1. /\ v \in Lines /\ v.x = ext[e] /\ v.events = toExt[e] /\ v.out = toApp[e] /\ v.late = late[e]
  BY LineFacts
<1>2. /\ w \in Lines /\ w.x = ext'[e] /\ w.events = toExt'[e] /\ w.out = toApp'[e]
      /\ w.late = late'[e]
  BY NextLineFacts
<1>3. /\ ext \in [Exts -> Processes] /\ toExt \in [Exts -> Seq(Events)]
      /\ toApp \in [Exts -> Seq(Messages)] /\ toExt[e] \in Seq(Events) /\ toExt[e] # <<>>
      /\ late' = late /\ toExt' = [toExt EXCEPT ![e] = Tail(@)]
  BY DEF Types, ReadEvent
<1>4. toExt'[e] = Tail(toExt[e]) /\ \A f \in Exts : f # e => toExt'[f] = toExt[f]
  BY <1>3
<1>. DEFINE p == Tail(toExt[e])
<1>5. /\ Len(p) = Len(toExt[e]) - 1 /\ Len(toExt[e]) \in Nat /\ Len(toExt[e]) # 0
      /\ \A i \in 1..Len(p) : p[i] = toExt[e][i + 1]
      /\ ev = toExt[e][1] /\ ev \in Events
  BY <1>3, HeadTailProperties, LenProperties, EmptySeq
<1>6. ev.req # 0
  BY <1>5, NosTypes DEF Events
<1>7. ComesOnce(v) /\ Side(v)
  BY DEF Side, UniqueInv
<1>. SUFFICES OfLine(e) /\ Side(w) /\ Moves(v, w)
  BY DEF SideMoves
<1>8. toExt'[e] = p
  BY <1>4
<1>. HIDE DEF v, w, ev, p
<1>9. \A i \in 1..Len(p) : i + 1 \in 1..Len(toExt[e]) /\ 1 \in 1..(i + 1) - 1
  BY <1>5
<1>10. Coming(v, ev.req)
  <2>1. 1 \in 1..Len(toExt[e])
    BY <1>5
  <2>. QED  BY <2>1, <1>1, <1>5 DEF Coming
<1>11. \A i \in 1..Len(p) : p[i].req # ev.req
  BY <1>1, <1>5, <1>7, <1>9 DEF ComesOnce
<1>12. ev.req # ext[e].debounce /\ \A i \in 1..Len(p) : p[i].req # ext[e].debounce
  <2>1. 1 \in 1..Len(toExt[e])
    BY <1>5
  <2>. QED  BY <2>1, <1>1, <1>5, <1>7, <1>9 DEF ComesOnce
<1>13. \A j \in 1..Len(p) : \A i \in 1..j - 1 : p[i].req # p[j].req
  <2>. SUFFICES ASSUME NEW j \in 1..Len(p), NEW i \in 1..j - 1  PROVE p[i].req # p[j].req
    OBVIOUS
  <2>1. /\ i \in 1..Len(p) /\ j + 1 \in 1..Len(toExt[e]) /\ i + 1 \in 1..(j + 1) - 1
    BY <1>5
  <2>. QED  BY <2>1, <1>1, <1>5, <1>7 DEF ComesOnce
<1>14. \A r : (\E i \in 1..Len(p) : p[i].req = r) => Coming(v, r)
  BY <1>1, <1>5, <1>9 DEF Coming
<1>15. CASE ev.type = "input"
  <2>1. ext' = [ext EXCEPT ![e].debounce = ev.req] /\ toApp' = toApp
    BY <1>15 DEF ReadEvent, ev
  <2>2. /\ ext'[e].debounce = ev.req /\ ext'[e].threads = ext[e].threads
        /\ ext'[e].idle = ext[e].idle /\ ext'[e].input = ext[e].input
        /\ \A f \in Exts : f # e => ext'[f] = ext[f]
    BY <1>3, <2>1 DEF Processes
  <2>3. ComesOnce(w)
    BY <1>2, <1>8, <1>11, <1>13, <2>2 DEF ComesOnce
  <2>4. \A r : Coming(w, r) => Coming(v, r)
    <3>1. w.events = p /\ w.x.debounce = ev.req
      BY <1>2, <1>8, <2>2
    <3>2. \A r : Coming(w, r) => (\E i \in 1..Len(p) : p[i].req = r) \/ r = ev.req
      BY <3>1 DEF Coming
    <3>. QED  BY <3>2, <1>10, <1>14
  <2>5. /\ w.x.idle = v.x.idle /\ w.out = v.out /\ w.late = v.late
        /\ w.x.threads \subseteq v.x.threads /\ w.x.input = v.x.input
    BY <1>1, <1>2, <1>3, <2>1, <2>2
  <2>6. Side(w) /\ Moves(v, w)
    BY <1>1, <1>2, <1>7, <2>3, <2>4, <2>5, FewerMoves
  <2>7. OfLine(e)
    BY <1>3, <1>4, <2>1, <2>2 DEF OfLine, Line
  <2>. QED  BY <2>6, <2>7
<1>16. CASE ev.type # "input"
  <2>1. DoTriggerEvent(e, ext[e], ev)
    BY <1>16 DEF ReadEvent, ev
  <2>2. ASSUME NEW u, u.events = toExt'[e], u.x.debounce = ext[e].debounce
        PROVE  ComesOnce(u) /\ \A r : Coming(u, r) => Coming(v, r) /\ r # ev.req
    <3>1. ComesOnce(u)
      BY <2>2, <1>8, <1>12, <1>13 DEF ComesOnce
    <3>2. \A r : Coming(u, r) => Coming(v, r) /\ r # ev.req
      <4>1. u.events = p /\ u.x.debounce = v.x.debounce
        BY <2>2, <1>1, <1>8
      <4>2. \A r : Coming(u, r) =>
              (\E i \in 1..Len(p) : p[i].req = r) \/ (r # 0 /\ v.x.debounce = r)
        BY <4>1 DEF Coming
      <4>3. \A r : (r # 0 /\ v.x.debounce = r) => Coming(v, r) /\ r # ev.req
        BY <1>1, <1>12 DEF Coming
      <4>. QED  BY <4>2, <4>3, <1>11, <1>14
    <3>. QED  BY <3>1, <3>2
  <2>3. /\ \A f \in Exts : f # e => ext'[f] = ext[f] /\ toApp'[f] = toApp[f]
        /\ Side(w) /\ Moves(v, w)
    BY <1>3, <1>5, <1>10, <2>1, <2>2, TriggersMove DEF v, w
  <2>4. OfLine(e)
    BY <1>3, <1>4, <2>3 DEF OfLine, Line
  <2>. QED  BY <2>3, <2>4
<1>. QED  BY <1>15, <1>16

LEMMA DebouncedMoves ==
  ASSUME Types, Types', NEW e \in Exts, Side(Line(e)), Debounced(e)
  PROVE  SideMoves(e)
<1>. DEFINE v == Line(e)
            ev == Event("input", ext[e].debounce, Trigger(e))
            x == [ext[e] EXCEPT !.debounce = 0]
<1>1. v \in Lines /\ v.x = ext[e] /\ v.events = toExt[e]
  BY LineFacts
<1>2. /\ ext[e] \in Processes /\ toExt[e] \in Seq(Events) /\ ext[e].debounce # 0
      /\ toExt' = toExt /\ late' = late
  BY DEF Types, Debounced
<1>3. ev \in Events /\ ev.req = ext[e].debounce /\ x \in Processes
  BY <1>2, DebouncedEvent
<1>4. /\ x.idle = ext[e].idle /\ x.threads = ext[e].threads /\ x.input = ext[e].input
      /\ x.debounce = 0
  BY <1>2 DEF Processes
<1>5. DoTriggerEvent(e, x, ev)
  BY DEF Debounced
<1>6. Side(v)
  OBVIOUS
<1>. HIDE DEF ev, x, v
<1>7. Coming(v, ev.req)
  BY <1>1, <1>2, <1>3 DEF Coming
<1>8. ASSUME NEW u, u.events = toExt'[e], u.x.debounce = x.debounce
      PROVE  ComesOnce(u) /\ \A r : Coming(u, r) => Coming(v, r) /\ r # ev.req
  <2>1. \A i \in 1..Len(toExt[e]) : toExt[e][i].req # 0
    <3>1. \A i \in 1..Len(toExt[e]) : toExt[e][i] \in Events
      BY <1>2, ElementOfSeq
    <3>. QED  BY <3>1, NosTypes DEF Events
  <2>2. ComesOnce(v)
    BY <1>6 DEF Side, UniqueInv
  <2>3. ComesOnce(u)
    BY <2>1, <2>2, <1>1, <1>2, <1>4, <1>8 DEF ComesOnce
  <2>4. \A r : Coming(u, r) => Coming(v, r) /\ r # ev.req
    BY <2>2, <1>1, <1>2, <1>3, <1>4, <1>8 DEF Coming, ComesOnce
  <2>. QED  BY <2>3, <2>4
<1>9. /\ \A f \in Exts : f # e => ext'[f] = ext[f] /\ toApp'[f] = toApp[f]
      /\ Side(Line(e)') /\ Moves(Line(e), Line(e)')
  BY <1>2, <1>3, <1>4, <1>5, <1>6, <1>7, <1>8, TriggersMove DEF v
<1>10. OfLine(e)
  BY <1>2, <1>9 DEF OfLine, Line
<1>. QED  BY <1>9, <1>10 DEF SideMoves

LEMMA ThreadsMove ==
  ASSUME Types, Types', NEW e \in Exts, Side(Line(e)), Threads(e)
  PROVE  SideMoves(e)
<1>. DEFINE v == Line(e)
            w == Line(e)'
<1>1. /\ v \in Lines /\ v.x = ext[e] /\ v.events = toExt[e] /\ v.out = toApp[e] /\ v.late = late[e]
  BY LineFacts
<1>2. /\ w \in Lines /\ w.x = ext'[e] /\ w.events = toExt'[e] /\ w.out = toApp'[e]
      /\ w.late = late'[e]
  BY NextLineFacts
<1>3. /\ ext \in [Exts -> Processes] /\ toExt' = toExt /\ toApp' = toApp /\ late' = late
  BY ThreadSteps DEF Types
<1>4. PICK t \in ext[e].threads : ThreadStep(e, t)
  BY ThreadSteps
<1>. SUFFICES OfLine(e) /\ Side(w) /\ Moves(v, w)
  BY DEF SideMoves
<1>5. Side(v)
  OBVIOUS
<1>. HIDE DEF v, w
<1>6. CASE Ends(e, t)
  <2>1. ext' = [ext EXCEPT ![e].threads = ext[e].threads \ {t}]
    BY <1>6 DEF Ends
  <2>2. /\ ext'[e].threads = ext[e].threads \ {t} /\ ext'[e].debounce = ext[e].debounce
        /\ ext'[e].idle = ext[e].idle /\ ext'[e].input = ext[e].input
        /\ \A f \in Exts : f # e => ext'[f] = ext[f]
    BY <1>3, <2>1 DEF Processes
  <2>3. ComesOnce(w) /\ \A r : Coming(w, r) => Coming(v, r)
    BY <1>1, <1>2, <1>3, <1>5, <2>2 DEF ComesOnce, Side, UniqueInv, Coming
  <2>4. /\ w.x.idle = v.x.idle /\ w.out = v.out /\ w.late = v.late
        /\ w.x.threads \subseteq v.x.threads /\ w.x.input = v.x.input
    BY <1>1, <1>2, <1>3, <2>2
  <2>5. Side(w) /\ Moves(v, w)
    BY <1>1, <1>2, <1>5, <2>3, <2>4, FewerMoves
  <2>. QED  BY <1>3, <2>2, <2>5 DEF OfLine, Line
<1>7. ASSUME NEW b \in Batches, NEW us \in SUBSET Tasks, Hands(e, t, b, us),
             b.req = t.req, b.input = t.input, b.no = t.no + 1,
             \A u \in us : us = {u} /\ u.req = t.req /\ u.input = t.input /\ u.no = t.no + 1
      PROVE  OfLine(e) /\ Side(w) /\ Moves(v, w)
  <2>1. /\ ext'[e].threads = (ext[e].threads \ {t}) \cup us
        /\ ext'[e].debounce = ext[e].debounce
        /\ ext'[e].idle = Append(ext[e].idle, b) /\ ext'[e].input = ext[e].input
        /\ \A f \in Exts : f # e => ext'[f] = ext[f]
    BY <1>3, <1>7 DEF Processes, Hands
  <2>2. /\ w.x.idle = Append(v.x.idle, b) /\ w.out = v.out /\ w.late = v.late
        /\ w.events = v.events /\ w.x.debounce = v.x.debounce /\ w.x.input = v.x.input
        /\ w.x.threads = (v.x.threads \ {t}) \cup us /\ t \in v.x.threads
    BY <1>1, <1>2, <1>3, <2>1
  <2>3. Side(w) /\ Moves(v, w)
    BY <1>1, <1>2, <1>5, <1>7, <2>2, HandsMoves
  <2>. QED  BY <1>3, <2>1, <2>3 DEF OfLine, Line
<1>8. CASE ~Ends(e, t)
  <2>1. PICK b \in Batches, us \in SUBSET Tasks :
          /\ Hands(e, t, b, us)
          /\ b.req = t.req /\ b.input = t.input /\ b.no = t.no + 1
          /\ \/ us = {}
             \/ \E u \in Tasks :
                  us = {u} /\ u.req = t.req /\ u.input = t.input /\ u.no = t.no + 1
    BY <1>4, <1>8 DEF ThreadStep
  <2>2. \A u \in us : us = {u} /\ u.req = t.req /\ u.input = t.input /\ u.no = t.no + 1
    BY <2>1
  <2>. QED  BY <2>1, <2>2, <1>7
<1>. QED  BY <1>6, <1>8

LEMMA SendIdleMoves ==
  ASSUME Types, Types', NEW e \in Exts, Side(Line(e)), SendIdle(e)
  PROVE  SideMoves(e)
<1>. DEFINE v == Line(e)
            w == Line(e)'
            b == Head(ext[e].idle)
            x == [ext[e] EXCEPT !.idle = Tail(@)]
<1>1. /\ v \in Lines /\ v.x = ext[e] /\ v.events = toExt[e] /\ v.out = toApp[e] /\ v.late = late[e]
  BY LineFacts
<1>2. /\ w \in Lines /\ w.x = ext'[e] /\ w.events = toExt'[e] /\ w.out = toApp'[e]
      /\ w.late = late'[e]
  BY NextLineFacts
<1>3. /\ ext[e] \in Processes /\ toExt' = toExt /\ late' = late /\ ext[e].idle # <<>>
      /\ SendResponse(e, x, b)
  BY DEF Types, SendIdle
<1>4. x \in Processes /\ b \in Batches
  BY SendIdleFacts
<1>5. /\ x.idle = Tail(ext[e].idle) /\ x.threads = ext[e].threads /\ x.input = ext[e].input
      /\ x.debounce = ext[e].debounce
  BY <1>3 DEF Processes
<1>6. b = Head(v.x.idle) /\ Side(v)
  BY <1>1
<1>. SUFFICES OfLine(e) /\ Side(w) /\ Moves(v, w)
  BY DEF SideMoves
<1>. HIDE DEF v, w, b, x
<1>7. /\ \A f \in Exts : f # e => ext'[f] = ext[f] /\ toApp'[f] = toApp[f]
      /\ ext'[e].threads = x.threads /\ ext'[e].debounce = x.debounce
      /\ ext'[e].input = x.input /\ ext'[e].idle = x.idle
      /\ \/ toApp' = toApp /\ Superseded(x, b.input)
         \/ /\ ~Superseded(x, b.input)
            /\ \E m \in Messages : /\ m.req = b.req /\ m.no = b.no
                                   /\ toApp'[e] = Append(toApp[e], m)
  BY <1>3, <1>4, SendResponseLine
<1>8. OfLine(e)
  BY <1>3, <1>7 DEF OfLine, Line
<1>9. Unqueues(v, w)
  BY <1>1, <1>2, <1>3, <1>5, <1>7 DEF Unqueues
<1>10. Superseded(v.x, b.input) <=> Superseded(x, b.input)
  BY <1>1, <1>5 DEF Superseded
<1>11. CASE toApp' = toApp /\ Superseded(x, b.input)
  <2>1. w.out = v.out /\ Superseded(v.x, Head(v.x.idle).input)
    BY <1>1, <1>2, <1>6, <1>10, <1>11
  <2>. QED  BY <1>1, <1>2, <1>6, <1>8, <1>9, <2>1, DropsMoves
<1>12. ASSUME ~Superseded(x, b.input), NEW m \in Messages, m.req = b.req, m.no = b.no,
              toApp'[e] = Append(toApp[e], m)
       PROVE  Side(w) /\ Moves(v, w)
  <2>1. /\ ~Superseded(v.x, Head(v.x.idle).input) /\ m.req = Head(v.x.idle).req
        /\ m.no = Head(v.x.idle).no /\ w.out = Append(v.out, m)
    BY <1>1, <1>2, <1>6, <1>10, <1>12
  <2>. QED  BY <1>1, <1>2, <1>6, <1>9, <2>1, SendsMoves
<1>. QED  BY <1>7, <1>8, <1>11, <1>12

LEMMA CloseSocketMoves ==
  ASSUME Types, Types', NEW e \in Exts, Side(Line(e)), CloseSocket(e)
  PROVE  SideMoves(e)
<1>. DEFINE v == Line(e)
            w == Line(e)'
<1>1. /\ v \in Lines /\ v.x = ext[e] /\ v.events = toExt[e] /\ v.out = toApp[e] /\ v.late = late[e]
  BY LineFacts
<1>2. /\ w \in Lines /\ w.x = ext'[e] /\ w.events = toExt'[e] /\ w.out = toApp'[e]
      /\ w.late = late'[e]
  BY NextLineFacts
<1>3. /\ ext \in [Exts -> Processes] /\ toExt \in [Exts -> Seq(Events)]
      /\ toApp \in [Exts -> Seq(Messages)] /\ late \in [Exts -> Seq(Messages)]
  BY DEF Types
<1>4. PICK n \in 0..Len(toApp[e]) :
        late' = [late EXCEPT ![e] = @ \o SubSeq(toApp[e], 1, n)]
  BY DEF CloseSocket
<1>5. ext'[e] = Off /\ toExt'[e] = <<>> /\ toApp'[e] = <<>>
  BY <1>3 DEF CloseSocket
<1>6. Off.idle = <<>> /\ Off.threads = {} /\ Off.debounce = 0
  BY DEF Off, Fresh
<1>7. w.x.idle = <<>> /\ w.x.threads = {} /\ w.x.debounce = 0 /\ w.events = <<>> /\ w.out = <<>>
  BY <1>2, <1>5, <1>6
<1>8. n \in 0..Len(v.out) /\ w.late = v.late \o SubSeq(v.out, 1, n)
  BY <1>1, <1>2, <1>3, <1>4
<1>9. Side(w) /\ Moves(v, w)
  BY <1>1, <1>2, <1>7, <1>8, ClosesMoves
<1>10. \A f \in Exts : f # e => /\ ext'[f] = ext[f] /\ toExt'[f] = toExt[f]
                                /\ toApp'[f] = toApp[f] /\ late'[f] = late[f]
  BY <1>3, <1>4 DEF CloseSocket
<1>11. OfLine(e)
  BY <1>10 DEF OfLine, Line
<1>. QED  BY <1>9, <1>11 DEF SideMoves

\* A process begins, or ends: what it knew is gone.
LEMMA ProcessMoves ==
  ASSUME Types, Types', NEW e \in Exts, Side(Line(e)), toExt' = toExt, toApp' = toApp, late' = late,
         NEW x, ext' = [ext EXCEPT ![e] = x], x.idle = <<>>, x.threads = {}, x.debounce = 0
  PROVE  SideMoves(e)
<1>. DEFINE v == Line(e)
            w == Line(e)'
<1>1. /\ v \in Lines /\ v.x = ext[e] /\ v.events = toExt[e] /\ v.out = toApp[e] /\ v.late = late[e]
  BY LineFacts
<1>2. /\ w \in Lines /\ w.x = ext'[e] /\ w.events = toExt[e] /\ w.out = toApp[e]
      /\ w.late = late[e]
  BY NextLineFacts
<1>3. ext \in [Exts -> Processes] /\ toExt[e] \in Seq(Events)
  BY DEF Types
<1>4. ext'[e] = x /\ \A f \in Exts : f # e => ext'[f] = ext[f]
  BY <1>3
<1>5. Side(v)
  OBVIOUS
<1>. SUFFICES OfLine(e) /\ Side(w) /\ Moves(v, w)
  BY DEF SideMoves
<1>. HIDE DEF v, w
<1>6. \A i \in 1..Len(toExt[e]) : toExt[e][i].req # 0
  <2>1. \A i \in 1..Len(toExt[e]) : toExt[e][i] \in Events
    BY <1>3, ElementOfSeq
  <2>. QED  BY <2>1, NosTypes DEF Events
<1>7. ComesOnce(w)
  BY <1>1, <1>2, <1>4, <1>5, <1>6 DEF ComesOnce, Side, UniqueInv
<1>8. \A r : Coming(w, r) => Coming(v, r)
  BY <1>1, <1>2, <1>4 DEF Coming
<1>9. w.x.idle = <<>> /\ w.x.threads = {} /\ w.out = v.out /\ w.late = v.late
  BY <1>1, <1>2, <1>4
<1>10. Side(w) /\ Moves(v, w)
  BY <1>1, <1>2, <1>5, <1>7, <1>8, <1>9, ClearsMoves
<1>11. OfLine(e)
  BY <1>4 DEF OfLine, Line
<1>. QED  BY <1>10, <1>11

-----------------------------------------------------------------------------
(* The app: asks, answers and forgotten callbacks. *)

\* No callback has got a response of its own that it had not.
SameAnswers(a, b) ==
  \A n \in Asks : \A i \in 1..Len(b.got[n]) :
    b.got[n][i].of = n => i \in 1..Len(a.got[n]) /\ b.got[n][i] = a.got[n][i]

\* Nothing is sent, and the newest ask is a new one, or waits as it did.
Quiet(a, b) ==
  /\ b.sent = a.sent /\ a.ask <= b.ask /\ SameAnswers(a, b)
  /\ b.ask = a.ask => b.active = a.active
  /\ b.ask = a.ask /\ Streaming(b) => Streaming(a) /\ Len(b.got[a.ask]) = Len(a.got[a.ask])

LEMMA NewestAsk ==
  ASSUME NEW a \in Apps, SentInv(a)
  PROVE  /\ \A r \in Reqs : r <= Len(a.sent) => /\ r \in 1..Len(a.sent) /\ a.sent[r] \in Asks
                                                /\ a.sent[r] <= a.ask /\ a.sent[r] \in Nat
         /\ a.ask \in Nat /\ Len(a.sent) \in Nat
         /\ a.sent # <<>> => Len(a.sent) \in 1..Len(a.sent) /\ a.sent[Len(a.sent)] <= a.ask
         /\ \A n \in Asks : n > a.ask => Len(a.got[n]) = 0
<1>1. /\ a.sent \in Seq(Asks) /\ Len(a.sent) \in Nat /\ a.ask \in Nat
      /\ \A i \in 1..Len(a.sent) : a.sent[i] \in Asks
  BY AppTypes
<1>2. \A i \in 1..Len(a.sent) : a.sent[i] <= a.ask
  BY DEF SentInv
<1>3. \A n \in Asks : n > a.ask => Len(a.got[n]) = 0
  BY EmptySeq DEF SentInv
<1>4. \A r \in Reqs : r <= Len(a.sent) => r \in 1..Len(a.sent)
  BY <1>1 DEF Reqs
<1>5. Asks \subseteq Nat
  BY DEF Asks
<1>6. a.sent # <<>> => Len(a.sent) \in 1..Len(a.sent)
  BY <1>1, EmptySeq
<1>. QED  BY <1>1, <1>2, <1>3, <1>4, <1>5, <1>6

LEMMA QuietKeepsStreams ==
  ASSUME NEW a \in Apps, NEW b \in Apps, SentInv(a), SentInv(b), Quiet(a, b), NEW L, StreamInv(a, L)
  PROVE  StreamInv(b, L)
<1>1. a.ask \in Nat /\ b.ask \in Nat
  BY NewestAsk
<1>2. \A r \in Reqs : r <= Len(a.sent) => a.sent[r] \in Asks /\ a.sent[r] <= a.ask /\ a.sent[r] \in Nat
  BY NewestAsk
<1>3. PlaceInv(b, L)
  <2>1. \A e \in Exts, r \in Reqs, k \in Nos : Pend(L[e], r, k) => r <= Len(b.sent)
    BY DEF StreamInv, PlaceInv, Quiet
  <2>2. \A e, f \in Exts, r \in Reqs, k, l \in Nos :
          Pend(L[e], r, k) /\ Pend(L[f], r, l) => e = f
    BY DEF StreamInv, PlaceInv
  <2>3. ASSUME NEW e \in Exts, NEW r \in Reqs, NEW k \in Nos, Pend(L[e], r, k),
               r = Len(b.sent), b.sent[r] = b.ask
        PROVE  e = b.active
    <3>1. b.sent = a.sent /\ r <= Len(a.sent) /\ a.sent[r] <= a.ask
      BY <2>3, <1>2 DEF StreamInv, PlaceInv, Quiet
    <3>2. b.ask = a.ask
      BY <1>1, <2>3, <3>1 DEF Quiet
    <3>3. e = a.active
      BY <2>3, <3>1, <3>2 DEF StreamInv, PlaceInv
    <3>. QED  BY <3>2, <3>3 DEF Quiet
  <2>. QED  BY <2>1, <2>2, <2>3 DEF PlaceInv
<1>4. GotInv(b, L)
  <2>. SUFFICES ASSUME NEW e \in Exts, NEW r \in Reqs, NEW k \in Nos, Pend(L[e], r, k),
                       r <= Len(a.sent), NEW i \in 1..Len(b.got[a.sent[r]]),
                       b.got[a.sent[r]][i].of = a.sent[r]
                PROVE  b.got[a.sent[r]][i].no < k
    BY DEF GotInv, Quiet
  <2>1. i \in 1..Len(a.got[a.sent[r]]) /\ b.got[a.sent[r]][i] = a.got[a.sent[r]][i]
    BY <1>2 DEF Quiet, SameAnswers
  <2>. QED  BY <2>1 DEF StreamInv, GotInv
<1>5. Increasing(b)
  <2>. SUFFICES ASSUME NEW n \in Asks, NEW i \in 1..Len(b.got[n]), b.got[n][i].of = n,
                       NEW j \in 1..i - 1, b.got[n][j].of = n
                PROVE  b.got[n][j].no < b.got[n][i].no
    BY DEF Increasing
  <2>1. j \in 1..Len(b.got[n])
    BY AppTypes
  <2>2. /\ i \in 1..Len(a.got[n]) /\ b.got[n][i] = a.got[n][i]
        /\ b.got[n][j] = a.got[n][j]
    BY <2>1 DEF Quiet, SameAnswers
  <2>. QED  BY <2>2 DEF StreamInv, Increasing
<1>6. Streaming(b) => Streaming(a) /\ b.ask = a.ask
  <2>. SUFFICES ASSUME Streaming(b)  PROVE b.ask = a.ask
    BY DEF Quiet
  <2>1. a.sent # <<>> /\ a.sent[Len(a.sent)] = b.ask
    BY DEF Streaming, Quiet
  <2>2. b.ask <= a.ask
    BY <2>1, NewestAsk
  <2>. QED  BY <2>2, <1>1 DEF Quiet
<1>7. ChainInv(b, L)
  BY <1>6 DEF StreamInv, ChainInv, Quiet
<1>8. Gapless(b)
  <2>. SUFFICES ASSUME b.ask # 0, NEW i \in 1..Len(b.got[b.ask]), b.got[b.ask][i].of = b.ask
                PROVE  b.got[b.ask][i].no = i
    BY DEF Gapless
  <2>1. b.ask \in Asks
    BY AppTypes, <1>1 DEF Asks
  <2>2. i \in 1..Len(a.got[b.ask]) /\ b.got[b.ask][i] = a.got[b.ask][i]
    BY <2>1 DEF Quiet, SameAnswers
  <2>3. CASE b.ask = a.ask
    BY <2>2, <2>3 DEF StreamInv, Gapless
  <2>4. CASE b.ask # a.ask
    <3>1. Len(a.got[b.ask]) = 0
      BY <2>1, <2>4, <1>1, NewestAsk DEF Quiet
    <3>. QED  BY <3>1, <2>2
  <2>. QED  BY <2>3, <2>4
<1>. QED  BY <1>3, <1>4, <1>5, <1>7, <1>8 DEF StreamInv

LEMMA GoesSameAnswers ==
  ASSUME NEW a \in Apps, SentInv(a), NEW r, NEW items, Goes(a, r, items)
  PROVE  SameAnswers(a, r.app)
<1>. SUFFICES ASSUME NEW n \in Asks, NEW i \in 1..Len(r.app.got[n]), r.app.got[n][i].of = n
              PROVE  i \in 1..Len(a.got[n]) /\ r.app.got[n][i] = a.got[n][i]
  BY DEF SameAnswers
<1>1. a.ask \in Nat /\ n \in Nat /\ n # 0
  BY NewestAsk DEF Asks
<1>2. CASE n <= a.ask
  BY <1>2, GoesGot
<1>3. CASE n > a.ask
  <2>1. Len(r.app.got[n]) \in 0..1 /\ (Len(r.app.got[n]) = 1 => r.app.got[n][1].of = 0)
    BY <1>3, GoesGot
  <2>2. i = 1 /\ Len(r.app.got[n]) = 1
    BY <2>1
  <2>. QED  BY <2>1, <2>2, <1>1
<1>. QED  BY <1>1, <1>2, <1>3

LEMMA GoesQuietly ==
  ASSUME NEW a \in Apps, SentInv(a), NEW r, NEW items, Goes(a, r, items),
         SameAsks(a, r.app) \/ Dropped(a, r.app) \/ Told(a, r.app) \/ Waits(a, r.app)
  PROVE  Quiet(a, r.app)
<1>1. SameAnswers(a, r.app) /\ a.ask \in Nat
  BY GoesSameAnswers, NewestAsk
<1>2. CASE SameAsks(a, r.app)
  BY <1>1, <1>2 DEF SameAsks, Quiet, Streaming
<1>3. CASE NotSent(a, r.app)
  BY <1>1, <1>3 DEF NotSent, Quiet
<1>. QED  BY <1>2, <1>3 DEF Dropped, Told, Waits

LEMMA ForgetsQuietly ==
  ASSUME NEW a \in Apps, NEW b, Forgets(a, b)
  PROVE  Quiet(a, b)
<1>1. b \in Apps /\ b.sent = a.sent /\ b.ask = a.ask /\ b.active = a.active /\ b.pending.ask = 0
  BY NoExtIsNone DEF Forgets
<1>2. ~Streaming(b)
  <2>. SUFFICES ASSUME Streaming(b)  PROVE FALSE
    OBVIOUS
  <2>1. b.sent # <<>> /\ b.sent[Len(b.sent)] = 0
    BY <1>1 DEF Streaming
  <2>2. b.sent \in Seq(Asks) /\ Len(b.sent) \in Nat /\ Len(b.sent) # 0
    BY <1>1, <2>1, AppTypes, EmptySeq
  <2>3. b.sent[Len(b.sent)] \in Asks
    BY <2>2, ElementOfSeq
  <2>. QED  BY <2>1, <2>3 DEF Asks
<1>3. SameAnswers(a, b)
  <2>1. CASE b.got = a.got
    BY <2>1 DEF SameAnswers
  <2>2. CASE b.got # a.got
    <3>1. PICK ans \in Answers :
            ans.of = 0 /\ ans.final /\ b.got = [a.got EXCEPT ![a.pending.ask] = Append(@, ans)]
      BY <2>2 DEF Forgets
    <3>2. a.pending # NoCallback
      BY <2>2 DEF Forgets
    <3>. DEFINE p == a.pending.ask
                c == [a EXCEPT !.got = b.got]
    <3>3. p \in Asks /\ a.got[p] \in Seq(Answers) /\ DOMAIN a.got = Asks
      BY <3>2, AppTypes
    <3>4. b.got[p] = Append(a.got[p], ans) /\ \A n \in Asks : n # p => b.got[n] = a.got[n]
      BY <3>1, <3>3 DEF Apps
    <3>5. /\ Len(b.got[p]) = Len(a.got[p]) + 1 /\ Len(a.got[p]) \in Nat
          /\ \A i \in 1..Len(a.got[p]) : b.got[p][i] = a.got[p][i]
          /\ b.got[p][Len(a.got[p]) + 1] = ans
      BY <3>3, <3>4, AppendProperties, LenProperties
    <3>. HIDE DEF p
    <3>6. ASSUME NEW i \in 1..Len(b.got[p]), b.got[p][i].of = p
          PROVE  i \in 1..Len(a.got[p]) /\ b.got[p][i] = a.got[p][i]
      <4>1. p # 0
        BY <3>3 DEF Asks
      <4>2. i # Len(a.got[p]) + 1
        BY <4>1, <3>1, <3>5, <3>6
      <4>. QED  BY <4>2, <3>5
    <3>. QED  BY <3>4, <3>6 DEF SameAnswers
  <2>. QED  BY <2>1, <2>2
<1>4. a.ask <= b.ask
  BY <1>1, AppTypes
<1>. QED  BY <1>1, <1>2, <1>3, <1>4 DEF Quiet

LEMMA ClearedQuietly ==
  ASSUME NEW a \in Apps, NEW b \in Apps, b.sent = a.sent, b.ask = a.ask, b.active = a.active,
         b.got = a.got, b.pending = NoCallback
  PROVE  Quiet(a, b)
<1>1. Forgets(a, [b EXCEPT !.screen = {}])
  BY DEF Forgets, Apps
<1>2. Quiet(a, [b EXCEPT !.screen = {}])
  BY <1>1, ForgetsQuietly
<1>. QED  BY <1>2 DEF Quiet, SameAnswers, Streaming, Apps

-----------------------------------------------------------------------------
(* Steps of one line, and of the app with one line. *)

OneLine(L, M, e) == \A f \in Exts : f # e => M[f] = L[f]

LEMMA StreamingTypes ==
  ASSUME NEW a \in Apps, SentInv(a), Streaming(a)
  PROVE  Len(a.sent) \in Reqs /\ Len(a.got[a.ask]) + 1 \in Nat /\ a.ask \in Asks
<1>1. Len(a.sent) \in 1..Len(a.sent) /\ a.sent[Len(a.sent)] = a.ask
  BY NewestAsk DEF Streaming
<1>2. a.ask \in Asks
  BY <1>1, AppTypes
<1>3. Len(a.sent) <= a.ask
  BY DEF SentInv
<1>4. Len(a.got[a.ask]) \in Nat
  BY <1>2, AppTypes
<1>. QED  BY <1>1, <1>2, <1>3, <1>4, NosTypes DEF Reqs, Asks

LEMMA MovesKeepStreams ==
  ASSUME NEW a \in Apps, SentInv(a), NEW L, NEW M, StreamInv(a, L), NEW e \in Exts,
         OneLine(L, M, e), Side(M[e]), Moves(L[e], M[e])
  PROVE  StreamInv(a, M)
<1>1. \A f \in Exts : Side(M[f])
  BY DEF StreamInv, OneLine
<1>2. \A f \in Exts, r \in Reqs, k \in Nos :
        Pend(M[f], r, k) => \E l \in Nos : l <= k /\ Pend(L[f], r, l)
  <2>. SUFFICES ASSUME NEW f \in Exts, NEW r \in Reqs, NEW k \in Nos, Pend(M[f], r, k)
                PROVE  \E l \in Nos : l <= k /\ Pend(L[f], r, l)
    OBVIOUS
  <2>1. CASE f = e
    BY <2>1 DEF Moves
  <2>2. CASE f # e
    <3>1. M[f] = L[f] /\ k <= k
      BY <2>2, NosTypes, Zenon DEF OneLine
    <3>. QED  BY <3>1
  <2>. QED  BY <2>1, <2>2
<1>3. PlaceInv(a, M)
  <2>1. \A f \in Exts, r \in Reqs, k \in Nos : Pend(M[f], r, k) => r <= Len(a.sent)
    BY <1>2 DEF StreamInv, PlaceInv
  <2>2. \A f, g \in Exts, r \in Reqs, k, l \in Nos :
          Pend(M[f], r, k) /\ Pend(M[g], r, l) => f = g
    BY <1>2 DEF StreamInv, PlaceInv
  <2>3. \A f \in Exts, r \in Reqs, k \in Nos :
          Pend(M[f], r, k) /\ r = Len(a.sent) /\ a.sent[r] = a.ask => f = a.active
    BY <1>2 DEF StreamInv, PlaceInv
  <2>. QED  BY <2>1, <2>2, <2>3 DEF PlaceInv
<1>4. GotInv(a, M)
  <2>. SUFFICES ASSUME NEW f \in Exts, NEW r \in Reqs, NEW k \in Nos, Pend(M[f], r, k),
                       r <= Len(a.sent), NEW i \in 1..Len(a.got[a.sent[r]]),
                       a.got[a.sent[r]][i].of = a.sent[r]
                PROVE  a.got[a.sent[r]][i].no < k
    BY DEF GotInv
  <2>1. PICK l \in Nos : l <= k /\ Pend(L[f], r, l)
    BY <1>2
  <2>2. a.got[a.sent[r]][i].no < l
    BY <2>1 DEF StreamInv, GotInv
  <2>3. a.got[a.sent[r]][i] \in Answers
    <3>1. a.sent[r] \in Asks
      BY NewestAsk
    <3>2. a.got[a.sent[r]] \in Seq(Answers)
      BY <3>1, AppTypes
    <3>. QED  BY <3>2, ElementOfSeq
  <2>4. a.got[a.sent[r]][i].no \in Nat /\ l \in Nat /\ k \in Nat
    BY <2>3, NosTypes DEF Answers
  <2>. QED  BY <2>1, <2>2, <2>4
<1>5. ChainInv(a, M)
  <2>. SUFFICES ASSUME Streaming(a)
                PROVE  a.active \in Exts /\ Chain(M[a.active], Len(a.sent), Len(a.got[a.ask]) + 1)
    BY DEF ChainInv
  <2>1. Chain(L[a.active], Len(a.sent), Len(a.got[a.ask]) + 1)
    BY DEF StreamInv, ChainInv
  <2>2. Len(a.sent) \in Reqs /\ Len(a.got[a.ask]) + 1 \in Nat
    BY StreamingTypes
  <2>3. CASE a.active = e
    BY <2>1, <2>2, <2>3 DEF Moves
  <2>5. a.active \in Exts
    BY DEF StreamInv, ChainInv
  <2>4. CASE a.active # e
    BY <2>1, <2>4, <2>5 DEF OneLine
  <2>. QED  BY <2>3, <2>4, <2>5
<1>. QED  BY <1>1, <1>3, <1>4, <1>5 DEF StreamInv

\* A new ask is sent: its event is written to the extension that is active now.
LEMMA SendsKeepStreams ==
  ASSUME NEW a \in Apps, NEW b \in Apps, SentInv(a), SentInv(b), Sends(a, b), b.active \in Exts,
         SameAnswers(a, b), NEW L, NEW M, L[b.active] \in Lines, M[b.active] \in Lines,
         StreamInv(a, L), OneLine(L, M, b.active),
         NEW ev \in Events, ev.req = Len(a.sent) + 1, M[b.active].x = L[b.active].x,
         M[b.active].events = Append(L[b.active].events, ev),
         M[b.active].out = L[b.active].out, M[b.active].late = L[b.active].late
  PROVE  StreamInv(b, M)
<1>. DEFINE v == L[b.active]
            w == M[b.active]
            q == ev.req
<1>1. /\ a.ask \in Nat /\ b.ask = a.ask + 1 /\ Len(a.sent) \in Nat /\ q = Len(a.sent) + 1
      /\ q \in Reqs /\ b.got = a.got /\ b.pending.ask = b.ask /\ b.ask \in Asks
  <2>1. b.ask \in Asks
    BY NextAsk DEF Sends
  <2>. QED  BY <2>1, NewestAsk DEF Sends, Events
<1>2. /\ Len(b.sent) = Len(a.sent) + 1 /\ b.sent[q] = b.ask
      /\ \A i \in 1..Len(a.sent) : b.sent[i] = a.sent[i]
  <2>1. a.sent \in Seq(Asks)
    BY AppTypes
  <2>. QED  BY <1>1, <2>1, AppendProperties DEF Sends
<1>3. \A f \in Exts, r \in Reqs, k \in Nos : Pend(L[f], r, k) => r <= Len(a.sent) /\ r # q
  BY <1>1, NosTypes DEF StreamInv, PlaceInv
<1>4. /\ Side(w) /\ q \in Reqs
      /\ \A r \in Reqs, k \in Nos : Pend(w, r, k) => Pend(v, r, k) \/ (r = q /\ k = 1)
      /\ Chain(w, q, 1)
  <2>1. \A k \in Nos : ~Pend(v, q, k)
    BY <1>1, <1>3
  <2>2. Side(v)
    BY DEF StreamInv
  <2>. QED  BY <2>1, <2>2, WritesMoves
<1>5. \A f \in Exts, r \in Reqs, k \in Nos :
        Pend(M[f], r, k) => Pend(L[f], r, k) \/ (f = b.active /\ r = q /\ k = 1)
  <2>. SUFFICES ASSUME NEW f \in Exts, NEW r \in Reqs, NEW k \in Nos, Pend(M[f], r, k)
                PROVE  Pend(L[f], r, k) \/ (f = b.active /\ r = q /\ k = 1)
    OBVIOUS
  <2>1. CASE f = b.active
    BY <2>1, <1>4
  <2>2. CASE f # b.active
    BY <2>2 DEF OneLine
  <2>. QED  BY <2>1, <2>2
<1>. HIDE DEF v, w, q
<1>6. \A f \in Exts : Side(M[f])
  <2>. SUFFICES ASSUME NEW f \in Exts  PROVE Side(M[f])
    OBVIOUS
  <2>1. CASE f = b.active
    BY <2>1, <1>4 DEF w
  <2>2. CASE f # b.active
    BY <2>2 DEF OneLine, StreamInv
  <2>. QED  BY <2>1, <2>2
<1>7. PlaceInv(b, M)
  <2>1. \A f \in Exts, r \in Reqs, k \in Nos : Pend(M[f], r, k) => r <= Len(b.sent)
    BY <1>1, <1>2, <1>3, <1>5, NosTypes
  <2>2. \A f, g \in Exts, r \in Reqs, k, l \in Nos :
          Pend(M[f], r, k) /\ Pend(M[g], r, l) => f = g
    BY <1>3, <1>5 DEF StreamInv, PlaceInv
  <2>3. ASSUME NEW f \in Exts, NEW r \in Reqs, NEW k \in Nos, Pend(M[f], r, k),
               r = Len(b.sent)
        PROVE  f = b.active
    <3>1. r = q
      BY <2>3, <1>1, <1>2
    <3>. QED  BY <3>1, <2>3, <1>3, <1>5
  <2>. QED  BY <2>1, <2>2, <2>3 DEF PlaceInv
<1>8. GotInv(b, M)
  <2>. SUFFICES ASSUME NEW f \in Exts, NEW r \in Reqs, NEW k \in Nos, Pend(M[f], r, k),
                       NEW i \in 1..Len(b.got[b.sent[r]]), b.got[b.sent[r]][i].of = b.sent[r]
                PROVE  b.got[b.sent[r]][i].no < k
    BY DEF GotInv
  <2>1. CASE Pend(L[f], r, k)
    <3>1. r <= Len(a.sent) /\ b.sent[r] = a.sent[r]
      BY <2>1, <1>2, <1>3, NewestAsk
    <3>. QED  BY <3>1, <2>1, <1>1 DEF StreamInv, GotInv
  <2>2. CASE r = q
    <3>1. Len(a.got[b.ask]) = 0
      BY <1>1, NewestAsk
    <3>. QED  BY <3>1, <2>2, <1>1, <1>2
  <2>. QED  BY <2>1, <2>2, <1>5
<1>9. Increasing(b)
  BY <1>1 DEF StreamInv, Increasing
<1>10. Len(b.got[b.ask]) = 0
  BY <1>1, NewestAsk
<1>11. ChainInv(b, M)
  BY <1>1, <1>2, <1>4, <1>10 DEF ChainInv, w
<1>12. Gapless(b)
  BY <1>10 DEF Gapless
<1>. QED  BY <1>6, <1>7, <1>8, <1>9, <1>11, <1>12 DEF StreamInv

\* A message is read that nobody waits for.
LEMMA DiscardKeepsStreams ==
  ASSUME NEW a \in Apps, SentInv(a), NEW L, NEW M, StreamInv(a, L), NEW e \in Exts,
         OneLine(L, M, e), NEW m, Side(M[e]), Took(L[e], M[e], m), ~Expected(a, e, m)
  PROVE  StreamInv(a, M)
<1>1. \A f \in Exts : Side(M[f])
  BY DEF StreamInv, OneLine
<1>2. \A f \in Exts, r \in Reqs, k \in Nos : Pend(M[f], r, k) => Pend(L[f], r, k)
  <2>. SUFFICES ASSUME NEW f \in Exts, NEW r \in Reqs, NEW k \in Nos, Pend(M[f], r, k)
                PROVE  Pend(L[f], r, k)
    OBVIOUS
  <2>1. CASE f = e
    BY <2>1 DEF Took
  <2>2. CASE f # e
    BY <2>2 DEF OneLine
  <2>. QED  BY <2>1, <2>2
<1>3. PlaceInv(a, M)
  BY <1>2 DEF StreamInv, PlaceInv
<1>4. GotInv(a, M)
  BY <1>2 DEF StreamInv, GotInv
<1>5. ChainInv(a, M)
  <2>. SUFFICES ASSUME Streaming(a)
                PROVE  a.active \in Exts /\ Chain(M[a.active], Len(a.sent), Len(a.got[a.ask]) + 1)
    BY DEF ChainInv
  <2>1. a.active \in Exts /\ Chain(L[a.active], Len(a.sent), Len(a.got[a.ask]) + 1)
    BY DEF StreamInv, ChainInv
  <2>2. CASE a.active # e
    BY <2>1, <2>2 DEF OneLine
  <2>3. CASE a.active = e
    <3>1. Len(a.sent) \in Reqs /\ Len(a.got[a.ask]) + 1 \in Nat /\ a.ask \in Asks
      BY StreamingTypes
    <3>2. a.pending # NoCallback
      BY <3>1, NoExtIsNone DEF Streaming, Asks
    <3>3. m.req # Len(a.sent)
      BY <2>3, <3>2 DEF Expected
    <3>. QED  BY <2>1, <2>3, <3>1, <3>3 DEF Took
  <2>. QED  BY <2>2, <2>3
<1>. QED  BY <1>1, <1>3, <1>4, <1>5 DEF StreamInv

\* A message is read that is a response to the request sent last.
LEMMA AnswerKeepsStreams ==
  ASSUME NEW a \in Apps, SentInv(a), a.pending # NoCallback, NEW L, NEW M, StreamInv(a, L),
         NEW e \in Exts, OneLine(L, M, e), NEW m, Side(M[e]), Took(L[e], M[e], m),
         m.req = Len(a.sent), a.active = e, NEW b, NEW ans \in Answers, Adds(a, b, ans),
         ans.of = a.sent[Len(a.sent)], ans.no = m.no
  PROVE  StreamInv(b, M)
<1>. DEFINE p == a.pending.ask
            r0 == Len(a.sent)
<1>1. /\ p \in Asks /\ Len(a.got[p]) \in Nat
      /\ \A n \in Asks : n # p => b.got[n] = a.got[n]
      /\ Len(b.got[p]) = Len(a.got[p]) + 1
      /\ \A i \in 1..Len(a.got[p]) : b.got[p][i] = a.got[p][i]
      /\ b.got[p][Len(a.got[p]) + 1] = ans
      /\ \A i \in 1..Len(b.got[p]) : i \in 1..Len(a.got[p]) \/ i = Len(a.got[p]) + 1
  BY AddsGot
<1>2. /\ b.sent = a.sent /\ b.ask = a.ask /\ b.active = a.active /\ b.pending = a.pending
      /\ b \in Apps
  BY DEF Adds
<1>3. /\ Pend(L[e], r0, m.no) /\ r0 \in Reqs /\ m.no \in Nos /\ r0 \in 1..Len(a.sent)
      /\ a.sent[r0] \in Asks /\ r0 <= Len(a.sent)
  BY NewestAsk DEF Took, StreamInv, PlaceInv
<1>4. \A k \in Nos : Pend(M[e], r0, k) => m.no < k
  BY DEF Took
<1>5. \A n \in Nat : Chain(L[e], r0, n) => m.no = n /\ Chain(M[e], r0, n + 1)
  BY DEF Took
<1>6. \A r \in 1..Len(a.sent) : a.sent[r] = a.sent[r0] => r = r0
  <2>. SUFFICES ASSUME NEW r \in 1..Len(a.sent), a.sent[r] = a.sent[r0], r # r0  PROVE FALSE
    OBVIOUS
  <2>1. r \in 1..r0 - 1
    BY <1>3
  <2>2. a.sent[r] < a.sent[r0]
    BY <1>3, <2>1 DEF SentInv
  <2>3. a.sent[r0] \in Nat
    BY <1>3 DEF Asks
  <2>. QED  BY <2>2, <2>3
<1>. HIDE DEF p, r0
<1>7. \A f \in Exts : Side(M[f])
  BY DEF StreamInv, OneLine
<1>8. \A f \in Exts, r \in Reqs, k \in Nos : Pend(M[f], r, k) => Pend(L[f], r, k)
  <2>. SUFFICES ASSUME NEW f \in Exts, NEW r \in Reqs, NEW k \in Nos, Pend(M[f], r, k)
                PROVE  Pend(L[f], r, k)
    OBVIOUS
  <2>1. CASE f = e
    BY <2>1 DEF Took
  <2>2. CASE f # e
    BY <2>2 DEF OneLine
  <2>. QED  BY <2>1, <2>2
<1>9. PlaceInv(b, M)
  BY <1>2, <1>8 DEF StreamInv, PlaceInv
<1>10. GotInv(b, M)
  <2>. SUFFICES ASSUME NEW f \in Exts, NEW r \in Reqs, NEW k \in Nos, Pend(M[f], r, k),
                       r <= Len(a.sent), NEW i \in 1..Len(b.got[a.sent[r]]),
                       b.got[a.sent[r]][i].of = a.sent[r]
                PROVE  b.got[a.sent[r]][i].no < k
    BY <1>2 DEF GotInv
  <2>1. a.sent[r] \in Asks /\ r \in 1..Len(a.sent)
    BY NewestAsk
  <2>2. Pend(L[f], r, k)
    BY <1>8
  <2>3. CASE i \in 1..Len(a.got[a.sent[r]]) /\ b.got[a.sent[r]][i] = a.got[a.sent[r]][i]
    BY <2>2, <2>3 DEF StreamInv, GotInv
  <2>4. CASE a.sent[r] = p /\ i = Len(a.got[p]) + 1
    <3>1. a.sent[r] = a.sent[r0]
      BY <2>4, <1>1 DEF r0
    <3>2. r = r0
      BY <3>1, <2>1, <1>6
    <3>3. f = e
      BY <3>2, <2>2, <1>3 DEF StreamInv, PlaceInv
    <3>4. m.no < k
      BY <3>2, <3>3, <1>4
    <3>. QED  BY <3>4, <2>4, <1>1
  <2>. QED  BY <2>1, <2>3, <2>4, <1>1
<1>11. \A j \in 1..Len(a.got[p]) : ans.of = p /\ a.got[p][j].of = p => a.got[p][j].no < m.no
  <2>. SUFFICES ASSUME NEW j \in 1..Len(a.got[p]), ans.of = p, a.got[p][j].of = p
                PROVE  a.got[p][j].no < m.no
    OBVIOUS
  <2>1. a.sent[r0] = p
    BY DEF r0
  <2>. QED  BY <2>1, <1>3 DEF StreamInv, GotInv
<1>12. Increasing(b)
  <2>. SUFFICES ASSUME NEW n \in Asks, NEW i \in 1..Len(b.got[n]), b.got[n][i].of = n,
                       NEW j \in 1..i - 1, b.got[n][j].of = n
                PROVE  b.got[n][j].no < b.got[n][i].no
    BY DEF Increasing
  <2>1. CASE n # p
    BY <2>1, <1>1 DEF StreamInv, Increasing
  <2>2. CASE n = p /\ i \in 1..Len(a.got[p])
    <3>1. j \in 1..Len(a.got[p])
      BY <2>2, <1>1
    <3>. QED  BY <3>1, <2>2, <1>1 DEF StreamInv, Increasing
  <2>3. CASE n = p /\ i = Len(a.got[p]) + 1
    <3>1. j \in 1..Len(a.got[p])
      BY <2>3, <1>1
    <3>. QED  BY <3>1, <2>3, <1>1, <1>11
  <2>. QED  BY <2>1, <2>2, <2>3, <1>1
<1>13. Streaming(b) => /\ Streaming(a) /\ p = a.ask /\ ans.of = p
                       /\ Chain(L[e], r0, Len(a.got[p]) + 1)
  BY <1>2 DEF Streaming, StreamInv, ChainInv, p, r0
<1>14. ChainInv(b, M)
  <2>. SUFFICES ASSUME Streaming(b)
                PROVE  Chain(M[e], r0, Len(b.got[p]) + 1)
    BY <1>2, <1>13 DEF ChainInv, r0
  <2>1. Len(a.got[p]) + 1 \in Nat /\ Len(b.got[p]) = Len(a.got[p]) + 1
    BY <1>1
  <2>. QED  BY <2>1, <1>5, <1>13
<1>15. Gapless(b)
  <2>. SUFFICES ASSUME a.ask # 0, NEW i \in 1..Len(b.got[a.ask]), b.got[a.ask][i].of = a.ask
                PROVE  b.got[a.ask][i].no = i
    BY <1>2 DEF Gapless
  <2>1. a.ask \in Asks
    BY AppTypes DEF Asks
  <2>2. CASE i \in 1..Len(a.got[a.ask]) /\ b.got[a.ask][i] = a.got[a.ask][i]
    BY <2>2 DEF StreamInv, Gapless
  <2>3. CASE a.ask = p /\ i = Len(a.got[p]) + 1
    <3>1. ans.of = a.ask
      BY <2>3, <1>1
    <3>2. Streaming(b)
      BY <1>2, <1>3, <2>3, <3>1, EmptySeq DEF Streaming, p, r0
    <3>3. m.no = Len(a.got[p]) + 1
      BY <3>2, <1>1, <1>5, <1>13
    <3>. QED  BY <3>3, <2>3, <1>1
  <2>. QED  BY <2>1, <2>2, <2>3, <1>1
<1>. QED  BY <1>7, <1>9, <1>10, <1>12, <1>14, <1>15 DEF StreamInv

-----------------------------------------------------------------------------
(* The steps of the system. *)

\* The lines when the app has read a message, and not yet written an event.
ReadLines ==
  [f \in Exts |-> [x |-> ext[f], events |-> toExt[f], out |-> toApp'[f], late |-> late'[f]]]

LEMMA GoesKeepsStreams ==
  ASSUME Types, Types', ext' = ext, NEW a \in Apps, SentInv(a), StreamInv(a, ReadLines),
         NEW r, NEW items, Goes(a, r, items),
         \/ Delivers(a, r.app)
         \/ /\ toExt' = toExt
            /\ SameAsks(a, r.app) \/ Dropped(a, r.app) \/ Told(a, r.app) \/ Waits(a, r.app)
  PROVE  StreamInv(r.app, AllLines') /\ SentInv(r.app) /\ r.app \in Apps
<1>1. r.app \in Apps /\ SentInv(r.app)
  BY GoesKeepsSent, GoesPending
<1>2. CASE toExt' = toExt /\ (SameAsks(a, r.app) \/ Dropped(a, r.app) \/ Told(a, r.app) \/ Waits(a, r.app))
  <2>1. AllLines' = ReadLines
    BY <1>2 DEF AllLines, Line, ReadLines
  <2>2. Quiet(a, r.app)
    BY <1>2, GoesQuietly
  <2>. QED  BY <1>1, <2>1, <2>2, QuietKeepsStreams
<1>3. CASE Delivers(a, r.app)
  <2>. DEFINE b == r.app
              L == ReadLines
              M == AllLines'
  <2>1. /\ Sends(a, b) /\ b.active \in Exts
        /\ \E ev \in Events : /\ ev.req = Len(a.sent) + 1
                              /\ toExt' = [toExt EXCEPT ![b.active] = Append(@, ev)]
    BY <1>3 DEF Delivers
  <2>2. SameAnswers(a, b)
    BY GoesSameAnswers
  <2>3. StreamInv(a, L) /\ b \in Apps /\ SentInv(b)
    BY <1>1
  <2>4. \A f \in Exts : /\ L[f] = [x |-> ext[f], events |-> toExt[f], out |-> toApp'[f], late |-> late'[f]]
                        /\ M[f] = [x |-> ext[f], events |-> toExt'[f], out |-> toApp'[f], late |-> late'[f]]
                        /\ L[f] \in Lines /\ M[f] \in Lines
    BY DEF AllLines, Line, ReadLines, Types, Lines
  <2>5. toExt \in [Exts -> Seq(Events)]
    BY DEF Types
  <2>. HIDE DEF b, L, M
  <2>6. PICK ev \in Events : /\ ev.req = Len(a.sent) + 1
                             /\ toExt' = [toExt EXCEPT ![b.active] = Append(@, ev)]
    BY <2>1
  <2>7. toExt'[b.active] = Append(toExt[b.active], ev)
        /\ \A f \in Exts : f # b.active => toExt'[f] = toExt[f]
    BY <2>1, <2>5, <2>6
  <2>8. OneLine(L, M, b.active)
    BY <2>4, <2>7 DEF OneLine
  <2>9. /\ M[b.active].x = L[b.active].x /\ M[b.active].out = L[b.active].out
        /\ M[b.active].late = L[b.active].late
        /\ M[b.active].events = Append(L[b.active].events, ev)
        /\ L[b.active] \in Lines /\ M[b.active] \in Lines
    <3>. DEFINE f == b.active
    <3>1. /\ f \in Exts /\ toExt'[f] = Append(toExt[f], ev)
          /\ L[f] = [x |-> ext[f], events |-> toExt[f], out |-> toApp'[f], late |-> late'[f]]
          /\ M[f] = [x |-> ext[f], events |-> toExt'[f], out |-> toApp'[f], late |-> late'[f]]
          /\ L[f] \in Lines /\ M[f] \in Lines
      BY <2>1, <2>4, <2>7
    <3>. HIDE DEF f
    <3>2. /\ L[f].x = ext[f] /\ L[f].events = toExt[f] /\ L[f].out = toApp'[f] /\ L[f].late = late'[f]
          /\ M[f].x = ext[f] /\ M[f].events = toExt'[f] /\ M[f].out = toApp'[f] /\ M[f].late = late'[f]
      BY <3>1
    <3>3. M[f].events = Append(L[f].events, ev)
      BY <3>1, <3>2
    <3>. QED  BY <3>1, <3>2, <3>3 DEF f
  <2>10. StreamInv(b, M)
    BY <2>1, <2>2, <2>3, <2>6, <2>8, <2>9, SendsKeepStreams
  <2>. QED  BY <2>3, <2>10 DEF b, M
<1>. QED  BY <1>2, <1>3

LEMMA AppStepStreams ==
  ASSUME Types, Types', SentInv(app), StreamInv(app, AllLines), AppStep,
         UNCHANGED <<ext, toApp, late>>
  PROVE  StreamInv(app, AllLines)'
<1>1. PICK r : Goes(app, r, {}) /\ Becomes(r)
  BY DEF AppStep
<1>2. /\ app' = r.app
      /\ \/ Delivers(app, r.app)
         \/ /\ toExt' = toExt
            /\ SameAsks(app, r.app) \/ Dropped(app, r.app) \/ Told(app, r.app) \/ Waits(app, r.app)
  BY <1>1, BecomesDelivers DEF Types
<1>3. StreamInv(app, ReadLines)
  <2>1. ReadLines = AllLines
    BY DEF ReadLines, AllLines, Line
  <2>. QED  BY <2>1
<1>4. StreamInv(r.app, AllLines')
  BY <1>1, <1>2, <1>3, GoesKeepsStreams DEF Types
<1>. QED  BY <1>2, <1>4

LEMMA ResponseStreams ==
  ASSUME Types, Types', SentInv(app), StreamInv(app, AllLines), ext' = ext, NEW e \in Exts,
         NEW m \in Messages, ResponseStep(e, m), OneLine(AllLines, ReadLines, e),
         Side(ReadLines[e]), Took(Line(e), ReadLines[e], m)
  PROVE  StreamInv(app, AllLines)'
<1>1. AllLines[e] = Line(e) /\ app \in Apps
  BY DEF AllLines, Types
<1>2. CASE ~Expected(app, e, m) /\ app' = app /\ toExt' = toExt
  <2>1. AllLines' = ReadLines
    BY <1>2 DEF AllLines, Line, ReadLines
  <2>2. StreamInv(app, ReadLines)
    BY <1>1, <1>2, DiscardKeepsStreams
  <2>. QED  BY <1>2, <2>1, <2>2
<1>3. ASSUME NEW r, Responds(app, e, m, r), Becomes(r)
      PROVE  StreamInv(app, AllLines)'
  <2>1. /\ app.pending # NoCallback /\ app.active = e /\ m.req = Len(app.sent) /\ app' \in Apps
    BY <1>3, RespondsParts
  <2>2. PICK ans, b, c :
          /\ ans \in Answers
          /\ ans.of = app.sent[Len(app.sent)] /\ ans.no = m.no /\ ans.final = m.final
          /\ Adds(app, b, ans) /\ Goes(b, c, ItemsOf(e, m))
          /\ app' = IF m.final THEN [c.app EXCEPT !.pending = NoCallback] ELSE c.app
          /\ \/ Delivers(b, c.app)
             \/ /\ toExt' = toExt
                /\ SameAsks(b, c.app) \/ Dropped(b, c.app) \/ Told(b, c.app) \/ Waits(b, c.app)
    BY <1>3, RespondsParts
  <2>3. StreamInv(b, ReadLines)
    BY <1>1, <2>1, <2>2, AnswerKeepsStreams
  <2>4. SentInv(b) /\ b \in Apps
    BY <1>1, <2>1, <2>2, AddsKeepsSent DEF Adds
  <2>5. StreamInv(c.app, AllLines') /\ SentInv(c.app) /\ c.app \in Apps
    BY <2>2, <2>3, <2>4, GoesKeepsStreams
  <2>6. CASE m.final
    <3>. DEFINE d == [c.app EXCEPT !.pending = NoCallback]
    <3>1. d \in Apps /\ d.sent = c.app.sent /\ d.ask = c.app.ask /\ d.active = c.app.active
          /\ d.got = c.app.got /\ d.pending = NoCallback
      BY <2>5 DEF Apps
    <3>2. app' = d
      BY <2>2, <2>6
    <3>. HIDE DEF d
    <3>3. Quiet(c.app, d)
      BY <2>5, <3>1, ClearedQuietly
    <3>4. SentInv(d)
      BY <2>5, <3>1, NoExtIsNone, AppTypes DEF SentInv
    <3>5. StreamInv(d, AllLines')
      BY <2>5, <3>1, <3>3, <3>4, QuietKeepsStreams
    <3>. QED  BY <3>2, <3>5
  <2>7. CASE ~m.final
    BY <2>2, <2>5, <2>7
  <2>. QED  BY <2>6, <2>7
<1>. QED  BY <1>2, <1>3 DEF ResponseStep

LEMMA ReceiveStreams ==
  ASSUME Types, Types', SentInv(app), StreamInv(app, AllLines), NEW e \in Exts,
         Receive(e) \/ ReceiveLate(e)
  PROVE  StreamInv(app, AllLines)'
<1>. DEFINE v == Line(e)
            w == ReadLines[e]
<1>1. /\ v \in Lines /\ v.x = ext[e] /\ v.events = toExt[e] /\ v.out = toApp[e] /\ v.late = late[e]
  BY LineFacts
<1>2. /\ w.x = ext[e] /\ w.events = toExt[e] /\ w.out = toApp'[e] /\ w.late = late'[e]
      /\ w \in Lines
  BY DEF ReadLines, Types, Lines
<1>3. /\ toApp \in [Exts -> Seq(Messages)] /\ late \in [Exts -> Seq(Messages)]
      /\ AllLines[e] = v
  BY DEF Types, AllLines
<1>4. Side(v)
  BY <1>3 DEF StreamInv
<1>. HIDE DEF v, w
<1>5. CASE Receive(e)
  <2>. DEFINE m == Head(toApp[e])
  <2>1. m \in Messages /\ ResponseStep(e, m)
    BY <1>5, ReceiveFacts
  <2>2. toApp[e] # <<>> /\ toApp' = [toApp EXCEPT ![e] = Tail(@)] /\ late' = late /\ ext' = ext
    BY <1>5 DEF Receive
  <2>3. toApp'[e] = Tail(toApp[e]) /\ \A f \in Exts : f # e => toApp'[f] = toApp[f]
    BY <1>3, <2>2
  <2>4. OneLine(AllLines, ReadLines, e)
    BY <2>2, <2>3 DEF OneLine, AllLines, Line, ReadLines
  <2>5. /\ v.out # <<>> /\ m = Head(v.out) /\ w.out = Tail(v.out) /\ w.late = v.late
    BY <1>1, <1>2, <2>2, <2>3
  <2>. HIDE DEF m
  <2>6. Reads(v, w, m)
    BY <1>1, <1>2, <2>5 DEF Reads
  <2>7. Side(w) /\ Took(v, w, m)
    BY <1>1, <1>2, <1>4, <2>5, <2>6, ReadsOut
  <2>. QED  BY <2>1, <2>2, <2>4, <2>7, ResponseStreams DEF v, w
<1>6. CASE ReceiveLate(e)
  <2>. DEFINE m == Head(late[e])
  <2>1. m \in Messages /\ ResponseStep(e, m)
    BY <1>6, ReceiveLateFacts
  <2>2. late[e] # <<>> /\ late' = [late EXCEPT ![e] = Tail(@)] /\ toApp' = toApp /\ ext' = ext
    BY <1>6 DEF ReceiveLate
  <2>3. late'[e] = Tail(late[e]) /\ \A f \in Exts : f # e => late'[f] = late[f]
    BY <1>3, <2>2
  <2>4. OneLine(AllLines, ReadLines, e)
    BY <2>2, <2>3 DEF OneLine, AllLines, Line, ReadLines
  <2>5. /\ v.late # <<>> /\ m = Head(v.late) /\ w.late = Tail(v.late) /\ w.out = v.out
    BY <1>1, <1>2, <2>2, <2>3
  <2>. HIDE DEF m
  <2>6. Reads(v, w, m)
    BY <1>1, <1>2, <2>5 DEF Reads
  <2>7. Side(w) /\ Took(v, w, m)
    BY <1>1, <1>2, <1>4, <2>5, <2>6, ReadsLate
  <2>. QED  BY <2>1, <2>2, <2>4, <2>7, ResponseStreams DEF v, w
<1>. QED  BY <1>5, <1>6

\* A step of an extension's side, and what errored or started does in the app.
LEMMA SideStreams ==
  ASSUME Types, Types', SentInv(app), SentInv(app)', StreamInv(app, AllLines), NEW e \in Exts,
         SideMoves(e), app' = app \/ SameAsks(app, app') \/ Forgets(app, app')
  PROVE  StreamInv(app, AllLines)'
<1>1. AllLines[e] = Line(e) /\ AllLines'[e] = Line(e)' /\ app \in Apps /\ app' \in Apps
  BY DEF AllLines, Types
<1>2. OneLine(AllLines, AllLines', e)
  BY DEF SideMoves, OfLine, OneLine, AllLines
<1>3. StreamInv(app, AllLines')
  BY <1>1, <1>2, MovesKeepStreams DEF SideMoves
<1>4. CASE Forgets(app, app')
  <2>1. Quiet(app, app')
    BY <1>1, <1>4, ForgetsQuietly
  <2>. QED  BY <1>1, <1>3, <2>1, QuietKeepsStreams
<1>5. CASE app' = app \/ SameAsks(app, app')
  <2>1. Quiet(app, app')
    <3>1. app.ask <= app.ask
      BY <1>1, AppTypes
    <3>. QED  BY <1>5, <3>1 DEF SameAsks, Quiet, SameAnswers, Streaming
  <2>. QED  BY <1>1, <1>3, <2>1, QuietKeepsStreams
<1>. QED  BY <1>4, <1>5

LEMMA SideSteps ==
  ASSUME Types, Types', SentInv(app), StreamInv(app, AllLines), NEW e \in Exts,
         \/ ReadEvent(e) \/ Debounced(e) \/ Threads(e) \/ SendIdle(e)
         \/ StopExt(e) \/ Crash(e) \/ HandleExit(e) \/ (StartExt(e) /\ ext' # ext)
  PROVE  SideMoves(e) /\ (app' = app \/ SameAsks(app, app') \/ Forgets(app, app'))
<1>1. Side(Line(e)) /\ app \in Apps
  BY DEF StreamInv, AllLines, Types
<1>2. CASE ReadEvent(e)
  BY <1>1, <1>2, ReadEventMoves DEF ReadEvent
<1>3. CASE Debounced(e)
  BY <1>1, <1>3, DebouncedMoves DEF Debounced
<1>4. CASE Threads(e)
  BY <1>1, <1>4, ThreadsMove, ThreadSteps
<1>5. CASE SendIdle(e)
  BY <1>1, <1>5, SendIdleMoves DEF SendIdle
<1>6. CASE StopExt(e)
  BY <1>1, <1>6, CloseSocketMoves DEF StopExt
<1>7. CASE HandleExit(e)
  <2>1. SideMoves(e)
    BY <1>1, <1>7, CloseSocketMoves DEF HandleExit
  <2>2. app' = app \/ Forgets(app, app')
    BY <1>1, <1>7, ErroredForgets DEF HandleExit
  <2>. QED  BY <2>1, <2>2
<1>8. CASE Crash(e)
  <2>. DEFINE x == [Off EXCEPT !.state = "dead"]
  <2>1. x.idle = <<>> /\ x.threads = {} /\ x.debounce = 0
    BY DEF Off, Fresh
  <2>2. /\ ext' = [ext EXCEPT ![e] = x] /\ app' = app
        /\ toExt' = toExt /\ toApp' = toApp /\ late' = late
    BY <1>8 DEF Crash
  <2>. HIDE DEF x
  <2>. QED  BY <1>1, <2>1, <2>2, ProcessMoves
<1>9. CASE StartExt(e) /\ ext' # ext
  <2>1. Fresh.idle = <<>> /\ Fresh.threads = {} /\ Fresh.debounce = 0
    BY DEF Fresh
  <2>2. /\ ext' = [ext EXCEPT ![e] = Fresh]
        /\ toExt' = toExt /\ toApp' = toApp /\ late' = late
        /\ app' = app \/ app' = [app EXCEPT !.reloads = @ + 1]
    BY <1>9 DEF StartExt
  <2>3. SideMoves(e)
    BY <1>1, <2>1, <2>2, ProcessMoves
  <2>4. app' = app \/ SameAsks(app, app')
    BY <1>1, <2>2, ReloadsAgain
  <2>. QED  BY <2>3, <2>4
<1>. QED  BY <1>2, <1>3, <1>4, <1>5, <1>6, <1>7, <1>8, <1>9

LEMMA InitStreams ==
  ASSUME Init
  PROVE  StreamInv(app, AllLines)
<1>1. /\ app.sent = <<>> /\ app.ask = 0 /\ app.got = [a \in Asks |-> <<>>]
  BY DEF Init
<1>2. \A e \in Exts : /\ AllLines[e].x.idle = <<>> /\ AllLines[e].x.threads = {}
                      /\ AllLines[e].x.debounce = 0 /\ AllLines[e].events = <<>>
                      /\ AllLines[e].out = <<>> /\ AllLines[e].late = <<>>
  BY DEF Init, AllLines, Line, Off, Fresh
<1>3. Len(<<>>) = 0 /\ 1..0 = {}
  BY EmptySeq
<1>4. \A e \in Exts : \A r, k : ~Pend(AllLines[e], r, k)
  BY <1>2, <1>3 DEF Pend, Due, Coming, Queued
<1>5. ASSUME NEW e \in Exts
      PROVE  Side(AllLines[e])
  <2>. DEFINE v == AllLines[e]
  <2>1. /\ v.x.idle = <<>> /\ v.x.threads = {} /\ v.x.debounce = 0 /\ v.events = <<>>
        /\ v.out = <<>> /\ v.late = <<>>
    BY <1>2
  <2>2. \A r, k : ~Pend(v, r, k)
    BY <1>4
  <2>. HIDE DEF v
  <2>3. UniqueInv(v)
    BY <2>1, <1>3 DEF UniqueInv, ComesOnce
  <2>4. InputInv(v)
    BY <2>1, <1>3 DEF InputInv, Inputs
  <2>5. OrderInv(v)
    <3>1. Sorted(v.x.idle) /\ Sorted(v.out) /\ Sorted(v.late)
      BY <2>1, <1>3 DEF Sorted
    <3>. QED  BY <3>1, <2>2 DEF OrderInv, Pend
  <2>6. Side(v)
    BY <2>3, <2>4, <2>5 DEF Side
  <2>. QED  BY <2>6 DEF v
<1>6. PlaceInv(app, AllLines) /\ GotInv(app, AllLines)
  BY <1>4 DEF PlaceInv, GotInv
<1>7. Increasing(app) /\ ChainInv(app, AllLines) /\ Gapless(app)
  BY <1>1, <1>3 DEF Increasing, ChainInv, Streaming, Gapless
<1>. QED  BY <1>5, <1>6, <1>7 DEF StreamInv

LEMMA StepStreams ==
  ASSUME Types, AskInv(app), StreamInv(app, AllLines), [Next]_vars
  PROVE  StreamInv(app, AllLines)'
<1>1. Types' /\ AskInv(app)' /\ SentInv(app)
  BY StepTypes, StepAsks DEF AskInv
<1>2. SentInv(app)' /\ app \in Apps /\ app' \in Apps
  BY <1>1 DEF AskInv, Types
<1>3. ASSUME AllLines' = AllLines, app' = app \/ Forgets(app, app')
      PROVE  StreamInv(app, AllLines)'
  <2>1. CASE Forgets(app, app')
    <3>1. Quiet(app, app')
      BY <1>2, <2>1, ForgetsQuietly
    <3>. QED  BY <1>1, <1>2, <1>3, <3>1, QuietKeepsStreams
  <2>. QED  BY <1>3, <2>1
<1>4. CASE User \/ ReloadQuery
  BY <1>1, <1>4, UserSteps, AppStepStreams
<1>5. CASE LoadingTimeout
  <2>1. AllLines' = AllLines
    BY <1>5 DEF LoadingTimeout, AllLines, Line
  <2>2. Forgets(app, app')
    BY <1>2, <1>5, FinishLoadingForgets DEF LoadingTimeout
  <2>. QED  BY <2>1, <2>2, <1>3
<1>6. ASSUME NEW e \in Exts, Receive(e) \/ ReceiveLate(e)
      PROVE  StreamInv(app, AllLines)'
  BY <1>1, <1>6, ReceiveStreams
<1>7. ASSUME NEW e \in Exts,
             \/ ReadEvent(e) \/ Debounced(e) \/ Threads(e) \/ SendIdle(e)
             \/ StopExt(e) \/ Crash(e) \/ HandleExit(e) \/ (StartExt(e) /\ ext' # ext)
      PROVE  StreamInv(app, AllLines)'
  BY <1>1, <1>2, <1>7, SideSteps, SideStreams
<1>8. ASSUME NEW e \in Exts, StartExt(e), ext' = ext
      PROVE  StreamInv(app, AllLines)'
  <2>1. AllLines' = AllLines
    BY <1>8 DEF StartExt, AllLines, Line
  <2>2. CASE app' = app \/ Forgets(app, app')
    BY <2>1, <2>2, <1>3
  <2>3. CASE app' = [app EXCEPT !.reloads = @ + 1]
    <3>1. SameAsks(app, app')
      BY <1>2, <2>3, ReloadsAgain
    <3>2. Quiet(app, app')
      <4>1. app.ask <= app.ask
        BY <1>2, AppTypes
      <4>. QED  BY <3>1, <4>1 DEF SameAsks, Quiet, SameAnswers, Streaming
    <3>. QED  BY <1>1, <1>2, <2>1, <3>2, QuietKeepsStreams
  <2>4. app' = Errored(app, e) => app' = app \/ Forgets(app, app')
    BY <1>2, ErroredForgets
  <2>. QED  BY <1>8, <2>2, <2>3, <2>4 DEF StartExt
<1>9. CASE UNCHANGED vars
  <2>1. AllLines' = AllLines /\ app' = app
    BY <1>9 DEF vars, AllLines, Line
  <2>. QED  BY <2>1, <1>3
<1>. QED  BY <1>4, <1>5, <1>6, <1>7, <1>8, <1>9 DEF Next

LEMMA SpecStreams == Spec => []StreamInv(app, AllLines)
<1>1. Init => StreamInv(app, AllLines)
  BY InitStreams
<1>2. Types /\ AskInv(app) /\ StreamInv(app, AllLines) /\ [Next]_vars => StreamInv(app, AllLines)'
  BY StepStreams
<1>. QED  BY <1>1, <1>2, SpecAsks, PTL DEF Spec

\* The batches of a stream reach their callback in the order in which they were
\* yielded, and without a gap as long as nothing else was asked: the listener
\* threads, the queue of the main loop, both sockets and what is read of a
\* closed one keep the order, and what a newer input supersedes has no rest.
THEOREM StreamsArriveInOrder == Spec => []StreamInOrder
<1>1. Types /\ StreamInv(app, AllLines) => StreamInOrder
  <2>. SUFFICES ASSUME Types, StreamInv(app, AllLines), NEW a \in Asks,
                       NEW i \in DOMAIN app.got[a], app.got[a][i].of = a
                PROVE  /\ \A j \in 1..i - 1 : app.got[a][j].of = a => app.got[a][j].no < app.got[a][i].no
                       /\ a = app.ask => app.got[a][i].no = i
    BY DEF StreamInOrder
  <2>1. app.got[a] \in Seq(Answers) /\ app \in Apps
    BY AppTypes DEF Types
  <2>2. i \in 1..Len(app.got[a])
    BY <2>1, LenProperties
  <2>3. a # 0
    BY DEF Asks
  <2>. QED  BY <2>2, <2>3 DEF StreamInv, Increasing, Gapless
<1>. QED  BY <1>1, SpecAsks, SpecStreams, PTL

-----------------------------------------------------------------------------
(* What the id of a result stands for.                                     *)

Carries(q, item) ==
  \E j \in 1..Len(q) : item.req = q[j].req /\ item.no = q[j].no /\ item.id \in q[j].ids
\* The results of extension e that are on screen, or on their way there.
Shows(a, v, e, item) ==
  item.ext = e /\ (item \in a.screen \/ Carries(v.out, item) \/ Carries(v.late, item))

\* The ids given out for the request that is served: batch by batch, and what
\* is still to come has a higher number than all of them.
Shaped(b) == b.size # 0 => b.effect \in {"replace", "append"} /\ (b.no <= MaxBatches \/ b.no = 1)
Newest(x) == x.cache[Len(x.cache)]
CacheInv(v) ==
  /\ \A j \in 1..Len(v.x.idle) : Shaped(v.x.idle[j])
  /\ v.x.cache # <<>> =>
       /\ Len(v.x.cache) <= Newest(v.x) /\ (Len(v.x.cache) = 1 \/ Newest(v.x) <= MaxBatches)
       /\ \A r \in Reqs, k \in Nos : Serves(v.x, r) /\ Rest(v, r, k) => Newest(v.x) < k

Known(x, r) == \E j \in 1..Len(x.served) : x.served[j] = r
Once(x, r) == \A j \in 1..Len(x.served) : x.served[j] = r => j = Len(x.served)
Resolves(x, item) ==
  Serves(x, item.req) /\ Once(x, item.req) =>
    item.id < Len(x.cache) /\ x.cache[item.id + 1] = item.no

\* A result of a request that the process may still answer is of a request it
\* has given ids to: those ids are given out no more than once.
Fits(a, v, item) ==
  /\ item.req <= Len(a.sent) /\ item.id \in 0..MaxBatches
  /\ ~Coming(v, item.req)
  /\ \A k \in Nos : Rest(v, item.req, k) => Known(v.x, item.req)
  /\ Resolves(v.x, item)

ResultInv(a, v, e) ==
  /\ CacheInv(v)
  /\ \A j \in 1..Len(v.x.served) : v.x.served[j] <= Len(a.sent)
  /\ \A item \in Results : Shows(a, v, e, item) => Fits(a, v, item)

LEMMA ProcessTypes ==
  ASSUME NEW v \in Lines
  PROVE  /\ v.x.served \in Seq(Reqs) /\ v.x.cache \in Seq(Nos)
         /\ Len(v.x.served) \in Nat /\ Len(v.x.cache) \in Nat
         /\ \A j \in 1..Len(v.x.served) : v.x.served[j] \in Reqs
         /\ \A j \in 1..Len(v.x.cache) : v.x.cache[j] \in Nos
         /\ v.x.cache # <<>> => Len(v.x.cache) \in 1..Len(v.x.cache) /\ Newest(v.x) \in Nos
         /\ \A r : Serves(v.x, r) <=> Len(v.x.served) # 0 /\ v.x.served[Len(v.x.served)] = r
         /\ \A r : Serves(v.x, r) => r \in Reqs /\ Known(v.x, r)
<1>1. /\ v.x.served \in Seq(Reqs) /\ v.x.cache \in Seq(Nos)
  BY LineTypes DEF Processes
<1>2. /\ Len(v.x.served) \in Nat /\ Len(v.x.cache) \in Nat
      /\ \A j \in 1..Len(v.x.served) : v.x.served[j] \in Reqs
      /\ \A j \in 1..Len(v.x.cache) : v.x.cache[j] \in Nos
  BY <1>1, LenProperties, ElementOfSeq
<1>3. /\ v.x.cache # <<>> => Len(v.x.cache) # 0
      /\ v.x.served = <<>> <=> Len(v.x.served) = 0
  BY <1>1, EmptySeq
<1>4. v.x.cache # <<>> => Len(v.x.cache) \in 1..Len(v.x.cache)
  BY <1>2, <1>3
<1>5. \A r : Serves(v.x, r) <=> Len(v.x.served) # 0 /\ v.x.served[Len(v.x.served)] = r
  BY <1>3 DEF Serves, Last
<1>6. Len(v.x.served) # 0 => Len(v.x.served) \in 1..Len(v.x.served)
  BY <1>2
<1>7. \A r : Serves(v.x, r) => r \in Reqs /\ Known(v.x, r)
  BY <1>2, <1>5, <1>6 DEF Known
<1>. QED  BY <1>1, <1>2, <1>4, <1>5, <1>7 DEF Newest

\* The triggers of the home list are of no request.
LEMMA TriggerFits ==
  ASSUME NEW a \in Apps, NEW v \in Lines, NEW item \in Triggers
  PROVE  Fits(a, v, item)
<1>1. item.req = 0 /\ item.id = 0
  BY DEF Triggers, Trigger
<1>2. 0 <= Len(a.sent)
  BY AppTypes
<1>3. ~Coming(v, 0)
  BY QueueTypes
<1>4. 0 \notin Reqs
  BY NosTypes
<1>5. \A k : ~Rest(v, 0, k)
  <2>1. \A t \in v.x.threads : t.req \in Reqs
    BY LineTypes DEF Tasks
  <2>. QED  BY <2>1, <1>3, <1>4, QueueTypes DEF Rest, Due
<1>6. ~Serves(v.x, 0)
  BY <1>4, ProcessTypes
<1>7. 0 \in 0..MaxBatches
  BY NosTypes
<1>. QED  BY <1>1, <1>2, <1>3, <1>5, <1>6, <1>7 DEF Fits, Resolves

\* A step that gives out no ids: what is served is served on, or forgotten with
\* the process, and only a new request is one more to answer.
LEMMA KeepsResults ==
  ASSUME NEW a \in Apps, NEW b \in Apps, NEW v \in Lines, NEW w \in Lines, NEW e \in Exts,
         ResultInv(a, v, e), Len(a.sent) <= Len(b.sent),
         \A item \in Results : Shows(b, w, e, item) => Shows(a, v, e, item) \/ item \in Triggers,
         \A r \in Reqs : Coming(w, r) => Coming(v, r) \/ r > Len(a.sent),
         \A r \in Reqs, k \in Nos : Rest(w, r, k) =>
           r > Len(a.sent) \/ \E l \in Nos : l <= k /\ Rest(v, r, l),
         \/ w.x.served = v.x.served /\ w.x.cache = v.x.cache
         \/ /\ w.x.served = <<>> /\ w.x.cache = <<>>
            /\ \A r \in Reqs, k \in Nos : Rest(w, r, k) => Coming(w, r),
         \A j \in 1..Len(w.x.idle) : Shaped(w.x.idle[j])
  PROVE  ResultInv(b, w, e)
<1>1. Len(a.sent) \in Nat /\ Len(b.sent) \in Nat
  BY AppTypes
<1>2. CASE w.x.served = <<>> /\ w.x.cache = <<>>
           /\ \A r \in Reqs, k \in Nos : Rest(w, r, k) => Coming(w, r)
  <2>1. Len(w.x.served) = 0
    BY <1>2, EmptySeq
  <2>2. \A r : ~Serves(w.x, r)
    BY <2>1, ProcessTypes
  <2>3. CacheInv(w)
    BY <1>2 DEF CacheInv
  <2>4. ASSUME NEW item \in Results, Shows(b, w, e, item)
        PROVE  Fits(b, w, item)
    <3>1. CASE item \in Triggers
      BY <3>1, TriggerFits
    <3>2. CASE Shows(a, v, e, item)
      <4>1. Fits(a, v, item)
        BY <3>2 DEF ResultInv
      <4>2. item.req \in 0..MaxAsks
        BY DEF Results
      <4>3. item.req \in Reqs \/ item.req = 0
        BY <4>2, NosTypes DEF Reqs
      <4>4. ~Coming(w, item.req)
        BY <4>1, <4>2, <4>3, <1>1, QueueTypes DEF Fits
      <4>5. \A k \in Nos : ~Rest(w, item.req, k)
        BY <4>3, <4>4, <1>2, LineTypes, QueueTypes, NosTypes DEF Rest, Due, Tasks
      <4>6. item.req <= Len(b.sent)
        BY <4>1, <4>2, <1>1 DEF Fits
      <4>. QED  BY <4>1, <4>4, <4>5, <4>6, <2>2 DEF Fits, Resolves
    <3>. QED  BY <2>4, <3>1, <3>2
  <2>. QED  BY <2>1, <2>3, <2>4 DEF ResultInv
<1>3. CASE w.x.served = v.x.served /\ w.x.cache = v.x.cache
  <2>1. /\ \A r : Serves(w.x, r) <=> Serves(v.x, r)
        /\ \A r : Known(w.x, r) <=> Known(v.x, r)
        /\ \A r : Once(w.x, r) <=> Once(v.x, r)
        /\ Newest(w.x) = Newest(v.x)
    BY <1>3 DEF Serves, Known, Once, Newest
  <2>2. \A item : Resolves(w.x, item) <=> Resolves(v.x, item)
    BY <2>1, <1>3 DEF Resolves
  <2>3. \A j \in 1..Len(w.x.served) : w.x.served[j] <= Len(a.sent) /\ w.x.served[j] <= Len(b.sent)
    <3>1. \A j \in 1..Len(w.x.served) : w.x.served[j] \in Reqs /\ w.x.served[j] <= Len(a.sent)
      BY <1>3, ProcessTypes DEF ResultInv
    <3>2. \A n \in Reqs : n <= Len(a.sent) => n <= Len(b.sent)
      BY <1>1, NosTypes
    <3>. QED  BY <3>1, <3>2
  <2>4. \A r : Serves(w.x, r) => r <= Len(a.sent) /\ r \in Reqs
    BY <2>3, ProcessTypes DEF Known
  <2>5. CacheInv(w)
    <3>1. ASSUME w.x.cache # <<>>, NEW r \in Reqs, NEW k \in Nos, Serves(w.x, r), Rest(w, r, k)
          PROVE  Newest(w.x) < k
      <4>1. ~(r > Len(a.sent))
        BY <2>4, <3>1, <1>1, NosTypes
      <4>2. PICK l \in Nos : l <= k /\ Rest(v, r, l)
        BY <3>1, <4>1
      <4>3. Newest(v.x) < l /\ Newest(v.x) \in Nos
        BY <2>1, <3>1, <4>2, <1>3, ProcessTypes DEF ResultInv, CacheInv
      <4>. QED  BY <4>2, <4>3, <2>1, NosTypes
    <3>2. w.x.cache # <<>> =>
            Len(w.x.cache) <= Newest(w.x) /\ (Len(w.x.cache) = 1 \/ Newest(w.x) <= MaxBatches)
      BY <2>1, <1>3 DEF ResultInv, CacheInv
    <3>. QED  BY <3>1, <3>2 DEF CacheInv
  <2>6. ASSUME NEW item \in Results, Shows(b, w, e, item)
        PROVE  Fits(b, w, item)
    <3>1. CASE item \in Triggers
      BY <3>1, TriggerFits
    <3>2. CASE Shows(a, v, e, item)
      <4>1. Fits(a, v, item)
        BY <3>2 DEF ResultInv
      <4>2. item.req \in 0..MaxAsks
        BY DEF Results
      <4>3. item.req \in Reqs \/ item.req = 0
        BY <4>2, NosTypes DEF Reqs
      <4>4. item.req <= Len(a.sent) /\ item.req <= Len(b.sent) /\ ~(item.req > Len(a.sent))
        BY <4>1, <4>2, <1>1 DEF Fits
      <4>5. ~Coming(w, item.req)
        BY <4>1, <4>3, <4>4, QueueTypes DEF Fits
      <4>6. \A k \in Nos : Rest(w, item.req, k) => item.req \in Reqs
        <5>1. \A t \in w.x.threads : t.req \in Reqs
          BY LineTypes DEF Tasks
        <5>. QED  BY <5>1, <4>3, QueueTypes DEF Rest, Due
      <4>7. ASSUME NEW k \in Nos, Rest(w, item.req, k)
            PROVE  Known(w.x, item.req)
        <5>1. PICK l \in Nos : Rest(v, item.req, l)
          BY <4>4, <4>6, <4>7
        <5>. QED  BY <5>1, <4>1, <2>1 DEF Fits
      <4>. QED  BY <4>1, <4>4, <4>5, <4>7, <2>2 DEF Fits
    <3>. QED  BY <2>6, <3>1, <3>2
  <2>. QED  BY <2>3, <2>5, <2>6 DEF ResultInv
<1>. QED  BY <1>2, <1>3

\* The results that a queue carries: one more response, one less, or what is
\* left of a closed socket.
LEMMA CarriesAppend ==
  ASSUME NEW q \in Seq(Messages), NEW m \in Messages, NEW item, Carries(Append(q, m), item)
  PROVE  Carries(q, item) \/ (item.req = m.req /\ item.no = m.no /\ item.id \in m.ids)
<1>. DEFINE p == Append(q, m)
<1>1. /\ Len(p) = Len(q) + 1 /\ p[Len(q) + 1] = m /\ Len(q) \in Nat
      /\ \A i \in 1..Len(q) : p[i] = q[i]
  BY AppendProperties, LenProperties
<1>2. Carries(p, item)
  OBVIOUS
<1>. HIDE DEF p
<1>3. \A i \in 1..Len(p) : i \in 1..Len(q) \/ i = Len(q) + 1
  BY <1>1
<1>. QED  BY <1>1, <1>2, <1>3 DEF Carries

LEMMA CarriesTail ==
  ASSUME NEW q \in Seq(Messages), q # <<>>, NEW item
  PROVE  /\ Carries(Tail(q), item) => Carries(q, item)
         /\ item.req = Head(q).req /\ item.no = Head(q).no /\ item.id \in Head(q).ids
              => Carries(q, item)
<1>. DEFINE p == Tail(q)
<1>1. /\ Len(p) = Len(q) - 1 /\ Len(q) \in Nat /\ Len(q) # 0 /\ Head(q) = q[1]
      /\ \A i \in 1..Len(p) : p[i] = q[i + 1]
  BY HeadTailProperties, LenProperties, EmptySeq
<1>. HIDE DEF p
<1>2. 1 \in 1..Len(q) /\ \A i \in 1..Len(p) : i + 1 \in 1..Len(q)
  BY <1>1
<1>3. Carries(p, item) => Carries(q, item)
  BY <1>1, <1>2 DEF Carries
<1>. QED  BY <1>1, <1>2, <1>3 DEF Carries, p

LEMMA CarriesClosed ==
  ASSUME NEW S, NEW p \in Seq(S), NEW q \in Seq(S), NEW n \in 0..Len(q), NEW item,
         Carries(p \o SubSeq(q, 1, n), item)
  PROVE  Carries(p, item) \/ Carries(q, item)
<1>. DEFINE u == p \o SubSeq(q, 1, n)
<1>. HIDE DEF u
<1>1. /\ Len(u) = Len(p) + n /\ Len(p) \in Nat
      /\ \A i \in 1..Len(p) : i \in 1..Len(u) /\ u[i] = p[i]
      /\ \A i \in 1..n : i \in 1..Len(q) /\ Len(p) + i \in 1..Len(u) /\ u[Len(p) + i] = q[i]
      /\ \A i \in 1..Len(u) : i \in 1..Len(p) \/ (i - Len(p) \in 1..n /\ u[i] = q[i - Len(p)])
  BY QueuedClosed DEF u
<1>2. Carries(u, item)
  BY DEF u
<1>3. PICK j \in 1..Len(u) : item.req = u[j].req /\ item.no = u[j].no /\ item.id \in u[j].ids
  BY <1>2 DEF Carries
<1>4. CASE j \in 1..Len(p)
  BY <1>1, <1>3, <1>4 DEF Carries
<1>5. CASE j - Len(p) \in 1..n /\ u[j] = q[j - Len(p)]
  BY <1>1, <1>3, <1>5 DEF Carries
<1>. QED  BY <1>1, <1>4, <1>5

\* The main loop sends a batch, and gives an id to its result: y and m are the
\* process and the response then.
LEMMA SendsResults ==
  ASSUME NEW a \in Apps, NEW v \in Lines, NEW w \in Lines, NEW e \in Exts, Side(v),
         ResultInv(a, v, e), Unqueues(v, w), NEW x \in Processes, NEW b \in Batches,
         b = Head(v.x.idle), x.served = v.x.served, x.cache = v.x.cache,
         NEW m \in Messages, Responded(x, b, w.x, m), w.out = Append(v.out, m),
         b.req <= Len(a.sent)
  PROVE  ResultInv(a, w, e)
<1>0. /\ b.req \in Reqs /\ b.no \in Nos /\ b.no \in Nat
      /\ \A r : Coming(w, r) <=> Coming(v, r)
      /\ \A r, k : Due(w, r, k) <=> Due(v, r, k)
      /\ Queued(v.x.idle, b.req, b.no)
      /\ \A r, k : Queued(w.x.idle, r, k) => Queued(v.x.idle, r, k)
      /\ \A k : Queued(w.x.idle, b.req, k) => b.no < k
  <2>. SUFFICES ASSUME NEW c, c = b
                PROVE  /\ c.req \in Reqs /\ c.no \in Nos /\ c.no \in Nat
                       /\ \A r : Coming(w, r) <=> Coming(v, r)
                       /\ \A r, k : Due(w, r, k) <=> Due(v, r, k)
                       /\ Queued(v.x.idle, c.req, c.no)
                       /\ \A r, k : Queued(w.x.idle, r, k) => Queued(v.x.idle, r, k)
                       /\ \A k : Queued(w.x.idle, c.req, k) => c.no < k
    OBVIOUS
  <2>1. c = Head(v.x.idle)
    OBVIOUS
  <2>. QED  BY <2>1, UnqueuesFacts
<1>1. /\ b.req \in Reqs /\ b.no \in Nos /\ b.no \in Nat /\ b.no # 0
      /\ \A r : Coming(w, r) <=> Coming(v, r)
      /\ \A r, k : Due(w, r, k) <=> Due(v, r, k)
      /\ Queued(v.x.idle, b.req, b.no)
      /\ \A r, k : Queued(w.x.idle, r, k) => Queued(v.x.idle, r, k)
      /\ \A k : Queued(w.x.idle, b.req, k) => b.no < k
  BY <1>0, QueueTypes
<1>2. /\ v.x.idle \in Seq(Batches) /\ v.x.idle # <<>> /\ w.x.idle = Tail(v.x.idle)
  BY LineTypes DEF Unqueues
<1>3. Shaped(b) /\ \A j \in 1..Len(w.x.idle) : Shaped(w.x.idle[j])
  <2>1. /\ Len(w.x.idle) = Len(v.x.idle) - 1 /\ Len(v.x.idle) \in Nat /\ Len(v.x.idle) # 0
        /\ \A j \in 1..Len(w.x.idle) : w.x.idle[j] = v.x.idle[j + 1]
        /\ b = v.x.idle[1]
    BY <1>2, HeadTailProperties, LenProperties, EmptySeq
  <2>2. 1 \in 1..Len(v.x.idle) /\ \A j \in 1..Len(w.x.idle) : j + 1 \in 1..Len(v.x.idle)
    BY <2>1
  <2>. QED  BY <2>1, <2>2 DEF ResultInv, CacheInv
<1>4. b.size = 0 \/ b.size = 1
  BY DEF Batches
<1>5. \A r \in Reqs, k \in Nos : Rest(w, r, k) => Rest(v, r, k)
  BY <1>1 DEF Rest
<1>6. \A k \in Nos : Rest(w, b.req, k) => b.no < k
  BY <1>1 DEF Rest, Side, OrderInv
<1>7. \A q : Carries(w.out, q) => Carries(v.out, q) \/ (q.req = m.req /\ q.no = m.no /\ q.id \in m.ids)
  BY LineTypes, CarriesAppend
<1>8. m.req = b.req /\ m.no = b.no /\ m.ids = Len(w.x.cache) - b.size .. Len(w.x.cache) - 1
  BY DEF Responded
<1>9. ASSUME NEW item \in Results, Shows(a, w, e, item)
      PROVE  \/ Shows(a, v, e, item)
             \/ item.req = b.req /\ item.no = b.no /\ b.size = 1 /\ item.id = Len(w.x.cache) - 1
  <2>1. w.late = v.late
    BY DEF Unqueues
  <2>2. CASE item.req = m.req /\ item.no = m.no /\ item.id \in m.ids
    <3>1. Len(w.x.cache) \in Nat /\ item.id \in Len(w.x.cache) - b.size .. Len(w.x.cache) - 1
      BY <2>2, <1>8, ProcessTypes
    <3>2. item.id \in Int /\ b.size = 1 /\ item.id = Len(w.x.cache) - 1
      BY <3>1, <1>4 DEF Results
    <3>. QED  BY <2>2, <3>2, <1>8
  <2>3. CASE ~(item.req = m.req /\ item.no = m.no /\ item.id \in m.ids)
    BY <2>1, <2>3, <1>7, <1>9 DEF Shows
  <2>. QED  BY <2>2, <2>3
<1>10. CASE ~(b.effect \in {"replace", "append"})
  <2>1. w.x = x /\ b.size = 0
    BY <1>3, <1>4, <1>10 DEF Responded, Shaped
  <2>2. \A item \in Results : Shows(a, w, e, item) => Shows(a, v, e, item) \/ item \in Triggers
    BY <2>1, <1>9
  <2>3. Len(a.sent) <= Len(a.sent)
    BY AppTypes
  <2>4. \A r \in Reqs, k \in Nos : Rest(w, r, k) =>
          r > Len(a.sent) \/ \E l \in Nos : l <= k /\ Rest(v, r, l)
    <3>1. \A k \in Nos : k <= k
      BY NosTypes, Zenon
    <3>. QED  BY <3>1, <1>5
  <2>5. w.x.served = v.x.served /\ w.x.cache = v.x.cache
    BY <2>1
  <2>. QED  BY <1>1, <1>3, <2>2, <2>3, <2>4, <2>5, KeepsResults
<1>11. CASE b.effect \in {"replace", "append"}
  <2>1. w.x = AssignIds(x, b)
    BY <1>11 DEF Responded
  <2>2. /\ Base(x, b) \in Seq(Nos)
        /\ Serves(x, b.req) => w.x.served = x.served
        /\ ~Serves(x, b.req) => w.x.served = Append(x.served, b.req)
        /\ b.size = 0 => w.x.cache = Base(x, b)
        /\ b.size = 1 => w.x.cache = Append(Base(x, b), b.no)
    <3>1. LET y == AssignIds(x, b)
          IN  /\ y \in Processes /\ OnlyIds(x, y) /\ Base(x, b) \in Seq(Nos)
              /\ Serves(x, b.req) => y.served = x.served
              /\ ~Serves(x, b.req) => y.served = Append(x.served, b.req)
              /\ b.size = 0 => y.cache = Base(x, b)
              /\ b.size = 1 => y.cache = Append(Base(x, b), b.no)
      BY AssignIdsFacts
    <3>. QED  BY <2>1, <3>1
  <2>. DEFINE p == Base(x, b)
  <2>3. p = IF Serves(x, b.req) THEN v.x.cache ELSE <<>>
    BY DEF Base
  <2>. HIDE DEF p
  <2>4. /\ Len(p) \in Nat /\ p \in Seq(Nos)
        /\ b.size = 0 => w.x.cache = p
        /\ b.size = 1 => /\ Len(w.x.cache) = Len(p) + 1 /\ w.x.cache[Len(p) + 1] = b.no
                         /\ \A j \in 1..Len(p) : w.x.cache[j] = p[j]
    BY <2>2, <1>1, AppendProperties, LenProperties DEF p
  <2>5. /\ \A r : Serves(x, r) <=> Serves(v.x, r)
        /\ \A k \in Nos : Rest(w, b.req, k) => b.no < k
        /\ Rest(v, b.req, b.no) /\ ~Coming(w, b.req)
    <3>1. ~Coming(v, b.req)
      BY <1>1, ComingIsFirst
    <3>. QED  BY <3>1, <1>1, <1>6 DEF Serves, Rest
  <2>6. Len(a.sent) \in Nat /\ MaxBatches \in Nat /\ Nos \subseteq Nat /\ Reqs \subseteq Nat
    BY AppTypes, NosTypes
  <2>7. CASE Serves(x, b.req)
    <3>1. w.x.served = v.x.served /\ p = v.x.cache /\ Serves(v.x, b.req)
      BY <2>2, <2>3, <2>5, <2>7
    <3>2. /\ \A r : Serves(w.x, r) <=> Serves(v.x, r)
          /\ \A r : Known(w.x, r) <=> Known(v.x, r)
          /\ \A r : Once(w.x, r) <=> Once(v.x, r)
          /\ \A j \in 1..Len(w.x.served) : w.x.served[j] <= Len(a.sent)
      BY <3>1 DEF Serves, Known, Once, ResultInv
    <3>3. CASE b.size = 0
      <4>1. w.x.cache = v.x.cache
        BY <3>1, <3>3, <2>4
      <4>2. \A item \in Results : Shows(a, w, e, item) => Shows(a, v, e, item) \/ item \in Triggers
        BY <3>3, <1>9
      <4>3. Len(a.sent) <= Len(a.sent)
        BY AppTypes
      <4>4. \A r \in Reqs, k \in Nos : Rest(w, r, k) =>
              r > Len(a.sent) \/ \E l \in Nos : l <= k /\ Rest(v, r, l)
        <5>1. \A k \in Nos : k <= k
          BY NosTypes, Zenon
        <5>. QED  BY <5>1, <1>5
      <4>. QED  BY <1>1, <1>3, <3>1, <4>1, <4>2, <4>3, <4>4, KeepsResults
    <3>4. CASE b.size = 1
      <4>1. /\ Len(w.x.cache) = Len(p) + 1 /\ w.x.cache[Len(p) + 1] = b.no /\ Len(p) \in Nat
            /\ \A j \in 1..Len(p) : w.x.cache[j] = p[j]
        BY <3>4, <2>4
      <4>2. Newest(w.x) = b.no
        BY <4>1 DEF Newest
      <4>3. Len(p) + 1 <= b.no
        <5>1. CASE p = <<>>
          <6>1. Len(p) = 0
            BY <5>1, EmptySeq
          <6>. QED  BY <6>1, <1>1
        <5>2. CASE p # <<>>
          <6>1. Len(v.x.cache) <= Newest(v.x) /\ Newest(v.x) < b.no
            BY <5>2, <3>1, <2>5, <1>1 DEF ResultInv, CacheInv
          <6>2. Newest(v.x) \in Nos
            BY <5>2, <3>1, ProcessTypes
          <6>3. \A i, j, k \in Nat : i <= j /\ j < k => i + 1 <= k
            OBVIOUS
          <6>4. Len(v.x.cache) = Len(p) /\ Newest(v.x) \in Nat
            BY <6>2, <3>1, <2>6
          <6>. QED  BY <6>1, <6>3, <6>4, <4>1, <1>1
        <5>. QED  BY <5>1, <5>2
      <4>4. Len(p) + 1 = 1 \/ b.no <= MaxBatches
        <5>1. b.no <= MaxBatches \/ b.no = 1
          BY <3>4, <1>3 DEF Shaped
        <5>. QED  BY <5>1, <4>1, <4>3
      <4>5. CacheInv(w)
        <5>1. \A r : Serves(v.x, r) => r = b.req
          BY <3>1 DEF Serves
        <5>2. \A r \in Reqs, k \in Nos : Serves(w.x, r) /\ Rest(w, r, k) => b.no < k
          BY <5>1, <3>2, <2>5
        <5>. QED  BY <5>2, <4>1, <4>2, <4>3, <4>4, <1>3 DEF CacheInv
      <4>6. ASSUME NEW item \in Results, Shows(a, v, e, item)
            PROVE  Fits(a, w, item)
        <5>1. Fits(a, v, item)
          BY <4>6 DEF ResultInv
        <5>2. item.id \in Nat
          BY <5>1, <2>6 DEF Fits
        <5>3. ASSUME Serves(w.x, item.req), Once(w.x, item.req)
              PROVE  item.id < Len(w.x.cache) /\ w.x.cache[item.id + 1] = item.no
          <6>1. item.id < Len(p) /\ p[item.id + 1] = item.no
            BY <5>1, <5>3, <3>1, <3>2 DEF Fits, Resolves
          <6>2. item.id + 1 \in 1..Len(p) /\ item.id < Len(p) + 1
            BY <6>1, <5>2, <4>1
          <6>. QED  BY <6>1, <6>2, <4>1
        <5>4. Resolves(w.x, item)
          BY <5>3 DEF Resolves
        <5>5. \A k \in Nos : Rest(w, item.req, k) => Rest(v, item.req, k)
          BY <1>1 DEF Rest
        <5>. QED  BY <5>1, <5>4, <5>5, <3>2, <1>1 DEF Fits
      <4>7. ASSUME NEW item \in Results, item.req = b.req, item.no = b.no,
                   item.id = Len(w.x.cache) - 1
            PROVE  Fits(a, w, item)
        <5>1. item.id = Len(p)
          BY <4>7, <4>1
        <5>2. item.id \in 0..MaxBatches
          BY <5>1, <4>1, <4>3, <4>4, <2>6, <1>1
        <5>3. Resolves(w.x, item)
          <6>1. item.id < Len(w.x.cache) /\ w.x.cache[item.id + 1] = item.no
            BY <5>1, <4>1, <4>7
          <6>. QED  BY <6>1 DEF Resolves
        <5>4. Known(w.x, item.req)
          BY <3>1, <3>2, <4>7, ProcessTypes
        <5>. QED  BY <5>2, <5>3, <5>4, <4>7, <2>5 DEF Fits
      <4>. QED  BY <3>2, <4>5, <4>6, <4>7, <1>9 DEF ResultInv
    <3>. QED  BY <3>3, <3>4, <1>4
  <2>8. CASE ~Serves(x, b.req)
    <3>1. /\ w.x.served = Append(v.x.served, b.req) /\ p = <<>> /\ Len(p) = 0
          /\ v.x.served \in Seq(Reqs)
      BY <2>2, <2>3, <2>8, ProcessTypes, EmptySeq
    <3>2. /\ Len(w.x.served) = Len(v.x.served) + 1 /\ Len(v.x.served) \in Nat
          /\ w.x.served[Len(v.x.served) + 1] = b.req
          /\ \A j \in 1..Len(v.x.served) : w.x.served[j] = v.x.served[j]
      <4>. DEFINE q == Append(v.x.served, b.req)
      <4>1. /\ Len(q) = Len(v.x.served) + 1 /\ Len(v.x.served) \in Nat
            /\ q[Len(v.x.served) + 1] = b.req
            /\ \A j \in 1..Len(v.x.served) : q[j] = v.x.served[j]
        BY <3>1, <1>1, AppendProperties, LenProperties
      <4>2. w.x.served = q
        BY <3>1
      <4>. HIDE DEF q
      <4>. QED  BY <4>1, <4>2
    <3>3. \A j \in 1..Len(w.x.served) : j \in 1..Len(v.x.served) \/ j = Len(v.x.served) + 1
      BY <3>2
    <3>4. Len(v.x.served) + 1 \in 1..Len(w.x.served)
          /\ \A j \in 1..Len(v.x.served) : j \in 1..Len(w.x.served) /\ j # Len(v.x.served) + 1
      BY <3>2
    <3>5. /\ \A r : Serves(w.x, r) <=> r = b.req
          /\ \A r : Known(v.x, r) => Known(w.x, r)
          /\ Known(w.x, b.req)
          /\ Known(v.x, b.req) => ~Once(w.x, b.req)
      <4>1. \A r : Serves(w.x, r) <=> r = b.req
        <5>1. \A r : Serves(w.x, r) <=> Len(w.x.served) # 0 /\ w.x.served[Len(w.x.served)] = r
          BY ProcessTypes
        <5>2. Len(w.x.served) # 0 /\ w.x.served[Len(w.x.served)] = b.req
          BY <3>2
        <5>. QED  BY <5>1, <5>2
      <4>2. \A r : Known(v.x, r) => Known(w.x, r)
        BY <3>2, <3>4 DEF Known
      <4>3. Known(w.x, b.req)
        BY <3>2, <3>4 DEF Known
      <4>4. Known(v.x, b.req) => ~Once(w.x, b.req)
        BY <3>2, <3>4 DEF Known, Once
      <4>. QED  BY <4>1, <4>2, <4>3, <4>4
    <3>6. \A j \in 1..Len(w.x.served) : w.x.served[j] <= Len(a.sent)
      BY <3>2, <3>3 DEF ResultInv
    <3>7. b.size = 1 => Len(w.x.cache) = 1 /\ w.x.cache[1] = b.no
      BY <3>1, <2>4
    <3>8. b.size = 0 => w.x.cache = <<>>
      BY <3>1, <2>4
    <3>9. CacheInv(w)
      <4>1. b.size = 1 => Newest(w.x) = b.no
        BY <3>7 DEF Newest
      <4>2. b.size = 1 => Len(w.x.cache) <= b.no
        <5>1. 1 <= b.no
          <6>1. \A n \in Nat : n # 0 => 1 <= n
            OBVIOUS
          <6>. QED  BY <6>1, <1>1
        <5>. QED  BY <5>1, <3>7
      <4>3. \A r \in Reqs, k \in Nos : Serves(w.x, r) /\ Rest(w, r, k) => b.no < k
        BY <3>5, <2>5
      <4>. QED  BY <4>1, <4>2, <4>3, <3>7, <3>8, <1>3, <1>4 DEF CacheInv
    <3>10. ASSUME NEW item \in Results, Shows(a, v, e, item)
           PROVE  Fits(a, w, item)
      <4>1. Fits(a, v, item)
        BY <3>10 DEF ResultInv
      <4>2. Resolves(w.x, item)
        BY <4>1, <3>5, <2>5, <1>1 DEF Resolves, Fits
      <4>3. \A k \in Nos : Rest(w, item.req, k) => Rest(v, item.req, k)
        BY <1>1 DEF Rest
      <4>. QED  BY <4>1, <4>2, <4>3, <3>5, <1>1 DEF Fits
    <3>11. ASSUME NEW item \in Results, item.req = b.req, item.no = b.no, b.size = 1,
                  item.id = Len(w.x.cache) - 1
           PROVE  Fits(a, w, item)
      <4>1. item.id = 0 /\ 0 \in 0..MaxBatches
        BY <3>7, <3>11, <2>6
      <4>2. Resolves(w.x, item)
        BY <4>1, <3>7, <3>11 DEF Resolves
      <4>. QED  BY <4>1, <4>2, <3>5, <3>11, <2>5 DEF Fits
    <3>. QED  BY <3>6, <3>9, <3>10, <3>11, <1>9 DEF ResultInv
  <2>. QED  BY <2>7, <2>8
<1>. QED  BY <1>10, <1>11

\* A step of an extension's side that gives out no ids.
KeepsLine(v, w) ==
  /\ \/ w.x.served = v.x.served /\ w.x.cache = v.x.cache
     \/ w.x.served = <<>> /\ w.x.cache = <<>> /\ w.x.idle = <<>> /\ w.x.threads = {}
  /\ \A j \in 1..Len(w.x.idle) : Shaped(w.x.idle[j])
  /\ \A item \in Results :
       Carries(w.out, item) \/ Carries(w.late, item) => Carries(v.out, item) \/ Carries(v.late, item)

LEMMA SideKeeps ==
  ASSUME NEW a \in Apps, NEW b \in Apps, NEW v \in Lines, NEW w \in Lines, NEW e \in Exts,
         ResultInv(a, v, e), Narrows(v, w), KeepsLine(v, w),
         b.sent = a.sent, b.screen \subseteq a.screen
  PROVE  ResultInv(b, w, e)
<1>1. Len(a.sent) <= Len(b.sent)
  BY AppTypes
<1>2. \A item \in Results : Shows(b, w, e, item) => Shows(a, v, e, item) \/ item \in Triggers
  BY DEF Shows, KeepsLine
<1>3. \/ w.x.served = v.x.served /\ w.x.cache = v.x.cache
      \/ /\ w.x.served = <<>> /\ w.x.cache = <<>>
         /\ \A r \in Reqs, k \in Nos : Rest(w, r, k) => Coming(w, r)
  <2>1. ASSUME w.x.idle = <<>>, w.x.threads = {}, NEW r, NEW k, Rest(w, r, k)
        PROVE  Coming(w, r)
    <3>1. 1..Len(w.x.idle) = {}
      BY <2>1, EmptySeq
    <3>. QED  BY <2>1, <3>1 DEF Rest, Due, Queued
  <2>. QED  BY <2>1 DEF KeepsLine
<1>4. \A j \in 1..Len(w.x.idle) : Shaped(w.x.idle[j])
  BY DEF KeepsLine
<1>5. /\ \A r \in Reqs : Coming(w, r) => Coming(v, r) \/ r > Len(a.sent)
      /\ \A r \in Reqs, k \in Nos : Rest(w, r, k) =>
           r > Len(a.sent) \/ \E l \in Nos : l <= k /\ Rest(v, r, l)
  BY DEF Narrows
<1>. QED  BY <1>1, <1>2, <1>3, <1>4, <1>5, KeepsResults

\* A step of the app: it may ask for more, and show what it has read.
LEMMA AppKeeps ==
  ASSUME NEW a \in Apps, NEW b \in Apps, NEW v \in Lines, NEW w \in Lines, NEW e \in Exts,
         ResultInv(a, v, e), NEW items, b.screen \subseteq a.screen \cup Triggers \cup items,
         \A item \in items : item.ext = e => Carries(v.out, item) \/ Carries(v.late, item),
         \A item \in Results :
           Carries(w.out, item) \/ Carries(w.late, item) => Carries(v.out, item) \/ Carries(v.late, item),
         w.x = v.x, Len(b.sent) = Len(a.sent) \/ Len(b.sent) = Len(a.sent) + 1,
         \/ w.events = v.events
         \/ \E ev \in Events : ev.req = Len(a.sent) + 1 /\ w.events = Append(v.events, ev)
  PROVE  ResultInv(b, w, e)
<1>1. Len(a.sent) \in Nat /\ Len(a.sent) <= Len(b.sent)
  BY AppTypes
<1>2. \A item \in Results : Shows(b, w, e, item) => Shows(a, v, e, item) \/ item \in Triggers
  BY DEF Shows
<1>3. ASSUME NEW r \in Reqs, Coming(w, r)
      PROVE  Coming(v, r) \/ r > Len(a.sent)
  <2>1. CASE w.events = v.events
    BY <1>3, <2>1 DEF Coming
  <2>2. ASSUME NEW ev \in Events, ev.req = Len(a.sent) + 1, w.events = Append(v.events, ev)
        PROVE  Coming(v, r) \/ r > Len(a.sent)
    <3>. DEFINE p == Append(v.events, ev)
    <3>1. /\ Len(p) = Len(v.events) + 1 /\ p[Len(v.events) + 1] = ev /\ Len(v.events) \in Nat
          /\ \A i \in 1..Len(v.events) : p[i] = v.events[i]
      BY LineTypes, AppendProperties
    <3>2. w.events = p
      BY <2>2
    <3>. HIDE DEF p
    <3>3. \A i \in 1..Len(p) : i \in 1..Len(v.events) \/ i = Len(v.events) + 1
      BY <3>1
    <3>4. Coming(v, r) \/ r = ev.req
      BY <1>3, <3>1, <3>2, <3>3 DEF Coming
    <3>5. Len(a.sent) + 1 > Len(a.sent)
      BY <1>1
    <3>. QED  BY <2>2, <3>4, <3>5
  <2>. QED  BY <2>1, <2>2
<1>4. \A k \in Nos : k <= k
  BY NosTypes, Zenon
<1>5. \A r \in Reqs, k \in Nos : Rest(w, r, k) =>
        r > Len(a.sent) \/ \E l \in Nos : l <= k /\ Rest(v, r, l)
  <2>1. ASSUME NEW r \in Reqs, NEW k \in Nos, Rest(w, r, k)
        PROVE  r > Len(a.sent) \/ Rest(v, r, k)
    BY <1>3, <2>1 DEF Rest, Due
  <2>. QED  BY <2>1, <1>4
<1>6. \A j \in 1..Len(w.x.idle) : Shaped(w.x.idle[j])
  BY DEF ResultInv, CacheInv
<1>. QED  BY <1>1, <1>2, <1>3, <1>5, <1>6, KeepsResults

LEMMA TriggersKeep ==
  ASSUME Types, Types', NEW e \in Exts, CacheInv(Line(e)),
         NEW x \in Processes, NEW ev \in Events, DoTriggerEvent(e, x, ev), late' = late,
         x.idle = ext[e].idle, x.served = ext[e].served, x.cache = ext[e].cache
  PROVE  KeepsLine(Line(e), Line(e)')
<1>. DEFINE v == Line(e)
            w == Line(e)'
<1>1. /\ v \in Lines /\ v.x = ext[e] /\ v.out = toApp[e] /\ v.late = late[e]
  BY LineFacts
<1>2. /\ w \in Lines /\ w.x = ext'[e] /\ w.out = toApp'[e] /\ w.late = late[e]
  BY NextLineFacts
<1>3. CacheInv(v)
  OBVIOUS
<1>. SUFFICES KeepsLine(v, w)
  OBVIOUS
<1>. HIDE DEF v, w
<1>4. ext \in [Exts -> Processes] /\ toApp \in [Exts -> Seq(Messages)]
  BY DEF Types
<1>5. ASSUME w.x.served = x.served, w.x.cache = x.cache, w.x.idle = x.idle,
             \A item \in Results : Carries(w.out, item) => Carries(v.out, item)
      PROVE  KeepsLine(v, w)
  BY <1>1, <1>2, <1>3, <1>5 DEF KeepsLine, CacheInv
<1>6. CASE ext' = [ext EXCEPT ![e] = [x EXCEPT !.listening = FALSE]] /\ toApp' = toApp
  <2>1. ext'[e].served = x.served /\ ext'[e].cache = x.cache /\ ext'[e].idle = x.idle
    BY <1>4, <1>6 DEF Processes
  <2>. QED  BY <1>1, <1>2, <1>5, <1>6, <2>1
<1>7. ASSUME NEW y \in Processes, NEW t \in Tasks, Started(x, y, t),
             ext' = [ext EXCEPT ![e] = [y EXCEPT !.threads = @ \cup {t}]], toApp' = toApp
      PROVE  KeepsLine(v, w)
  <2>1. ext'[e].served = x.served /\ ext'[e].cache = x.cache /\ ext'[e].idle = x.idle
    BY <1>4, <1>7 DEF Processes, Started
  <2>. QED  BY <1>1, <1>2, <1>5, <1>7, <2>1
<1>8. ASSUME NEW y \in Processes, NEW t \in Tasks, NEW b \in Batches, Started(x, y, t),
             b.effect = "nothing", b.size = 0, SendResponse(e, y, b)
      PROVE  KeepsLine(v, w)
  <2>1. y.served = x.served /\ y.cache = x.cache /\ y.idle = x.idle
    BY <1>8 DEF Started
  <2>2. CASE ext' = [ext EXCEPT ![e] = y] /\ toApp' = toApp
    <3>1. ext'[e] = y
      BY <1>4, <2>2
    <3>. QED  BY <1>1, <1>2, <1>5, <2>1, <2>2, <3>1
  <2>3. ASSUME NEW z \in Processes, NEW m \in Messages, Responded(y, b, z, m),
               ext' = [ext EXCEPT ![e] = z], toApp' = [toApp EXCEPT ![e] = Append(@, m)]
        PROVE  KeepsLine(v, w)
    <3>1. z = y /\ m.ids = Len(z.cache) - b.size .. Len(z.cache) - 1
      BY <1>8, <2>3 DEF Responded
    <3>2. Len(z.cache) \in Nat
      BY LenProperties DEF Processes
    <3>3. m.ids = {}
      BY <3>1, <3>2, <1>8
    <3>4. ext'[e] = z /\ toApp'[e] = Append(toApp[e], m)
      BY <1>4, <2>3
    <3>5. \A item \in Results : Carries(w.out, item) => Carries(v.out, item)
      <4>1. v.out \in Seq(Messages) /\ w.out = Append(v.out, m)
        BY <1>1, <1>2, <3>4, LineTypes
      <4>. QED  BY <3>3, <4>1, CarriesAppend
    <3>. QED  BY <1>2, <1>5, <2>1, <3>1, <3>4, <3>5
  <2>. QED  BY <1>8, <2>2, <2>3, SendResponseFacts
<1>. QED  BY <1>6, <1>7, <1>8, DoTriggerEventFacts

LEMMA ReadEventKeeps ==
  ASSUME Types, Types', NEW e \in Exts, CacheInv(Line(e)), ReadEvent(e) \/ Debounced(e)
  PROVE  KeepsLine(Line(e), Line(e)')
<1>1. ext \in [Exts -> Processes] /\ ext[e] \in Processes
  BY DEF Types
<1>2. CASE Debounced(e)
  <2>. DEFINE x == [ext[e] EXCEPT !.debounce = 0]
              ev == Event("input", ext[e].debounce, Trigger(e))
  <2>1. x \in Processes /\ ev \in Events /\ DoTriggerEvent(e, x, ev) /\ late' = late
    BY <1>2, DebouncedEvent DEF Debounced
  <2>2. x.idle = ext[e].idle /\ x.served = ext[e].served /\ x.cache = ext[e].cache
    BY <1>1 DEF Processes
  <2>. HIDE DEF x, ev
  <2>. QED  BY <2>1, <2>2, TriggersKeep
<1>3. CASE ReadEvent(e)
  <2>. DEFINE ev == Head(toExt[e])
  <2>1. toExt[e] \in Seq(Events) /\ toExt[e] # <<>> /\ late' = late
    BY <1>3 DEF Types, ReadEvent
  <2>2. ev \in Events
    BY <2>1, HeadTailProperties
  <2>3. CASE ev.type = "input"
    <3>. DEFINE v == Line(e)
                w == Line(e)'
    <3>1. ext' = [ext EXCEPT ![e].debounce = ev.req] /\ toApp' = toApp
      BY <1>3, <2>3 DEF ReadEvent
    <3>2. /\ ext'[e].served = ext[e].served /\ ext'[e].cache = ext[e].cache
          /\ ext'[e].idle = ext[e].idle
      BY <1>1, <3>1 DEF Processes
    <3>3. /\ v.x = ext[e] /\ v.out = toApp[e] /\ v.late = late[e] /\ CacheInv(v)
          /\ w.x = ext'[e] /\ w.out = toApp[e] /\ w.late = late[e]
      BY <2>1, <3>1, LineFacts, NextLineFacts
    <3>. HIDE DEF v, w, ev
    <3>4. KeepsLine(v, w)
      BY <3>2, <3>3 DEF KeepsLine, CacheInv
    <3>. QED  BY <3>4 DEF v, w
  <2>4. CASE ev.type # "input"
    <3>1. DoTriggerEvent(e, ext[e], ev)
      BY <1>3, <2>4 DEF ReadEvent
    <3>. HIDE DEF ev
    <3>. QED  BY <1>1, <2>1, <2>2, <3>1, TriggersKeep
  <2>. QED  BY <2>3, <2>4
<1>. QED  BY <1>2, <1>3

LEMMA ThreadsKeep ==
  ASSUME Types, Types', NEW e \in Exts, CacheInv(Line(e)), Threads(e)
  PROVE  KeepsLine(Line(e), Line(e)')
<1>. DEFINE v == Line(e)
            w == Line(e)'
<1>1. v \in Lines /\ v.x = ext[e] /\ v.out = toApp[e] /\ v.late = late[e]
  BY LineFacts
<1>2. w \in Lines /\ w.x = ext'[e] /\ w.out = toApp'[e] /\ w.late = late'[e]
  BY NextLineFacts
<1>3. /\ ext \in [Exts -> Processes] /\ toApp' = toApp /\ late' = late
  BY ThreadSteps DEF Types
<1>4. PICK t \in ext[e].threads : ThreadStep(e, t)
  BY ThreadSteps
<1>5. CacheInv(v)
  OBVIOUS
<1>. SUFFICES KeepsLine(v, w)
  OBVIOUS
<1>. HIDE DEF v, w
<1>6. CASE Ends(e, t)
  <2>1. ext' = [ext EXCEPT ![e].threads = ext[e].threads \ {t}]
    BY <1>6 DEF Ends
  <2>2. /\ ext'[e].served = ext[e].served /\ ext'[e].cache = ext[e].cache
        /\ ext'[e].idle = ext[e].idle
    BY <1>3, <2>1 DEF Processes
  <2>. QED  BY <1>1, <1>2, <1>3, <1>5, <2>2 DEF KeepsLine, CacheInv
<1>7. ASSUME NEW b \in Batches, NEW us \in SUBSET Tasks, Hands(e, t, b, us), Shaped(b)
      PROVE  KeepsLine(v, w)
  <2>1. /\ ext'[e].served = ext[e].served /\ ext'[e].cache = ext[e].cache
        /\ ext'[e].idle = Append(ext[e].idle, b)
    BY <1>3, <1>7 DEF Processes, Hands
  <2>. DEFINE p == Append(v.x.idle, b)
  <2>2. /\ Len(p) = Len(v.x.idle) + 1 /\ p[Len(v.x.idle) + 1] = b /\ Len(v.x.idle) \in Nat
        /\ \A j \in 1..Len(v.x.idle) : p[j] = v.x.idle[j]
    BY <1>1, LineTypes, AppendProperties
  <2>3. w.x.idle = p
    BY <1>1, <1>2, <2>1
  <2>. HIDE DEF p
  <2>4. \A j \in 1..Len(p) : j \in 1..Len(v.x.idle) \/ j = Len(v.x.idle) + 1
    BY <2>2
  <2>5. \A j \in 1..Len(p) : Shaped(p[j])
    BY <1>5, <1>7, <2>2, <2>4 DEF CacheInv
  <2>. QED  BY <1>1, <1>2, <1>3, <2>1, <2>3, <2>5 DEF KeepsLine
<1>8. CASE ~Ends(e, t)
  <2>1. PICK b \in Batches, us \in SUBSET Tasks :
          /\ Hands(e, t, b, us)
          /\ b.size # 0 => b.effect \in {"replace", "append"} /\ (b.no <= MaxBatches \/ b.no = 1)
    BY <1>4, <1>8 DEF ThreadStep
  <2>. QED  BY <2>1, <1>7 DEF Shaped
<1>. QED  BY <1>6, <1>8

\* A process begins or ends.
LEMMA ProcessKeeps ==
  ASSUME Types, Types', NEW e \in Exts, ext'[e].idle = <<>>, ext'[e].threads = {},
         ext'[e].served = <<>>, ext'[e].cache = <<>>,
         CloseSocket(e) \/ (toApp' = toApp /\ late' = late)
  PROVE  KeepsLine(Line(e), Line(e)')
<1>. DEFINE v == Line(e)
            w == Line(e)'
<1>1. v \in Lines /\ v.x = ext[e] /\ v.out = toApp[e] /\ v.late = late[e]
  BY LineFacts
<1>2. w \in Lines /\ w.x = ext'[e] /\ w.out = toApp'[e] /\ w.late = late'[e]
  BY NextLineFacts
<1>3. toApp \in [Exts -> Seq(Messages)] /\ late \in [Exts -> Seq(Messages)]
  BY DEF Types
<1>. SUFFICES KeepsLine(v, w)
  OBVIOUS
<1>. HIDE DEF v, w
<1>4. \A item \in Results :
        Carries(w.out, item) \/ Carries(w.late, item) => Carries(v.out, item) \/ Carries(v.late, item)
  <2>1. CASE toApp' = toApp /\ late' = late
    BY <1>1, <1>2, <2>1
  <2>2. CASE CloseSocket(e)
    <3>1. PICK n \in 0..Len(toApp[e]) :
            late' = [late EXCEPT ![e] = @ \o SubSeq(toApp[e], 1, n)]
      BY <2>2 DEF CloseSocket
    <3>2. toApp'[e] = <<>>
      BY <1>3, <2>2 DEF CloseSocket
    <3>3. n \in 0..Len(v.out) /\ w.late = v.late \o SubSeq(v.out, 1, n) /\ w.out = <<>>
      BY <1>1, <1>2, <1>3, <3>1, <3>2
    <3>4. v.late \in Seq(Messages) /\ v.out \in Seq(Messages)
      BY <1>1, LineTypes
    <3>5. \A item : ~Carries(w.out, item)
      <4>1. 1..Len(w.out) = {}
        BY <3>3, EmptySeq
      <4>. QED  BY <4>1 DEF Carries
    <3>6. ASSUME NEW item \in Results, Carries(w.late, item)
          PROVE  Carries(v.out, item) \/ Carries(v.late, item)
      <4>1. Carries(v.late \o SubSeq(v.out, 1, n), item)
        BY <3>3, <3>6
      <4>. QED  BY <3>3, <3>4, <4>1, CarriesClosed
    <3>. QED  BY <3>5, <3>6
  <2>. QED  BY <2>1, <2>2
<1>5. \A j \in 1..Len(w.x.idle) : Shaped(w.x.idle[j])
  BY <1>2, EmptySeq
<1>. QED  BY <1>2, <1>4, <1>5 DEF KeepsLine

AllFit(a, L) == \A e \in Exts : ResultInv(a, L[e], e)

LEMMA SendIdleResults ==
  ASSUME Types, Types', NEW e \in Exts, Side(Line(e)), Narrows(Line(e), Line(e)'),
         ResultInv(app, Line(e), e), PlaceInv(app, AllLines), SendIdle(e)
  PROVE  ResultInv(app, Line(e)', e)
<1>. DEFINE v == Line(e)
            w == Line(e)'
            b == Head(ext[e].idle)
            x == [ext[e] EXCEPT !.idle = Tail(@)]
<1>1. /\ v \in Lines /\ v.x = ext[e] /\ v.events = toExt[e] /\ v.out = toApp[e] /\ v.late = late[e]
  BY LineFacts
<1>2. /\ w \in Lines /\ w.x = ext'[e] /\ w.events = toExt'[e] /\ w.out = toApp'[e]
      /\ w.late = late'[e]
  BY NextLineFacts
<1>3. /\ ext[e] \in Processes /\ toExt' = toExt /\ late' = late /\ ext[e].idle # <<>>
      /\ SendResponse(e, x, b)
  BY DEF Types, SendIdle
<1>4. /\ ext \in [Exts -> Processes] /\ toApp \in [Exts -> Seq(Messages)] /\ app \in Apps
  BY DEF Types
<1>5. x \in Processes /\ b \in Batches
  BY SendIdleFacts
<1>6. /\ x.idle = Tail(ext[e].idle) /\ x.threads = ext[e].threads /\ x.input = ext[e].input
      /\ x.debounce = ext[e].debounce /\ x.served = ext[e].served /\ x.cache = ext[e].cache
  BY <1>3 DEF Processes
<1>7. b = Head(v.x.idle) /\ Side(v) /\ Narrows(v, w) /\ ResultInv(app, v, e)
  BY <1>1
<1>8. \A r \in Reqs, k \in Nos : Pend(v, r, k) => r <= Len(app.sent)
  BY DEF PlaceInv, AllLines
<1>. SUFFICES ResultInv(app, w, e)
  OBVIOUS
<1>. HIDE DEF v, w, b, x
<1>9. CASE ext' = [ext EXCEPT ![e] = x] /\ toApp' = toApp
  <2>1. ext'[e] = x
    BY <1>4, <1>9
  <2>2. w.x.served = v.x.served /\ w.x.cache = v.x.cache /\ w.x.idle = Tail(v.x.idle)
        /\ w.out = v.out /\ w.late = v.late
    BY <1>1, <1>2, <1>3, <1>6, <1>9, <2>1
  <2>3. \A j \in 1..Len(w.x.idle) : Shaped(w.x.idle[j])
    <3>. DEFINE p == Tail(v.x.idle)
    <3>1. /\ Len(p) = Len(v.x.idle) - 1 /\ Len(v.x.idle) \in Nat
          /\ \A j \in 1..Len(p) : p[j] = v.x.idle[j + 1]
      <4>1. v.x.idle \in Seq(Batches) /\ v.x.idle # <<>>
        BY <1>1, <1>3, LineTypes
      <4>. QED  BY <4>1, HeadTailProperties, LenProperties
    <3>2. w.x.idle = p
      BY <2>2
    <3>. HIDE DEF p
    <3>3. \A j \in 1..Len(p) : j + 1 \in 1..Len(v.x.idle)
      BY <3>1
    <3>. QED  BY <1>7, <3>1, <3>2, <3>3 DEF ResultInv, CacheInv
  <2>4. KeepsLine(v, w)
    BY <2>2, <2>3 DEF KeepsLine
  <2>. QED  BY <1>1, <1>2, <1>4, <1>7, <2>4, SideKeeps
<1>10. ASSUME NEW y \in Processes, NEW m \in Messages, Responded(x, b, y, m),
              ext' = [ext EXCEPT ![e] = y], toApp' = [toApp EXCEPT ![e] = Append(@, m)]
       PROVE  ResultInv(app, w, e)
  <2>1. ext'[e] = y /\ toApp'[e] = Append(toApp[e], m)
    BY <1>4, <1>10
  <2>2. OnlyIds(x, y)
    BY <1>5, <1>10, AssignIdsFacts DEF Responded, OnlyIds
  <2>3. w.x = y /\ w.out = Append(v.out, m) /\ Responded(x, b, w.x, m)
    BY <1>1, <1>2, <1>10, <2>1
  <2>4. Unqueues(v, w)
    BY <1>1, <1>2, <1>3, <1>6, <2>2, <2>3 DEF Unqueues, OnlyIds
  <2>5. b.req <= Len(app.sent)
    <3>1. b.req \in Reqs /\ b.no \in Nos /\ Queued(v.x.idle, b.req, b.no)
      <4>. SUFFICES ASSUME NEW c, c = b
                    PROVE  c.req \in Reqs /\ c.no \in Nos /\ Queued(v.x.idle, c.req, c.no)
        OBVIOUS
      <4>1. c = Head(v.x.idle)
        BY <1>7
      <4>. QED  BY <1>1, <1>2, <1>7, <2>4, <4>1, UnqueuesFacts
    <3>. QED  BY <3>1, <1>8 DEF Pend
  <2>6. x.served = v.x.served /\ x.cache = v.x.cache
    BY <1>1, <1>6
  <2>. QED  BY <1>1, <1>2, <1>4, <1>5, <1>7, <1>10, <2>3, <2>4, <2>5, <2>6, SendsResults
<1>. QED  BY <1>3, <1>5, <1>9, <1>10, SendResponseFacts

\* A step of an extension's side, and what errored or started does in the app.
LEMMA SideResults ==
  ASSUME Types, Types', StreamInv(app, AllLines), AllFit(app, AllLines), NEW e \in Exts, SideMoves(e),
         app'.sent = app.sent, app'.screen \subseteq app.screen,
         (SendIdle(e) /\ app' = app) \/ KeepsLine(Line(e), Line(e)')
  PROVE  AllFit(app, AllLines)'
<1>1. app \in Apps /\ app' \in Apps /\ Line(e) \in Lines /\ Line(e)' \in Lines
  BY LineFacts, NextLineFacts DEF Types
<1>2. \A f \in Exts : ResultInv(app, Line(f), f)
  BY DEF AllFit, AllLines
<1>3. \A f \in Exts : f # e => Line(f)' = Line(f) /\ Line(f) \in Lines
  BY LineFacts DEF SideMoves, OfLine
<1>4. Narrows(Line(e), Line(e)') /\ Side(Line(e)) /\ PlaceInv(app, AllLines)
  BY DEF SideMoves, Moves, StreamInv, AllLines
<1>5. ResultInv(app', Line(e)', e)
  <2>1. CASE KeepsLine(Line(e), Line(e)')
    <3>. SUFFICES ASSUME NEW v, NEW w, v = Line(e), w = Line(e)'  PROVE ResultInv(app', w, e)
      OBVIOUS
    <3>1. v \in Lines /\ w \in Lines /\ ResultInv(app, v, e) /\ Narrows(v, w) /\ KeepsLine(v, w)
      BY <1>1, <1>2, <1>4, <2>1
    <3>. QED  BY <1>1, <3>1, SideKeeps
  <2>2. CASE SendIdle(e) /\ app' = app
    BY <1>2, <1>4, <2>2, SendIdleResults
  <2>. QED  BY <2>1, <2>2
<1>6. ASSUME NEW f \in Exts, f # e
      PROVE  ResultInv(app', Line(f)', f)
  <2>1. ResultInv(app, Line(f), f) /\ Line(f)' = Line(f) /\ Line(f) \in Lines
    BY <1>2, <1>3, <1>6
  <2>. SUFFICES ASSUME NEW v, v = Line(f), NEW items, items = {}  PROVE ResultInv(app', v, f)
    BY <2>1
  <2>2. /\ Len(app'.sent) = Len(app.sent) /\ app'.screen \subseteq app.screen \cup Triggers \cup items
        /\ v \in Lines /\ ResultInv(app, v, f)
        /\ \A item \in items : item.ext = f => Carries(v.out, item) \/ Carries(v.late, item)
    BY <2>1
  <2>. QED  BY <1>1, <2>2, AppKeeps
<1>. QED  BY <1>5, <1>6 DEF AllFit, AllLines

\* What a step of the app writes, and the asks it sends.
Written(a, b) ==
  \/ toExt' = toExt /\ Len(b.sent) = Len(a.sent)
  \/ /\ Len(b.sent) = Len(a.sent) + 1
     /\ \E g \in Exts, ev \in Events : /\ ev.req = Len(a.sent) + 1
                                       /\ toExt' = [toExt EXCEPT ![g] = Append(@, ev)]

LEMMA GoesWritten ==
  ASSUME NEW a \in Apps, NEW b, NEW r, NEW items, b.sent = a.sent, Goes(b, r, items), b \in Apps,
         \/ Delivers(b, r.app)
         \/ /\ toExt' = toExt
            /\ SameAsks(b, r.app) \/ Dropped(b, r.app) \/ Told(b, r.app) \/ Waits(b, r.app)
  PROVE  Written(a, r.app) /\ r.app.screen \subseteq b.screen \cup Triggers \cup items
<1>1. r.app.screen \subseteq b.screen \cup Triggers \cup items
  BY DEF Goes
<1>2. CASE Delivers(b, r.app)
  <2>1. r.app.sent = Append(b.sent, b.ask + 1) /\ b.ask + 1 \in Asks
    BY <1>2, NextAsk DEF Delivers, Sends, Goes
  <2>2. Len(Append(b.sent, b.ask + 1)) = Len(b.sent) + 1
    BY <2>1, AppTypes, AppendProperties
  <2>3. \E g \in Exts, ev \in Events : /\ ev.req = Len(a.sent) + 1
                                       /\ toExt' = [toExt EXCEPT ![g] = Append(@, ev)]
    BY <1>2 DEF Delivers
  <2>. QED  BY <1>1, <2>1, <2>2, <2>3 DEF Written
<1>3. CASE /\ toExt' = toExt
           /\ SameAsks(b, r.app) \/ Dropped(b, r.app) \/ Told(b, r.app) \/ Waits(b, r.app)
  BY <1>1, <1>3 DEF Written, SameAsks, Dropped, Told, Waits, NotSent
<1>. QED  BY <1>2, <1>3

LEMMA AppResults ==
  ASSUME Types, Types', AllFit(app, AllLines), ext' = ext, Written(app, app'), NEW items,
         app'.screen \subseteq app.screen \cup Triggers \cup items,
         \A f \in Exts : \A item \in items :
           item.ext = f => Carries(toApp[f], item) \/ Carries(late[f], item),
         \A f \in Exts : \A item \in Results :
           Carries(toApp'[f], item) \/ Carries(late'[f], item)
             => Carries(toApp[f], item) \/ Carries(late[f], item)
  PROVE  AllFit(app, AllLines)'
<1>1. app \in Apps /\ app' \in Apps /\ toExt \in [Exts -> Seq(Events)]
  BY DEF Types
<1>2. ASSUME NEW f \in Exts
      PROVE  ResultInv(app', Line(f)', f)
  <2>1. \/ toExt'[f] = toExt[f]
        \/ \E ev \in Events : ev.req = Len(app.sent) + 1 /\ toExt'[f] = Append(toExt[f], ev)
    BY <1>1 DEF Written
  <2>2. Len(app'.sent) = Len(app.sent) \/ Len(app'.sent) = Len(app.sent) + 1
    BY DEF Written
  <2>. DEFINE v == Line(f)
              w == Line(f)'
  <2>3. /\ v \in Lines /\ v.x = ext[f] /\ v.events = toExt[f] /\ v.out = toApp[f] /\ v.late = late[f]
        /\ ResultInv(app, v, f)
    BY LineFacts DEF AllFit, AllLines
  <2>4. /\ w \in Lines /\ w.x = ext[f] /\ w.events = toExt'[f] /\ w.out = toApp'[f]
        /\ w.late = late'[f]
    BY NextLineFacts
  <2>. SUFFICES ResultInv(app', w, f)
    OBVIOUS
  <2>. HIDE DEF v, w
  <2>5. \A item \in items : item.ext = f => Carries(v.out, item) \/ Carries(v.late, item)
    BY <2>3
  <2>6. \A item \in Results :
          Carries(w.out, item) \/ Carries(w.late, item) => Carries(v.out, item) \/ Carries(v.late, item)
    BY <2>3, <2>4
  <2>7. \/ w.events = v.events
        \/ \E ev \in Events : ev.req = Len(app.sent) + 1 /\ w.events = Append(v.events, ev)
    BY <2>1, <2>3, <2>4
  <2>8. w.x = v.x
    BY <2>3, <2>4
  <2>. QED  BY <1>1, <2>2, <2>3, <2>4, <2>5, <2>6, <2>7, <2>8, AppKeeps
<1>. QED  BY <1>2 DEF AllFit, AllLines

LEMMA AppStepResults ==
  ASSUME Types, Types', AllFit(app, AllLines), AppStep, UNCHANGED <<ext, toApp, late>>
  PROVE  AllFit(app, AllLines)'
<1>1. PICK r : Goes(app, r, {}) /\ Becomes(r)
  BY DEF AppStep
<1>2. app \in Apps /\ toExt \in [Exts -> Seq(Events)]
  BY DEF Types
<1>3. /\ app' = r.app
      /\ \/ Delivers(app, r.app)
         \/ /\ toExt' = toExt
            /\ SameAsks(app, r.app) \/ Dropped(app, r.app) \/ Told(app, r.app) \/ Waits(app, r.app)
  BY <1>1, <1>2, BecomesDelivers
<1>. SUFFICES ASSUME NEW items, items = {}  PROVE AllFit(app, AllLines)'
  OBVIOUS
<1>4. Goes(app, r, items)
  BY <1>1
<1>5. Written(app, r.app) /\ r.app.screen \subseteq app.screen \cup Triggers \cup items
  BY <1>2, <1>3, <1>4, GoesWritten
<1>6. Written(app, app') /\ app'.screen \subseteq app.screen \cup Triggers \cup items
  BY <1>3, <1>5
<1>. QED  BY <1>6, AppResults

LEMMA ReceiveResults ==
  ASSUME Types, Types', SentInv(app), AllFit(app, AllLines), NEW e \in Exts,
         Receive(e) \/ ReceiveLate(e)
  PROVE  AllFit(app, AllLines)'
<1>1. /\ app \in Apps /\ toApp \in [Exts -> Seq(Messages)] /\ late \in [Exts -> Seq(Messages)]
      /\ toApp[e] \in Seq(Messages) /\ late[e] \in Seq(Messages)
  BY DEF Types
<1>2. ASSUME NEW m \in Messages, ResponseStep(e, m), ext' = ext,
             \A item : item.req = m.req /\ item.no = m.no /\ item.id \in m.ids =>
               Carries(toApp[e], item) \/ Carries(late[e], item),
             \A f \in Exts : \A item \in Results :
               Carries(toApp'[f], item) \/ Carries(late'[f], item)
                 => Carries(toApp[f], item) \/ Carries(late[f], item)
      PROVE  AllFit(app, AllLines)'
  <2>. DEFINE items == ItemsOf(e, m)
  <2>1. \A f \in Exts : \A item \in items :
          item.ext = f => Carries(toApp[f], item) \/ Carries(late[f], item)
    BY <1>2 DEF ItemsOf
  <2>2. CASE ~Expected(app, e, m) /\ app' = app /\ toExt' = toExt
    <3>1. Written(app, app') /\ app'.screen \subseteq app.screen \cup Triggers \cup items
      BY <2>2 DEF Written
    <3>. HIDE DEF items
    <3>. QED  BY <1>2, <2>1, <3>1, AppResults
  <2>3. ASSUME NEW r, Responds(app, e, m, r), Becomes(r)
        PROVE  AllFit(app, AllLines)'
    <3>1. app.pending # NoCallback /\ app.active = e
      BY <2>3, RespondsParts
    <3>2. PICK ans, b, c :
          /\ ans \in Answers
          /\ ans.of = app.sent[Len(app.sent)] /\ ans.no = m.no /\ ans.final = m.final
          /\ Adds(app, b, ans) /\ Goes(b, c, ItemsOf(e, m))
          /\ app' = IF m.final THEN [c.app EXCEPT !.pending = NoCallback] ELSE c.app
          /\ \/ Delivers(b, c.app)
             \/ /\ toExt' = toExt
                /\ SameAsks(b, c.app) \/ Dropped(b, c.app) \/ Told(b, c.app) \/ Waits(b, c.app)
      BY <2>3, RespondsParts
    <3>3. b \in Apps /\ b.sent = app.sent /\ b.screen = app.screen /\ Goes(b, c, items)
      BY <3>2 DEF Adds
    <3>. HIDE DEF items
    <3>4. Written(app, c.app) /\ c.app.screen \subseteq b.screen \cup Triggers \cup items
      BY <1>1, <3>2, <3>3, GoesWritten
    <3>5. c.app \in Apps
      BY <3>3, GoesPending
    <3>6. app'.sent = c.app.sent /\ app'.screen = c.app.screen
      BY <3>2, <3>5 DEF Apps
    <3>7. Written(app, app') /\ app'.screen \subseteq app.screen \cup Triggers \cup items
      BY <3>3, <3>4, <3>6 DEF Written
    <3>. QED  BY <1>2, <2>1, <3>7, AppResults
  <2>. QED  BY <1>2, <2>2, <2>3 DEF ResponseStep
<1>3. CASE Receive(e)
  <2>. DEFINE m == Head(toApp[e])
  <2>1. m \in Messages /\ ResponseStep(e, m)
    BY <1>3, ReceiveFacts
  <2>2. toApp[e] # <<>> /\ toApp' = [toApp EXCEPT ![e] = Tail(@)] /\ late' = late /\ ext' = ext
    BY <1>3 DEF Receive
  <2>3. toApp'[e] = Tail(toApp[e]) /\ \A f \in Exts : f # e => toApp'[f] = toApp[f]
    BY <1>1, <2>2
  <2>4. \A item : /\ Carries(Tail(toApp[e]), item) => Carries(toApp[e], item)
                  /\ item.req = m.req /\ item.no = m.no /\ item.id \in m.ids
                       => Carries(toApp[e], item)
    BY <1>1, <2>2, CarriesTail
  <2>5. \A f \in Exts : \A item \in Results :
          Carries(toApp'[f], item) \/ Carries(late'[f], item)
            => Carries(toApp[f], item) \/ Carries(late[f], item)
    BY <2>2, <2>3, <2>4
  <2>. HIDE DEF m
  <2>. QED  BY <1>2, <2>1, <2>2, <2>4, <2>5
<1>4. CASE ReceiveLate(e)
  <2>. DEFINE m == Head(late[e])
  <2>1. m \in Messages /\ ResponseStep(e, m)
    BY <1>4, ReceiveLateFacts
  <2>2. late[e] # <<>> /\ late' = [late EXCEPT ![e] = Tail(@)] /\ toApp' = toApp /\ ext' = ext
    BY <1>4 DEF ReceiveLate
  <2>3. late'[e] = Tail(late[e]) /\ \A f \in Exts : f # e => late'[f] = late[f]
    BY <1>1, <2>2
  <2>4. \A item : /\ Carries(Tail(late[e]), item) => Carries(late[e], item)
                  /\ item.req = m.req /\ item.no = m.no /\ item.id \in m.ids
                       => Carries(late[e], item)
    BY <1>1, <2>2, CarriesTail
  <2>5. \A f \in Exts : \A item \in Results :
          Carries(toApp'[f], item) \/ Carries(late'[f], item)
            => Carries(toApp[f], item) \/ Carries(late[f], item)
    BY <2>2, <2>3, <2>4
  <2>. HIDE DEF m
  <2>. QED  BY <1>2, <2>1, <2>2, <2>4, <2>5
<1>. QED  BY <1>3, <1>4

LEMMA InitResults ==
  ASSUME Init
  PROVE  AllFit(app, AllLines)
<1>1. Types /\ app \in Apps
  BY InitTypes DEF Types
<1>2. app.screen = Triggers
  BY DEF Init, Triggers
<1>3. \A e \in Exts : /\ Line(e).x.idle = <<>> /\ Line(e).x.served = <<>> /\ Line(e).x.cache = <<>>
                      /\ Line(e).out = <<>> /\ Line(e).late = <<>>
  BY DEF Init, Line, Off, Fresh
<1>4. ASSUME NEW e \in Exts
      PROVE  ResultInv(app, Line(e), e)
  <2>. DEFINE v == Line(e)
  <2>1. /\ v.x.idle = <<>> /\ v.x.served = <<>> /\ v.x.cache = <<>>
        /\ v.out = <<>> /\ v.late = <<>>
    BY <1>3
  <2>2. v \in Lines
    BY <1>1, LineFacts
  <2>. SUFFICES ResultInv(app, v, e)
    OBVIOUS
  <2>. HIDE DEF v
  <2>3. 1..Len(<<>>) = {}
    BY EmptySeq
  <2>4. CacheInv(v) /\ \A j \in 1..Len(v.x.served) : v.x.served[j] <= Len(app.sent)
    BY <2>1, <2>3 DEF CacheInv
  <2>5. \A item \in Results : Shows(app, v, e, item) => Fits(app, v, item)
    BY <2>1, <2>2, <2>3, <1>1, <1>2, TriggerFits DEF Shows, Carries
  <2>. QED  BY <2>4, <2>5 DEF ResultInv
<1>. QED  BY <1>4 DEF AllFit, AllLines

LEMMA StepResults ==
  ASSUME Types, AskInv(app), StreamInv(app, AllLines), AllFit(app, AllLines), [Next]_vars
  PROVE  AllFit(app, AllLines)'
<1>1. Types' /\ SentInv(app) /\ app \in Apps /\ app' \in Apps
  BY StepTypes DEF AskInv, Types
<1>2. ASSUME app'.sent = app.sent, app'.screen \subseteq app.screen, AllLines' = AllLines
      PROVE  AllFit(app, AllLines)'
  <2>. SUFFICES ASSUME NEW f \in Exts  PROVE ResultInv(app', AllLines[f], f)
    BY <1>2 DEF AllFit
  <2>. SUFFICES ASSUME NEW v, v = AllLines[f], NEW items, items = {}  PROVE ResultInv(app', v, f)
    OBVIOUS
  <2>1. v \in Lines /\ ResultInv(app, v, f)
    BY LineFacts DEF AllFit, AllLines
  <2>2. app'.screen \subseteq app.screen \cup Triggers \cup items
    BY <1>2
  <2>3. \A item \in items : item.ext = f => Carries(v.out, item) \/ Carries(v.late, item)
    OBVIOUS
  <2>. QED  BY <1>1, <1>2, <2>1, <2>2, <2>3, AppKeeps
<1>3. \A b : Forgets(app, b) => b.sent = app.sent /\ b.screen \subseteq app.screen
  BY DEF Forgets
<1>4. CASE User \/ ReloadQuery
  BY <1>1, <1>4, UserSteps, AppStepResults
<1>5. CASE LoadingTimeout
  <2>1. AllLines' = AllLines
    BY <1>5 DEF LoadingTimeout, AllLines, Line
  <2>2. Forgets(app, app')
    BY <1>1, <1>5, FinishLoadingForgets DEF LoadingTimeout
  <2>. QED  BY <2>1, <2>2, <1>2, <1>3
<1>6. ASSUME NEW e \in Exts, Receive(e) \/ ReceiveLate(e)
      PROVE  AllFit(app, AllLines)'
  BY <1>1, <1>6, ReceiveResults
<1>7. \A e \in Exts : app' = Errored(app, e) => app'.sent = app.sent /\ app'.screen \subseteq app.screen
  BY <1>1, <1>3, ErroredForgets
<1>8. app' = [app EXCEPT !.reloads = @ + 1] => app'.sent = app.sent /\ app'.screen \subseteq app.screen
  BY <1>1, ReloadsAgain DEF SameAsks
<1>9. ASSUME NEW e \in Exts,
             \/ ReadEvent(e) \/ Debounced(e) \/ Threads(e) \/ SendIdle(e)
             \/ StopExt(e) \/ Crash(e) \/ HandleExit(e) \/ (StartExt(e) /\ ext' # ext)
      PROVE  AllFit(app, AllLines)'
  <2>1. SideMoves(e)
    BY <1>1, <1>9, SideSteps
  <2>2. app'.sent = app.sent /\ app'.screen \subseteq app.screen
    <3>1. CASE StartExt(e)
      BY <3>1, <1>7, <1>8 DEF StartExt
    <3>2. CASE HandleExit(e)
      BY <3>2, <1>7 DEF HandleExit
    <3>3. CASE Threads(e)
      BY <3>3, ThreadSteps
    <3>4. CASE ReadEvent(e) \/ Debounced(e) \/ SendIdle(e) \/ StopExt(e) \/ Crash(e)
      BY <3>4 DEF ReadEvent, Debounced, SendIdle, StopExt, Crash
    <3>. QED  BY <1>9, <3>1, <3>2, <3>3, <3>4
  <2>3. CacheInv(Line(e)) /\ ext \in [Exts -> Processes]
    BY DEF AllFit, AllLines, ResultInv, Types
  <2>4. (SendIdle(e) /\ app' = app) \/ KeepsLine(Line(e), Line(e)')
    <3>1. CASE SendIdle(e)
      BY <3>1 DEF SendIdle
    <3>2. CASE ReadEvent(e) \/ Debounced(e)
      BY <1>1, <2>3, <3>2, ReadEventKeeps
    <3>3. CASE Threads(e)
      BY <1>1, <2>3, <3>3, ThreadsKeep
    <3>4. CASE StopExt(e) \/ HandleExit(e)
      <4>1. CloseSocket(e)
        BY <3>4 DEF StopExt, HandleExit
      <4>2. ext'[e] = Off
        BY <2>3, <4>1 DEF CloseSocket
      <4>3. ext'[e].idle = <<>> /\ ext'[e].threads = {} /\ ext'[e].served = <<>> /\ ext'[e].cache = <<>>
        BY <4>2 DEF Off, Fresh
      <4>. QED  BY <1>1, <4>1, <4>3, ProcessKeeps
    <3>5. CASE Crash(e)
      <4>. DEFINE x == [Off EXCEPT !.state = "dead"]
      <4>1. ext'[e] = x /\ toApp' = toApp /\ late' = late
        BY <2>3, <3>5 DEF Crash
      <4>2. x.idle = <<>> /\ x.threads = {} /\ x.served = <<>> /\ x.cache = <<>>
        BY DEF Off, Fresh
      <4>. QED  BY <1>1, <4>1, <4>2, ProcessKeeps
    <3>6. CASE StartExt(e) /\ ext' # ext
      <4>1. ext'[e] = Fresh /\ toApp' = toApp /\ late' = late
        BY <2>3, <3>6 DEF StartExt
      <4>2. ext'[e].idle = <<>> /\ ext'[e].threads = {} /\ ext'[e].served = <<>> /\ ext'[e].cache = <<>>
        BY <4>1 DEF Fresh
      <4>. QED  BY <1>1, <4>1, <4>2, ProcessKeeps
    <3>. QED  BY <1>9, <3>1, <3>2, <3>3, <3>4, <3>5, <3>6
  <2>. QED  BY <1>1, <2>1, <2>2, <2>4, SideResults
<1>10. ASSUME NEW e \in Exts, StartExt(e), ext' = ext
       PROVE  AllFit(app, AllLines)'
  <2>1. AllLines' = AllLines
    BY <1>10 DEF StartExt, AllLines, Line
  <2>2. app'.sent = app.sent /\ app'.screen \subseteq app.screen
    BY <1>10, <1>7, <1>8 DEF StartExt
  <2>. QED  BY <1>2, <2>1, <2>2
<1>11. CASE UNCHANGED vars
  <2>1. AllLines' = AllLines /\ app' = app
    BY <1>11 DEF vars, AllLines, Line
  <2>. QED  BY <2>1, <1>2
<1>. QED  BY <1>4, <1>5, <1>6, <1>9, <1>10, <1>11 DEF Next

LEMMA SpecResults == Spec => []AllFit(app, AllLines)
<1>1. Init => AllFit(app, AllLines)
  BY InitResults
<1>2. Types /\ AskInv(app) /\ StreamInv(app, AllLines) /\ AllFit(app, AllLines) /\ [Next]_vars
        => AllFit(app, AllLines)'
  BY StepResults
<1>. QED  BY <1>1, <1>2, SpecAsks, SpecStreams, PTL DEF Spec

\* The id a visible result was rendered with finds that result again, for as
\* long as its extension serves the request it is of: a stream goes on from the
\* ids its earlier batches were given, and a request that was interrupted by
\* another is the only one whose ids may be given out twice.
THEOREM VisibleIdsResolve == Spec => []VisibleResultsResolve
<1>1. Types /\ AllFit(app, AllLines) => VisibleResultsResolve
  <2>. SUFFICES ASSUME Types, AllFit(app, AllLines), NEW item \in app.screen,
                       Serves(ext[item.ext], item.req),
                       \A i \in DOMAIN ext[item.ext].served :
                         ext[item.ext].served[i] = item.req => i = Len(ext[item.ext].served)
                PROVE  /\ item.id < Len(ext[item.ext].cache)
                       /\ ext[item.ext].cache[item.id + 1] = item.no
    BY DEF VisibleResultsResolve
  <2>. DEFINE e == item.ext
  <2>1. item \in Results /\ e \in Exts
    BY DEF Types, Apps, Results
  <2>2. Shows(app, Line(e), e, item)
    BY DEF Shows
  <2>3. Resolves(Line(e).x, item) /\ Line(e).x = ext[e]
    BY <2>1, <2>2, LineFacts DEF AllFit, AllLines, ResultInv, Fits
  <2>4. DOMAIN ext[e].served = 1..Len(ext[e].served)
    BY <2>1, LenProperties DEF Types, Processes
  <2>5. Once(ext[e], item.req)
    BY <2>4 DEF Once
  <2>. QED  BY <2>3, <2>5 DEF Resolves
<1>. QED  BY <1>1, SpecAsks, SpecResults, PTL

\* Types of the app, the processes and the channels: the events that wait and
\* the requests that are served are of queries and activations that were sent,
\* and a result on screen has an id its process can have given it.
THEOREM RequestTypes == Spec => []TypeOK
<1>1. Types /\ AskInv(app) /\ StreamInv(app, AllLines) /\ AllFit(app, AllLines) => TypeOK
  <2>. SUFFICES ASSUME Types, AskInv(app), StreamInv(app, AllLines), AllFit(app, AllLines)
                PROVE  TypeOK
    OBVIOUS
  <2>1. app \in Apps /\ ext \in [Exts -> Processes] /\ SentInv(app) /\ Len(app.sent) \in Nat
    BY AppTypes DEF Types, AskInv
  <2>2. /\ app.open \in BOOLEAN /\ app.loading \in BOOLEAN
        /\ {app.text, app.cur, app.active} \subseteq Exts \cup {NoExt}
        /\ app.ask \in 0..MaxAsks /\ app.reloads \in Nat
        /\ app.got \in [Asks -> Seq(Answers)]
        /\ app.pending \in Callbacks \cup {NoCallback}
        /\ app.sent \in Seq(Asks) /\ Len(app.sent) <= app.ask
    BY <2>1 DEF Apps, Places, SentInv
  <2>3. app.screen \subseteq Items
    <3>. SUFFICES ASSUME NEW item \in app.screen  PROVE item \in Items
      OBVIOUS
    <3>1. item \in Results /\ item.ext \in Exts
      BY <2>1 DEF Apps, Results
    <3>2. Shows(app, Line(item.ext), item.ext, item)
      BY DEF Shows
    <3>3. item.id \in 0..MaxBatches
      BY <3>1, <3>2 DEF AllFit, AllLines, ResultInv, Fits
    <3>. QED  BY <3>1, <3>3 DEF Results, Items, Nos
  <2>4. ASSUME NEW e \in Exts
        PROVE  /\ ext[e].state \in {"off", "on", "dead"}
               /\ ext[e].debounce \in 0..Len(app.sent)
               /\ ext[e].served \in Seq(1..Len(app.sent))
               /\ starts[e] \in 0..MaxStarts[e]
    <3>1. /\ ext[e] \in Processes /\ Line(e) \in Lines /\ Line(e).x = ext[e]
          /\ AllLines[e] = Line(e)
      BY <2>1, LineFacts DEF AllLines
    <3>2. ext[e].state \in {"off", "on", "dead"} /\ ext[e].debounce \in 0..MaxAsks
      BY <3>1 DEF Processes
    <3>3. ext[e].debounce \in 0..Len(app.sent)
      <4>1. ASSUME ext[e].debounce # 0
            PROVE  ext[e].debounce <= Len(app.sent)
        <5>1. Pend(AllLines[e], ext[e].debounce, 1)
          BY <3>1, <4>1 DEF Pend, Due, Coming
        <5>2. ext[e].debounce \in Reqs /\ 1 \in Nos
          BY <3>2, <4>1, NosTypes DEF Reqs
        <5>. QED  BY <5>1, <5>2 DEF StreamInv, PlaceInv
      <4>. QED  BY <2>1, <3>2, <4>1, NosTypes
    <3>4. ext[e].served \in Seq(1..Len(app.sent))
      <4>. DEFINE s == ext[e].served
                  n == Len(s)
      <4>1. /\ s \in Seq(Reqs) /\ n \in Nat /\ s \in [1..n -> Reqs]
            /\ \A j \in 1..n : s[j] <= Len(app.sent) /\ s[j] \in Reqs
        <5>1. s \in Seq(Reqs)
          BY <3>1 DEF Processes
        <5>2. \A j \in 1..n : s[j] <= Len(app.sent)
          BY <3>1 DEF AllFit, ResultInv
        <5>. QED  BY <5>1, <5>2, LenProperties, ElementOfSeq
      <4>. HIDE DEF s, n
      <4>2. \A j \in 1..n : s[j] \in 1..Len(app.sent)
        <5>1. \A k \in Nat \ {0} : k <= Len(app.sent) => k \in 1..Len(app.sent)
          BY <2>1
        <5>. QED  BY <4>1, <5>1, NosTypes
      <4>3. s \in [1..n -> 1..Len(app.sent)]
        BY <4>1, <4>2
      <4>. QED  BY <4>1, <4>3 DEF s
    <3>5. starts[e] \in 0..MaxStarts[e]
      BY RequestsAssumption DEF Types
    <3>. QED  BY <3>2, <3>3, <3>4, <3>5
  <2>. QED  BY <2>2, <2>3, <2>4 DEF TypeOK, Types
<1>. QED  BY <1>1, SpecAsks, SpecStreams, SpecResults, PTL
=============================================================================
