------------------------ MODULE ExtensionRequestsProofs ------------------------
(***************************************************************************)
(* Proofs about ExtensionRequests, for any extensions, handlers, streams   *)
(* and bounds: what an ask is answered with, and what a visible result's   *)
(* id means.                                                               *)
(***************************************************************************)
EXTENDS ExtensionRequests, Integers, SequenceTheorems, TLAPS

-----------------------------------------------------------------------------
(* Types.  That the ids of results are bounded takes more, see IdsInv.     *)

Places == Exts \cup {NoExt}
Reqs == 1..MaxAsks
Nos == 0..(MaxBatches + 1)
Responses == {"replace", "append", "nothing", "close", "query"}
Results == [ext: Exts, req: 0..MaxAsks, no: Nos, id: Int]
Triggers == {Trigger(e) : e \in Exts}

Apps == [open: BOOLEAN, text: Places, cur: Places, screen: SUBSET Results, ask: 0..MaxAsks,
         got: [Asks -> Seq(Answers)], active: Places, pending: Callbacks \cup {NoCallback},
         loading: BOOLEAN, sent: Seq(Asks), reloads: Nat]
Events == [type: Kinds, req: Reqs, item: Results]
Tasks == [req: Reqs, kind: Kinds, input: Nat, no: 0..MaxBatches]
Batches == [req: Reqs, input: Nat, effect: Responses, no: 1..(MaxBatches + 1), size: 0..1,
            final: BOOLEAN, query: Places]
Messages == [req: Reqs, effect: Responses, no: 1..(MaxBatches + 1), ids: SUBSET Int,
             final: BOOLEAN, query: Places]
Processes == [state: {"off", "on", "dead"}, listening: BOOLEAN, debounce: 0..MaxAsks, input: Nat,
              threads: SUBSET Tasks, idle: Seq(Batches), served: Seq(Reqs), cache: Seq(Nos)]

Types ==
  /\ app \in Apps
  /\ ext \in [Exts -> Processes]
  /\ toExt \in [Exts -> Seq(Events)]
  /\ toApp \in [Exts -> Seq(Messages)]
  /\ late \in [Exts -> Seq(Messages)]
  /\ known \subseteq Exts
  /\ starts \in [Exts -> Nat] /\ \A e \in Exts : starts[e] <= MaxStarts[e]

-----------------------------------------------------------------------------
(* The asks of the app: what has been sent, and who still waits.           *)

SentInv(a) ==
  /\ Len(a.sent) <= a.ask /\ a.pending.ask <= a.ask
  /\ \A i \in 1..Len(a.sent) : a.sent[i] <= a.ask
  /\ \A j \in 1..Len(a.sent) : \A i \in 1..j - 1 : a.sent[i] < a.sent[j]
  /\ \A n \in Asks : n > a.ask => a.got[n] = <<>>

\* Nothing follows a final answer, and a pending callback has had none.
FinalInv(a) ==
  \A n \in Asks : \A i \in 1..Len(a.got[n]) : a.got[n][i].final => i = Len(a.got[n])
OpenInv(a) ==
  a.pending # NoCallback =>
    \A i \in 1..Len(a.got[a.pending.ask]) : ~a.got[a.pending.ask][i].final

\* The pending callback is of the request sent last, or of an ask not sent.
AnswerInv(a) ==
  /\ \A r \in 1..Len(a.sent) : \A i \in 1..Len(a.got[a.sent[r]]) :
       a.got[a.sent[r]][i].of \in {0, a.sent[r]}
  /\ \A r \in 1..Len(a.sent) : a.sent[r] = a.pending.ask => r = Len(a.sent)

AskInv(a) == a \in Apps /\ SentInv(a) /\ FinalInv(a) /\ OpenInv(a) /\ AnswerInv(a)

-----------------------------------------------------------------------------
(* What the handlers of the app do, as relations between the records of    *)
(* the app before and after.                                               *)

SameAsks(a, b) ==
  b.sent = a.sent /\ b.ask = a.ask /\ b.got = a.got /\ b.pending = a.pending /\ b.active = a.active

\* A new ask: not sent and not waited for, or answered by the app at once;
\* waiting for its extension to start; or sent.
NotSent(a, b) == b.ask = a.ask + 1 /\ b.sent = a.sent
Dropped(a, b) == NotSent(a, b) /\ b.got = a.got /\ b.pending = a.pending
Told(a, b) ==
  /\ NotSent(a, b) /\ b.pending = a.pending
  /\ \E ans \in Answers : /\ ans.of = 0 /\ ans.final
                          /\ b.got = [a.got EXCEPT ![a.ask + 1] = Append(@, ans)]
Waits(a, b) == NotSent(a, b) /\ b.got = a.got /\ b.pending.ask = a.ask + 1
Sends(a, b) ==
  /\ b.ask = a.ask + 1 /\ b.sent = Append(a.sent, a.ask + 1)
  /\ b.got = a.got /\ b.pending.ask = a.ask + 1
Writes(a, b, wrote) ==
  /\ b.active \in Exts /\ Running(b.active)
  /\ \E ev \in Events : ev.req = Len(a.sent) + 1 /\ wrote = <<ev>>

Goes(a, r, items) ==
  LET b == r.app
  IN  /\ b \in Apps /\ r = [app |-> b, wrote |-> r.wrote]
      /\ b.screen \subseteq a.screen \cup Triggers \cup items
      /\ \/ (SameAsks(a, b) \/ Dropped(a, b) \/ Told(a, b) \/ Waits(a, b)) /\ r.wrote = <<>>
         \/ Sends(a, b) /\ Writes(a, b, r.wrote)

-----------------------------------------------------------------------------

LEMMA NoExtIsNone == NoCallback.ask = 0 /\ NoCallback \notin Callbacks
BY RequestsAssumption DEF NoCallback, Callbacks, Asks

LEMMA TriggerIsResult == \A e \in Exts : Trigger(e) \in Results
BY RequestsAssumption DEF Trigger, Results, Nos

LEMMA AnswerFacts ==
  ASSUME NEW a \in Apps, NEW cb \in Callbacks, NEW ans \in Answers
  PROVE  LET b == [a EXCEPT !.got[cb.ask] = Append(@, ans)]
         IN  /\ b \in Apps
             /\ b.sent = a.sent /\ b.ask = a.ask /\ b.pending = a.pending /\ b.active = a.active
             /\ b.screen = a.screen /\ b.open = a.open /\ b.cur = a.cur
             /\ b.got = [a.got EXCEPT ![cb.ask] = Append(@, ans)]
<1>1. cb.ask \in Asks
  BY DEF Callbacks
<1>2. a.got[cb.ask] \in Seq(Answers)
  BY <1>1 DEF Apps
<1>3. Append(a.got[cb.ask], ans) \in Seq(Answers)
  BY <1>2, AppendProperties
<1>4. [a EXCEPT !.got[cb.ask] = Append(@, ans)]
        = [a EXCEPT !.got = [a.got EXCEPT ![cb.ask] = Append(@, ans)]]
  BY DEF Apps
<1>5. [a.got EXCEPT ![cb.ask] = Append(@, ans)] \in [Asks -> Seq(Answers)]
  BY <1>3, <1>1 DEF Apps
<1>. QED  BY <1>4, <1>5 DEF Apps

LEMMA RenderFacts ==
  ASSUME NEW a \in Apps, NEW items \in SUBSET Results, NEW append \in BOOLEAN
  PROVE  LET b == Render(a, items, append)
         IN  /\ b \in Apps /\ SameAsks(a, b) /\ b.screen \subseteq a.screen \cup items
             /\ b.cur = a.cur /\ b.open = a.open
BY DEF Render, Apps, SameAsks

LEMMA TellFacts ==
  ASSUME NEW a \in Apps, NEW cb \in Callbacks
  PROVE  LET b == Tell(a, cb)
         IN  /\ b \in Apps
             /\ b.sent = a.sent /\ b.ask = a.ask /\ b.pending = a.pending /\ b.active = a.active
             /\ b.screen \subseteq a.screen
             /\ \E ans \in Answers : /\ ans.of = 0 /\ ans.final
                                     /\ b.got = [a.got EXCEPT ![cb.ask] = Append(@, ans)]
<1>. DEFINE ans == [of |-> 0, no |-> 0, final |-> TRUE]
            b == Noted(a, cb, 0, 0, TRUE)
            c == Render(b, {}, FALSE)
<1>1. ans \in Answers /\ ans.of = 0 /\ ans.final
  BY RequestsAssumption DEF Answers
<1>2. b = [a EXCEPT !.got[cb.ask] = Append(@, ans)]
  BY DEF Noted
<1>3. Tell(a, cb) = IF Accepts(a, cb) THEN c ELSE b
  BY DEF Tell
<1>. HIDE DEF ans, b
<1>4. /\ b \in Apps
      /\ b.sent = a.sent /\ b.ask = a.ask /\ b.pending = a.pending /\ b.active = a.active
      /\ b.screen = a.screen /\ b.got = [a.got EXCEPT ![cb.ask] = Append(@, ans)]
  BY <1>1, <1>2, AnswerFacts
<1>5. c \in Apps /\ SameAsks(b, c) /\ c.screen \subseteq b.screen \cup {}
  BY <1>4, RenderFacts, Zenon
<1>. HIDE DEF c
<1>. QED  BY <1>1, <1>3, <1>4, <1>5 DEF SameAsks

LEMMA SendRequestGoes ==
  ASSUME NEW a \in Apps, NEW cb \in Callbacks, cb.ask = a.ask, Len(a.sent) < a.ask,
         ext \in [Exts -> Processes],
         NEW type \in Kinds, NEW item \in Results
  PROVE  LET r == SendRequest(a, cb, type, item)
             b == r.app
         IN  /\ b \in Apps /\ b.screen = a.screen /\ b.ask = a.ask /\ b.active = a.active
             /\ r = [app |-> b, wrote |-> r.wrote]
             /\ b.got = a.got
             /\ \/ b = a /\ r.wrote = <<>>
                \/ /\ b.sent = Append(a.sent, a.ask) /\ b.pending.ask = a.ask
                   /\ Writes(a, b, r.wrote)
<1>1. CASE a.active = NoExt \/ ~Running(a.active)
  BY <1>1 DEF SendRequest
<1>2. CASE ~(a.active = NoExt \/ ~Running(a.active))
  <2>. DEFINE b == [a EXCEPT !.pending = cb, !.sent = Append(@, cb.ask)]
              ev == Event(type, Len(a.sent) + 1, item)
  <2>1. SendRequest(a, cb, type, item) = [app |-> b, wrote |-> <<ev>>]
    BY <1>2 DEF SendRequest
  <2>2. a.sent \in Seq(Asks) /\ cb.ask \in Asks /\ a.ask \in 0..MaxAsks /\ a.active \in Exts
    BY <1>2 DEF Apps, Callbacks, Places
  <2>3. Append(a.sent, cb.ask) \in Seq(Asks)
    BY <2>2, AppendProperties
  <2>4. b \in Apps
    BY <2>3 DEF Apps
  <2>5. ev \in Events /\ ev.req = Len(a.sent) + 1
    <3>1. Len(a.sent) \in Nat
      BY <2>2, LenProperties
    <3>2. Len(a.sent) + 1 \in Reqs
      BY <3>1, <2>2, RequestsAssumption DEF Reqs
    <3>. QED  BY <3>2 DEF Event, Events
  <2>6. /\ b.screen = a.screen /\ b.ask = a.ask /\ b.active = a.active
        /\ b.got = a.got /\ b.sent = Append(a.sent, a.ask) /\ b.pending.ask = a.ask
    BY DEF Apps
  <2>. HIDE DEF b, ev
  <2>7. Writes(a, b, <<ev>>)
    BY <1>2, <2>2, <2>5, <2>6 DEF Writes
  <2>. QED  BY <2>1, <2>4, <2>6, <2>7
<1>. QED  BY <1>1, <1>2

LEMMA HandleQueryGoes ==
  ASSUME NEW a \in Apps, NEW c \in Apps, NEW e \in Exts, NEW cb \in Callbacks,
         SentInv(a), ext \in [Exts -> Processes],
         c.ask = a.ask + 1, c.sent = a.sent, c.got = a.got, c.pending = a.pending,
         c.active = a.active, c.screen = a.screen, cb.ask = c.ask
  PROVE  Goes(a, HandleQuery(c, e, cb), {})
<1>. DEFINE idle == [c EXCEPT !.loading = FALSE]
            b == [idle EXCEPT !.active = e]
            w == [b EXCEPT !.pending = cb, !.loading = TRUE]
            r == HandleQuery(c, e, cb)
<1>1. /\ idle \in Apps /\ idle.ask = a.ask + 1 /\ idle.sent = a.sent /\ idle.got = a.got
      /\ idle.pending = a.pending /\ idle.active = a.active /\ idle.screen = a.screen
  BY DEF Apps
<1>. HIDE DEF idle
<1>2. /\ b \in Apps /\ b.ask = a.ask + 1 /\ b.sent = a.sent /\ b.got = a.got
      /\ b.pending = a.pending /\ b.active = e /\ b.screen = a.screen
  BY <1>1 DEF Apps, Places
<1>. HIDE DEF b
<1>3. /\ w \in Apps /\ w.ask = a.ask + 1 /\ w.sent = a.sent /\ w.got = a.got
      /\ w.pending = cb /\ w.active = e /\ w.screen = a.screen
  BY <1>2 DEF Apps, Places
<1>. HIDE DEF w
<1>4. r = IF e \notin known THEN [app |-> Tell(idle, cb), wrote |-> <<>>]
          ELSE IF ~Running(e) THEN [app |-> w, wrote |-> <<>>]
          ELSE SendRequest(b, cb, "input", Trigger(e))
  BY DEF HandleQuery, idle, b, w
<1>5. CASE e \notin known
  <2>. DEFINE d == Tell(idle, cb)
  <2>3. /\ d \in Apps /\ d.sent = idle.sent /\ d.ask = idle.ask /\ d.pending = idle.pending
        /\ d.screen \subseteq idle.screen
        /\ \E ans \in Answers : /\ ans.of = 0 /\ ans.final
                                /\ d.got = [idle.got EXCEPT ![cb.ask] = Append(@, ans)]
    BY <1>1, TellFacts
  <2>. HIDE DEF d
  <2>4. Told(a, d)
    <3>1. idle.got = a.got /\ cb.ask = a.ask + 1
      BY <1>1
    <3>2. PICK ans \in Answers : /\ ans.of = 0 /\ ans.final
                                 /\ d.got = [idle.got EXCEPT ![cb.ask] = Append(@, ans)]
      BY <2>3
    <3>3. d.got = [a.got EXCEPT ![a.ask + 1] = Append(@, ans)]
      BY <3>1, <3>2, Zenon
    <3>. QED  BY <3>2, <3>3, <2>3, <1>1 DEF Told, NotSent
  <2>5. Goes(a, [app |-> d, wrote |-> <<>>], {})
    BY <2>3, <2>4, <1>1 DEF Goes
  <2>. QED  BY <2>5, <1>5, <1>4 DEF d
<1>6. CASE e \in known /\ ~Running(e)
  <2>1. r.app = w /\ r.wrote = <<>> /\ r = [app |-> r.app, wrote |-> r.wrote]
    BY <1>6, <1>4
  <2>. SUFFICES Goes(a, r, {})
    OBVIOUS
  <2>. HIDE DEF r
  <2>. QED  BY <2>1, <1>3 DEF Goes, Waits, NotSent
<1>7. CASE e \in known /\ Running(e)
  <2>1. r = SendRequest(b, cb, "input", Trigger(e))
    BY <1>7, <1>4
  <2>2. Len(b.sent) < b.ask
    BY <1>2, LenProperties DEF SentInv, Apps
  <2>3. Trigger(e) \in Results /\ "input" \in Kinds
    BY TriggerIsResult DEF Kinds
  <2>4. /\ r.app \in Apps /\ r.app.screen = b.screen /\ r.app.ask = b.ask
        /\ r.app.active = b.active /\ r.app.got = b.got
        /\ r = [app |-> r.app, wrote |-> r.wrote]
        /\ \/ r.app = b /\ r.wrote = <<>>
           \/ /\ r.app.sent = Append(b.sent, b.ask) /\ r.app.pending.ask = b.ask
              /\ Writes(b, r.app, r.wrote)
    BY <2>1, <2>2, <2>3, <1>2, SendRequestGoes
  <2>. SUFFICES Goes(a, r, {})
    OBVIOUS
  <2>. HIDE DEF r
  <2>5. CASE r.app = b /\ r.wrote = <<>>
    BY <2>5, <2>4, <1>2 DEF Goes, Dropped, NotSent
  <2>6. CASE /\ r.app.sent = Append(b.sent, b.ask) /\ r.app.pending.ask = b.ask
             /\ Writes(b, r.app, r.wrote)
    <3>1. Writes(a, r.app, r.wrote)
      BY <2>6, <1>2 DEF Writes
    <3>. QED  BY <2>4, <2>6, <1>2, <3>1 DEF Goes, Sends
  <2>. QED  BY <2>4, <2>5, <2>6
<1>. QED  BY <1>5, <1>6, <1>7

LEMMA SetQueryGoes ==
  ASSUME NEW a \in Apps, NEW e \in Places, SentInv(a), e # NoExt => a.ask < MaxAsks,
         ext \in [Exts -> Processes]
  PROVE  Goes(a, SetQuery(a, e), {})
<1>. DEFINE b == [a EXCEPT !.text = e, !.cur = e]
            n == a.ask + 1
            c == [b EXCEPT !.ask = n]
            cb == [ask |-> n, checked |-> TRUE]
<1>1. b \in Apps /\ SameAsks(a, b) /\ b.screen = a.screen
  BY DEF Apps, SameAsks
<1>. HIDE DEF b
<1>2. CASE e = NoExt
  <2>. DEFINE r == SetQuery(a, e)
  <2>1. /\ r.app = Render(b, Triggers, FALSE) /\ r.wrote = <<>>
        /\ r = [app |-> r.app, wrote |-> r.wrote]
    BY <1>2 DEF SetQuery, Triggers, b
  <2>2. Triggers \in SUBSET Results
    BY TriggerIsResult DEF Triggers
  <2>3. r.app \in Apps /\ SameAsks(b, r.app) /\ r.app.screen \subseteq b.screen \cup Triggers
    BY <2>1, <2>2, <1>1, RenderFacts
  <2>. SUFFICES Goes(a, r, {})
    OBVIOUS
  <2>. HIDE DEF r
  <2>. QED  BY <2>1, <2>3, <1>1 DEF Goes, SameAsks
<1>3. CASE e # NoExt
  <2>1. e \in Exts
    BY <1>3 DEF Places
  <2>2. n \in 0..MaxAsks /\ n \in Asks /\ a.ask \in 0..MaxAsks
    BY <1>3, RequestsAssumption DEF Apps, Asks
  <2>3. /\ c \in Apps /\ c.ask = a.ask + 1 /\ c.sent = a.sent /\ c.got = a.got
        /\ c.pending = a.pending /\ c.active = a.active /\ c.screen = a.screen
    BY <2>2, <1>1 DEF Apps, SameAsks
  <2>4. cb \in Callbacks /\ cb.ask = c.ask
    BY <2>2, <2>3 DEF Callbacks
  <2>5. SetQuery(a, e) = HandleQuery(c, e, cb)
    BY <1>3 DEF SetQuery, b
  <2>. HIDE DEF c, cb
  <2>. QED  BY <2>1, <2>3, <2>4, <2>5, HandleQueryGoes
<1>. QED  BY <1>2, <1>3

-----------------------------------------------------------------------------
(* What is known of the asks survives the handlers.                        *)

\* The app only grows: asks and requests are appended.
LEMMA AppTypes ==
  ASSUME NEW a \in Apps
  PROVE  /\ a.sent \in Seq(Asks) /\ Len(a.sent) \in Nat /\ a.ask \in 0..MaxAsks /\ a.ask \in Nat
         /\ \A i \in 1..Len(a.sent) : a.sent[i] \in Asks
         /\ a.pending.ask \in 0..MaxAsks /\ a.pending.ask \in Nat
         /\ a.pending = NoCallback \/ (a.pending \in Callbacks /\ a.pending.ask \in Asks)
         /\ \A n \in Asks : a.got[n] \in Seq(Answers) /\ Len(a.got[n]) \in Nat
         /\ DOMAIN a.got = Asks
<1>1. a.sent \in Seq(Asks) /\ a.ask \in 0..MaxAsks /\ a.got \in [Asks -> Seq(Answers)]
  BY DEF Apps
<1>2. a.pending \in Callbacks \cup {NoCallback}
  BY DEF Apps
<1>3. \A c \in Callbacks : c.ask \in Asks
  BY DEF Callbacks
<1>4. MaxAsks \in Nat
  BY RequestsAssumption
<1>5. a.pending.ask \in 0..MaxAsks /\ a.pending.ask \in Nat
  BY <1>2, <1>3, <1>4, NoExtIsNone DEF Asks
<1>6. a.pending = NoCallback \/ (a.pending \in Callbacks /\ a.pending.ask \in Asks)
  BY <1>2, <1>3
<1>. QED  BY <1>1, <1>4, <1>5, <1>6, LenProperties, ElementOfSeq

LEMMA NextAsk ==
  ASSUME NEW a \in Apps, NEW b \in Apps, b.ask = a.ask + 1
  PROVE  a.ask + 1 \in Asks
BY RequestsAssumption DEF Apps, Asks

LEMMA GoesKeepsSent ==
  ASSUME NEW a \in Apps, SentInv(a), NEW r, NEW items, Goes(a, r, items)
  PROVE  SentInv(r.app)
<1>. DEFINE b == r.app
<1>. SUFFICES SentInv(b)
  OBVIOUS
<1>. HIDE DEF b
<1>1. b \in Apps
  BY DEF Goes, b
<1>0. /\ a.ask \in Nat /\ Len(a.sent) \in Nat /\ a.pending.ask \in Nat
      /\ \A i \in 1..Len(a.sent) : a.sent[i] \in Nat
      /\ \A n \in Asks : n \in Nat
  BY AppTypes DEF Asks
<1>2. CASE SameAsks(a, b)
  BY <1>2 DEF SameAsks, SentInv
<1>3. CASE Dropped(a, b)
  BY <1>3, <1>0 DEF Dropped, NotSent, SentInv
<1>4. CASE Waits(a, b)
  BY <1>4, <1>0 DEF Waits, NotSent, SentInv
<1>5. CASE Told(a, b)
  <2>1. \A n \in Asks : n # a.ask + 1 => b.got[n] = a.got[n]
    BY <1>5, AppTypes DEF Told
  <2>. QED  BY <2>1, <1>0, <1>5 DEF Told, NotSent, SentInv
<1>6. CASE Sends(a, b)
  <2>1. a.ask + 1 \in Asks
    BY <1>6, <1>1, NextAsk DEF Sends
  <2>2. /\ Len(b.sent) = Len(a.sent) + 1 /\ b.sent[Len(a.sent) + 1] = a.ask + 1
        /\ \A i \in 1..Len(a.sent) : b.sent[i] = a.sent[i]
    BY <2>1, <1>6, AppTypes, AppendProperties DEF Sends
  <2>3. Len(b.sent) <= b.ask /\ b.pending.ask <= b.ask
    BY <2>2, <1>6, <1>0 DEF Sends, SentInv
  <2>4. \A i \in 1..Len(b.sent) : b.sent[i] <= b.ask
    BY <2>2, <1>6, <1>0 DEF Sends, SentInv
  <2>5. \A j \in 1..Len(b.sent) : \A i \in 1..j - 1 : b.sent[i] < b.sent[j]
    BY <2>2, <1>6, <1>0 DEF Sends, SentInv
  <2>6. \A n \in Asks : n > b.ask => b.got[n] = <<>>
    BY <1>6, <1>0 DEF Sends, SentInv
  <2>. QED  BY <2>3, <2>4, <2>5, <2>6 DEF SentInv
<1>. QED  BY <1>2, <1>3, <1>4, <1>5, <1>6 DEF Goes, b

\* What a new ask has been given: nothing, or the app's own final message.
LEMMA GoesGot ==
  ASSUME NEW a \in Apps, SentInv(a), NEW r, NEW items, Goes(a, r, items)
  PROVE  /\ \A n \in Asks : n <= a.ask => r.app.got[n] = a.got[n]
         /\ \A n \in Asks : n > a.ask =>
              /\ Len(r.app.got[n]) \in 0..1
              /\ Len(r.app.got[n]) = 1 => r.app.got[n][1].of = 0
              /\ Len(r.app.got[n]) = 1 => r.app.pending = a.pending
<1>. DEFINE b == r.app
<1>. HIDE DEF b
<1>1. b \in Apps
  BY DEF Goes, b
<1>2. \A n \in Asks : n > a.ask => a.got[n] = <<>> /\ Len(a.got[n]) = 0
  BY DEF SentInv
<1>3. CASE Told(a, b)
  <2>1. PICK ans \in Answers : /\ ans.of = 0 /\ ans.final
                               /\ b.got = [a.got EXCEPT ![a.ask + 1] = Append(@, ans)]
    BY <1>3 DEF Told
  <2>2. a.ask + 1 \in Asks /\ a.ask \in Nat
    BY <1>3, <1>1, NextAsk, AppTypes DEF Told, NotSent
  <2>3. b.got[a.ask + 1] = Append(a.got[a.ask + 1], ans)
    BY <2>1, <2>2, AppTypes
  <2>4. a.got[a.ask + 1] \in Seq(Answers) /\ Len(a.got[a.ask + 1]) = 0
    BY <2>2, <1>2, AppTypes
  <2>5. Len(b.got[a.ask + 1]) = 1 /\ b.got[a.ask + 1][1] = ans
    BY <2>3, <2>4, AppendProperties
  <2>6. \A n \in Asks : n # a.ask + 1 => b.got[n] = a.got[n]
    BY <2>1, AppTypes
  <2>7. \A n \in Asks : n <= a.ask => n # a.ask + 1
    BY <2>2 DEF Asks
  <2>8. b.pending = a.pending
    BY <1>3 DEF Told
  <2>. QED  BY <2>1, <2>5, <2>6, <2>7, <2>8, <1>2 DEF b
<1>4. CASE ~Told(a, b)
  <2>1. b.got = a.got
    BY <1>4 DEF Goes, b, SameAsks, Dropped, Waits, Sends
  <2>. QED  BY <2>1, <1>2 DEF b
<1>. QED  BY <1>3, <1>4

LEMMA GoesPending ==
  ASSUME NEW a \in Apps, NEW r, NEW items, Goes(a, r, items)
  PROVE  /\ r.app \in Apps
         /\ \/ r.app.pending = a.pending
            \/ r.app.pending.ask = a.ask + 1 /\ r.app.ask = a.ask + 1 /\ r.app.got = a.got
         /\ \/ r.app.sent = a.sent
            \/ /\ r.app.sent = Append(a.sent, a.ask + 1) /\ r.app.pending.ask = a.ask + 1
               /\ r.app.ask = a.ask + 1
BY DEF Goes, SameAsks, Dropped, Told, NotSent, Waits, Sends

LEMMA GoesKeepsFinal ==
  ASSUME NEW a \in Apps, SentInv(a), FinalInv(a), NEW r, NEW items, Goes(a, r, items)
  PROVE  FinalInv(r.app)
<1>1. \A n \in Asks : n <= a.ask \/ n > a.ask
  BY AppTypes DEF Asks
<1>2. \A n \in Asks : n > a.ask => \A i \in 1..Len(r.app.got[n]) : i = Len(r.app.got[n])
  <2>1. \A n \in Asks : n > a.ask => Len(r.app.got[n]) \in 0..1
    BY GoesGot
  <2>. SUFFICES ASSUME NEW n \in Asks, n > a.ask, NEW i \in 1..Len(r.app.got[n])
                PROVE  i = Len(r.app.got[n])
    OBVIOUS
  <2>2. Len(r.app.got[n]) \in 0..1
    BY <2>1
  <2>. DEFINE l == Len(r.app.got[n])
  <2>. HIDE DEF l
  <2>3. l \in 0..1 /\ i \in 1..l
    BY <2>2 DEF l
  <2>4. i = l
    BY <2>3
  <2>. QED  BY <2>4 DEF l
<1>3. \A n \in Asks : n <= a.ask => r.app.got[n] = a.got[n]
  BY GoesGot
<1>. QED  BY <1>1, <1>2, <1>3 DEF FinalInv

LEMMA GoesKeepsOpen ==
  ASSUME NEW a \in Apps, SentInv(a), OpenInv(a), NEW r, NEW items, Goes(a, r, items)
  PROVE  OpenInv(r.app)
<1>1. CASE r.app.pending = a.pending
  <2>1. a.pending # NoCallback => a.pending.ask \in Asks /\ a.pending.ask <= a.ask
    BY AppTypes DEF SentInv
  <2>. QED  BY <1>1, <2>1, GoesGot DEF OpenInv
<1>2. CASE r.app.pending.ask = a.ask + 1 /\ r.app.ask = a.ask + 1 /\ r.app.got = a.got
  <2>1. a.ask + 1 \in Asks /\ a.ask + 1 > a.ask
    BY <1>2, NextAsk, GoesPending, AppTypes
  <2>2. r.app.got[a.ask + 1] = <<>>
    BY <1>2, <2>1 DEF SentInv
  <2>. QED  BY <1>2, <2>2 DEF OpenInv
<1>. QED  BY <1>1, <1>2, GoesPending

LEMMA GoesKeepsAnswers ==
  ASSUME NEW a \in Apps, SentInv(a), AnswerInv(a), NEW r, NEW items, Goes(a, r, items)
  PROVE  AnswerInv(r.app)
<1>. DEFINE b == r.app
<1>. HIDE DEF b
<1>1. b \in Apps /\ a.ask \in Nat /\ Len(a.sent) \in Nat
  BY GoesPending, AppTypes DEF b
<1>2. \A i \in 1..Len(a.sent) : a.sent[i] \in Asks /\ a.sent[i] <= a.ask
  BY AppTypes DEF SentInv
<1>3. CASE b.sent = a.sent
  <2>1. \A i \in 1..Len(a.sent) : b.got[a.sent[i]] = a.got[a.sent[i]]
    BY <1>2, GoesGot DEF b
  <2>2. b.pending = a.pending \/ b.pending.ask = a.ask + 1
    BY GoesPending DEF b
  <2>3. \A i \in 1..Len(a.sent) : a.sent[i] # a.ask + 1
    BY <1>1, <1>2 DEF Asks
  <2>. QED  BY <1>3, <2>1, <2>2, <2>3 DEF AnswerInv, b
<1>4. CASE b.sent = Append(a.sent, a.ask + 1) /\ b.pending.ask = a.ask + 1 /\ b.ask = a.ask + 1
  <2>1. a.ask + 1 \in Asks /\ a.ask + 1 > a.ask
    BY <1>4, <1>1, NextAsk
  <2>2. /\ Len(b.sent) = Len(a.sent) + 1 /\ b.sent[Len(a.sent) + 1] = a.ask + 1
        /\ \A i \in 1..Len(a.sent) : b.sent[i] = a.sent[i]
    BY <2>1, <1>4, AppTypes, AppendProperties
  <2>3. \A i \in 1..Len(a.sent) : b.got[b.sent[i]] = a.got[a.sent[i]]
    BY <1>2, <2>2, GoesGot DEF b
  <2>4. \A i \in 1..Len(b.got[a.ask + 1]) : b.got[a.ask + 1][i].of = 0
    BY <2>1, GoesGot DEF b
  <2>5. \A k \in 1..Len(b.sent) : k \in 1..Len(a.sent) \/ k = Len(a.sent) + 1
    BY <2>2, <1>1
  <2>6. \A k \in 1..Len(b.sent) : \A i \in 1..Len(b.got[b.sent[k]]) :
          b.got[b.sent[k]][i].of \in {0, b.sent[k]}
    <3>1. \A k \in 1..Len(a.sent) : \A i \in 1..Len(b.got[b.sent[k]]) :
            b.got[b.sent[k]][i].of \in {0, b.sent[k]}
      BY <2>2, <2>3 DEF AnswerInv
    <3>. QED  BY <3>1, <2>2, <2>4, <2>5
  <2>7. \A k \in 1..Len(b.sent) : b.sent[k] = b.pending.ask => k = Len(b.sent)
    BY <2>2, <2>5, <1>1, <1>2, <1>4 DEF Asks
  <2>. QED  BY <2>6, <2>7 DEF AnswerInv, b
<1>. QED  BY <1>3, <1>4, GoesPending DEF b

-----------------------------------------------------------------------------
(* Answers to the pending callback: by the app itself, or by a response.   *)

\* The pending callback gets an answer, and is not forgotten yet.
Adds(a, b, ans) ==
  /\ b \in Apps /\ b.sent = a.sent /\ b.ask = a.ask /\ b.active = a.active
  /\ b.pending = a.pending /\ b.screen = a.screen
  /\ b.got = [a.got EXCEPT ![a.pending.ask] = Append(@, ans)]

\* The pending callback is forgotten, and may be told why.
Forgets(a, b) ==
  /\ b \in Apps /\ b.sent = a.sent /\ b.ask = a.ask /\ b.active = a.active
  /\ b.pending = NoCallback /\ b.screen \subseteq a.screen
  /\ \/ b.got = a.got
     \/ /\ a.pending # NoCallback
        /\ \E ans \in Answers : /\ ans.of = 0 /\ ans.final
                                /\ b.got = [a.got EXCEPT ![a.pending.ask] = Append(@, ans)]

ItemsOf(e, m) == {[ext |-> e, req |-> m.req, no |-> m.no, id |-> i] : i \in m.ids}

\* A response to the request sent last, in three steps: b has the answer, c is
\* what its effect made of that, and a final one ends the wait.
Responds(a, e, m, r) ==
  /\ a.pending # NoCallback /\ a.active = e /\ m.req = Len(a.sent)
  /\ r.app \in Apps
  /\ \E ans, b, c :
       /\ ans \in Answers
       /\ ans.of = a.sent[Len(a.sent)] /\ ans.no = m.no /\ ans.final = m.final
       /\ Adds(a, b, ans)
       /\ Goes(b, c, ItemsOf(e, m)) /\ r.wrote = c.wrote
       /\ r.app = IF m.final THEN [c.app EXCEPT !.pending = NoCallback] ELSE c.app

LEMMA FinishLoadingForgets ==
  ASSUME NEW a \in Apps
  PROVE  Forgets(a, FinishLoading(a))
<1>. DEFINE b == [a EXCEPT !.loading = FALSE, !.pending = NoCallback]
<1>1. /\ b \in Apps /\ b.sent = a.sent /\ b.ask = a.ask /\ b.active = a.active
      /\ b.pending = NoCallback /\ b.screen = a.screen /\ b.got = a.got
  BY DEF Apps
<1>2. FinishLoading(a) = IF a.pending = NoCallback THEN b ELSE Tell(b, a.pending)
  BY DEF FinishLoading
<1>. HIDE DEF b
<1>3. CASE a.pending = NoCallback
  BY <1>1, <1>2, <1>3 DEF Forgets
<1>4. CASE a.pending # NoCallback
  <2>. DEFINE c == Tell(b, a.pending)
  <2>1. a.pending \in Callbacks
    BY <1>4, AppTypes
  <2>2. /\ c \in Apps
        /\ c.sent = b.sent /\ c.ask = b.ask /\ c.pending = b.pending /\ c.active = b.active
        /\ c.screen \subseteq b.screen
        /\ \E ans \in Answers : /\ ans.of = 0 /\ ans.final
                                /\ c.got = [b.got EXCEPT ![a.pending.ask] = Append(@, ans)]
    BY <2>1, <1>1, TellFacts
  <2>. HIDE DEF c
  <2>3. \E ans \in Answers : /\ ans.of = 0 /\ ans.final
                             /\ c.got = [a.got EXCEPT ![a.pending.ask] = Append(@, ans)]
    BY <2>2, <1>1, Zenon
  <2>4. Forgets(a, c)
    BY <2>2, <2>3, <1>1, <1>4 DEF Forgets
  <2>. QED  BY <2>4, <1>2, <1>4 DEF c
<1>. QED  BY <1>3, <1>4

LEMMA ErroredForgets ==
  ASSUME NEW a \in Apps, NEW e \in Exts
  PROVE  Errored(a, e) = a \/ (a.active = e /\ Forgets(a, Errored(a, e)))
<1>1. CASE a.active # e
  BY <1>1 DEF Errored
<1>2. CASE a.active = e /\ a.loading
  BY <1>2, FinishLoadingForgets DEF Errored
<1>3. CASE a.active = e /\ ~a.loading
  <2>. DEFINE b == [a EXCEPT !.pending = NoCallback]
  <2>1. Forgets(a, b)
    BY DEF Forgets, Apps
  <2>. QED  BY <2>1, <1>3 DEF Errored
<1>. QED  BY <1>1, <1>2, <1>3

LEMMA AddsKeepsSent ==
  ASSUME NEW a \in Apps, SentInv(a), a.pending # NoCallback, NEW b, NEW ans \in Answers,
         Adds(a, b, ans)
  PROVE  SentInv(b)
<1>1. a.pending.ask \in Asks /\ a.pending.ask <= a.ask /\ a.ask \in Nat
  BY AppTypes DEF SentInv
<1>2. \A n \in Asks : n > a.ask => n # a.pending.ask
  BY <1>1 DEF Asks
<1>3. \A n \in Asks : n # a.pending.ask => b.got[n] = a.got[n]
  BY <1>1, AppTypes DEF Adds
<1>. QED  BY <1>2, <1>3 DEF SentInv, Adds

LEMMA ApplyGoes ==
  ASSUME NEW a \in Apps, SentInv(a), NEW e \in Exts, NEW m \in Messages,
         ext \in [Exts -> Processes], m.effect = "query" => a.ask < MaxAsks
  PROVE  Goes(a, Apply(a, e, m), ItemsOf(e, m))
<1>1. ItemsOf(e, m) \in SUBSET Results
  BY RequestsAssumption DEF ItemsOf, Results, Messages, Reqs, Nos
<1>2. CASE m.effect \in {"replace", "append"}
  <2>. DEFINE c == Render(a, ItemsOf(e, m), m.effect = "append")
  <2>1. c \in Apps /\ SameAsks(a, c) /\ c.screen \subseteq a.screen \cup ItemsOf(e, m)
    BY <1>1, RenderFacts
  <2>2. Apply(a, e, m) = [app |-> c, wrote |-> <<>>]
    BY <1>2 DEF Apply, ItemsOf
  <2>. HIDE DEF c
  <2>. QED  BY <2>1, <2>2 DEF Goes
<1>3. CASE m.effect = "close" /\ a.open
  <2>. DEFINE c == [a EXCEPT !.open = FALSE, !.screen = {}, !.text = NoExt]
  <2>1. c \in Apps /\ SameAsks(a, c) /\ c.screen = {}
    BY DEF Apps, SameAsks, Places
  <2>2. Apply(a, e, m) = [app |-> c, wrote |-> <<>>]
    BY <1>3 DEF Apply
  <2>. HIDE DEF c
  <2>. QED  BY <2>1, <2>2 DEF Goes
<1>4. CASE m.effect = "query" /\ a.open
  <2>1. Apply(a, e, m) = SetQuery(a, m.query)
    BY <1>4 DEF Apply
  <2>2. Goes(a, SetQuery(a, m.query), {})
    BY <1>4, SetQueryGoes DEF Messages
  <2>. QED  BY <2>1, <2>2 DEF Goes
<1>5. CASE m.effect = "query" /\ ~a.open
  <2>. DEFINE c == [a EXCEPT !.text = m.query]
  <2>1. c \in Apps /\ SameAsks(a, c) /\ c.screen = a.screen
    BY DEF Apps, SameAsks, Messages
  <2>2. Apply(a, e, m) = [app |-> c, wrote |-> <<>>]
    BY <1>5 DEF Apply
  <2>. HIDE DEF c
  <2>. QED  BY <2>1, <2>2 DEF Goes
<1>6. CASE m.effect = "nothing" \/ (m.effect = "close" /\ ~a.open)
  <2>1. Apply(a, e, m) = [app |-> a, wrote |-> <<>>]
    BY <1>6 DEF Apply
  <2>. QED  BY <2>1 DEF Goes, SameAsks
<1>. QED  BY <1>2, <1>3, <1>4, <1>5, <1>6 DEF Messages, Responses

LEMMA HandleResponseResponds ==
  ASSUME NEW a \in Apps, SentInv(a), NEW e \in Exts, NEW m \in Messages,
         ext \in [Exts -> Processes], m.effect = "query" => a.ask < MaxAsks,
         Expected(a, e, m)
  PROVE  Responds(a, e, m, HandleResponse(a, e, m))
<1>. DEFINE b == Noted(a, a.pending, a.sent[m.req], m.no, m.final)
            c == IF Accepts(a, a.pending) THEN Apply(b, e, m) ELSE [app |-> b, wrote |-> <<>>]
            r == HandleResponse(a, e, m)
<1>1. a.active = e /\ a.pending # NoCallback /\ m.req = Len(a.sent) /\ a.pending \in Callbacks
  BY AppTypes DEF Expected
<1>2. /\ m.req \in 1..Len(a.sent) /\ a.sent[m.req] \in 0..MaxAsks /\ m.no \in Nos
      /\ m.final \in BOOLEAN
  <2>1. m.req >= 1 /\ m.req \in Nat
    BY DEF Messages, Reqs
  <2>2. m.req \in 1..Len(a.sent)
    BY <2>1, <1>1, AppTypes
  <2>. QED  BY <2>2, AppTypes, RequestsAssumption DEF Messages, Nos, Asks
<1>3. PICK ans \in Answers :
        /\ ans.of = a.sent[m.req] /\ ans.no = m.no /\ ans.final = m.final
        /\ Adds(a, b, ans)
  <2>. DEFINE x == [of |-> a.sent[m.req], no |-> m.no, final |-> m.final]
  <2>1. x \in Answers /\ x.of = a.sent[m.req] /\ x.no = m.no /\ x.final = m.final
    BY <1>2 DEF Answers, Nos
  <2>2. b = [a EXCEPT !.got[a.pending.ask] = Append(@, x)]
    BY DEF Noted
  <2>. HIDE DEF x, b
  <2>3. Adds(a, b, x)
    BY <1>1, <2>1, <2>2, AnswerFacts DEF Adds
  <2>. QED  BY <2>1, <2>3
<1>4. r = IF m.final THEN [c EXCEPT !.app.pending = NoCallback] ELSE c
  BY DEF HandleResponse
<1>5. SentInv(b) /\ b \in Apps /\ b.ask = a.ask
  BY <1>1, <1>3, AddsKeepsSent DEF Adds
<1>. HIDE DEF b
<1>6. c = Apply(b, e, m) \/ c = [app |-> b, wrote |-> <<>>]
  OBVIOUS
<1>7. Goes(b, c, ItemsOf(e, m))
  <2>1. Goes(b, Apply(b, e, m), ItemsOf(e, m))
    BY <1>5, ApplyGoes
  <2>2. Goes(b, [app |-> b, wrote |-> <<>>], ItemsOf(e, m))
    BY <1>5 DEF Goes, SameAsks
  <2>. QED  BY <2>1, <2>2, <1>6
<1>8. c = [app |-> c.app, wrote |-> c.wrote]
  BY <1>7 DEF Goes
<1>. SUFFICES Responds(a, e, m, r)
  OBVIOUS
<1>. HIDE DEF c
<1>9. /\ r.app = IF m.final THEN [c.app EXCEPT !.pending = NoCallback] ELSE c.app
      /\ r.wrote = c.wrote
  BY <1>4, <1>8
<1>10. r.app \in Apps
  <2>1. c.app \in Apps
    BY <1>7 DEF Goes
  <2>2. [c.app EXCEPT !.pending = NoCallback] \in Apps
    BY <2>1 DEF Apps
  <2>. QED  BY <1>9, <2>1, <2>2
<1>. HIDE DEF r
<1>. QED  BY <1>1, <1>3, <1>7, <1>9, <1>10 DEF Responds

LEMMA AddsGot ==
  ASSUME NEW a \in Apps, a.pending # NoCallback, NEW b, NEW ans \in Answers, Adds(a, b, ans)
  PROVE  LET p == a.pending.ask
         IN  /\ p \in Asks /\ Len(a.got[p]) \in Nat
             /\ \A n \in Asks : n # p => b.got[n] = a.got[n]
             /\ Len(b.got[p]) = Len(a.got[p]) + 1
             /\ \A i \in 1..Len(a.got[p]) : b.got[p][i] = a.got[p][i]
             /\ b.got[p][Len(a.got[p]) + 1] = ans
             /\ \A i \in 1..Len(b.got[p]) : i \in 1..Len(a.got[p]) \/ i = Len(a.got[p]) + 1
<1>1. a.pending.ask \in Asks
  BY AppTypes
<1>2. a.got[a.pending.ask] \in Seq(Answers) /\ Len(a.got[a.pending.ask]) \in Nat
  BY <1>1, AppTypes
<1>3. b.got[a.pending.ask] = Append(a.got[a.pending.ask], ans)
  BY <1>1, AppTypes DEF Adds
<1>4. \A n \in Asks : n # a.pending.ask => b.got[n] = a.got[n]
  BY AppTypes DEF Adds
<1>. DEFINE q == a.got[a.pending.ask]
<1>. HIDE DEF q
<1>5. /\ Len(Append(q, ans)) = Len(q) + 1 /\ Len(q) \in Nat
      /\ \A i \in 1..Len(q) : Append(q, ans)[i] = q[i]
      /\ Append(q, ans)[Len(q) + 1] = ans
  BY <1>2, AppendProperties DEF q
<1>6. \A i \in 1..Len(Append(q, ans)) : i \in 1..Len(q) \/ i = Len(q) + 1
  BY <1>5
<1>. QED  BY <1>1, <1>3, <1>4, <1>5, <1>6 DEF q

LEMMA AddsKeepsFinal ==
  ASSUME NEW a \in Apps, a.pending # NoCallback, FinalInv(a), OpenInv(a),
         NEW b, NEW ans \in Answers, Adds(a, b, ans)
  PROVE  FinalInv(b) /\ (~ans.final => OpenInv(b))
<1>. DEFINE p == a.pending.ask
<1>1. p \in Asks /\ Len(b.got[p]) = Len(a.got[p]) + 1
  BY AddsGot
<1>2. \A i \in 1..Len(b.got[p]) : b.got[p][i].final => i = Len(b.got[p]) /\ b.got[p][i] = ans
  <2>1. \A i \in 1..Len(a.got[p]) : ~b.got[p][i].final
    <3>1. \A i \in 1..Len(a.got[p]) : b.got[p][i] = a.got[p][i]
      BY AddsGot
    <3>2. \A i \in 1..Len(a.got[p]) : ~a.got[p][i].final
      BY DEF OpenInv
    <3>. QED  BY <3>1, <3>2
  <2>2. b.got[p][Len(a.got[p]) + 1] = ans
    BY AddsGot
  <2>3. \A i \in 1..Len(b.got[p]) : i \in 1..Len(a.got[p]) \/ i = Len(a.got[p]) + 1
    BY AddsGot
  <2>. QED  BY <2>1, <2>2, <2>3, <1>1
<1>3. \A n \in Asks : n # p => b.got[n] = a.got[n]
  BY AddsGot
<1>4. b.pending = a.pending
  BY DEF Adds
<1>. HIDE DEF p
<1>5. FinalInv(b)
  BY <1>2, <1>3 DEF FinalInv
<1>6. ~ans.final => OpenInv(b)
  BY <1>2, <1>4 DEF OpenInv, p
<1>. QED  BY <1>5, <1>6

LEMMA AddsKeepsAnswers ==
  ASSUME NEW a \in Apps, a.pending # NoCallback, AnswerInv(a), NEW b, NEW ans \in Answers,
         Adds(a, b, ans), ans.of = 0 \/ (a.sent # <<>> /\ ans.of = a.sent[Len(a.sent)])
  PROVE  AnswerInv(b)
<1>. DEFINE p == a.pending.ask
<1>1. \A k \in 1..Len(a.sent) : a.sent[k] \in Asks
  BY AppTypes
<1>2. \A k \in 1..Len(a.sent) : a.sent[k] # p =>
        \A i \in 1..Len(b.got[a.sent[k]]) : b.got[a.sent[k]][i].of \in {0, a.sent[k]}
  BY <1>1, AddsGot DEF AnswerInv
<1>3. \A k \in 1..Len(a.sent) : a.sent[k] = p => k = Len(a.sent)
  BY DEF AnswerInv
<1>4. ASSUME NEW k \in 1..Len(a.sent), a.sent[k] = p
      PROVE  \A i \in 1..Len(b.got[p]) : b.got[p][i].of \in {0, p}
  <2>1. ans.of \in {0, p}
    BY <1>3, <1>4
  <2>2. \A i \in 1..Len(a.got[p]) : a.got[p][i].of \in {0, p}
    BY <1>4 DEF AnswerInv
  <2>3. \A i \in 1..Len(a.got[p]) : b.got[p][i] = a.got[p][i]
    BY AddsGot
  <2>4. b.got[p][Len(a.got[p]) + 1] = ans
    BY AddsGot
  <2>5. \A i \in 1..Len(b.got[p]) : i \in 1..Len(a.got[p]) \/ i = Len(a.got[p]) + 1
    BY AddsGot
  <2>. QED  BY <2>1, <2>2, <2>3, <2>4, <2>5
<1>5. b.sent = a.sent /\ b.pending = a.pending
  BY DEF Adds
<1>. HIDE DEF p
<1>6. \A k \in 1..Len(a.sent) : \A i \in 1..Len(b.got[a.sent[k]]) :
        b.got[a.sent[k]][i].of \in {0, a.sent[k]}
  BY <1>2, <1>4
<1>. QED  BY <1>3, <1>5, <1>6 DEF AnswerInv, p

LEMMA ClearedKeeps ==
  ASSUME NEW a \in Apps, SentInv(a), FinalInv(a), AnswerInv(a), NEW b \in Apps,
         b.sent = a.sent, b.ask = a.ask, b.got = a.got, b.pending = NoCallback
  PROVE  SentInv(b) /\ FinalInv(b) /\ AnswerInv(b) /\ OpenInv(b)
<1>1. \A i \in 1..Len(a.sent) : a.sent[i] # 0
  BY AppTypes DEF Asks
<1>2. a.ask \in Nat
  BY AppTypes
<1>3. AnswerInv(b)
  BY <1>1, NoExtIsNone DEF AnswerInv
<1>4. SentInv(b)
  BY <1>2, NoExtIsNone DEF SentInv
<1>5. FinalInv(b) /\ OpenInv(b)
  BY DEF FinalInv, OpenInv
<1>. QED  BY <1>3, <1>4, <1>5

LEMMA ForgetsKeepsAsks ==
  ASSUME NEW a, AskInv(a), NEW b, Forgets(a, b)
  PROVE  AskInv(b)
<1>1. a \in Apps /\ SentInv(a) /\ FinalInv(a) /\ OpenInv(a) /\ AnswerInv(a) /\ b \in Apps
  BY DEF AskInv, Forgets
<1>2. CASE b.got = a.got
  BY <1>1, <1>2, ClearedKeeps DEF Forgets, AskInv
<1>3. CASE b.got # a.got
  <2>1. a.pending # NoCallback
    BY <1>3 DEF Forgets
  <2>2. PICK ans \in Answers : /\ ans.of = 0 /\ ans.final
                               /\ b.got = [a.got EXCEPT ![a.pending.ask] = Append(@, ans)]
    BY <1>3 DEF Forgets
  <2>. DEFINE d == [b EXCEPT !.pending = a.pending, !.screen = a.screen]
  <2>3. /\ d \in Apps /\ d.sent = b.sent /\ d.ask = b.ask /\ d.active = b.active
        /\ d.got = b.got /\ d.pending = a.pending /\ d.screen = a.screen
    BY <1>1 DEF Apps
  <2>. HIDE DEF d
  <2>4. Adds(a, d, ans)
    BY <2>2, <2>3 DEF Adds, Forgets
  <2>5. SentInv(d) /\ FinalInv(d) /\ AnswerInv(d)
    BY <2>1, <2>2, <2>4, <1>1, AddsKeepsSent, AddsKeepsFinal, AddsKeepsAnswers
  <2>. QED  BY <2>3, <2>5, <1>1, ClearedKeeps DEF Forgets, AskInv
<1>. QED  BY <1>2, <1>3

LEMMA GoesKeepsAsks ==
  ASSUME NEW a, AskInv(a), NEW r, NEW items, Goes(a, r, items)
  PROVE  AskInv(r.app)
BY GoesPending, GoesKeepsSent, GoesKeepsFinal, GoesKeepsOpen, GoesKeepsAnswers DEF AskInv

LEMMA RespondsKeepsAsks ==
  ASSUME NEW a, AskInv(a), NEW e \in Exts, NEW m \in Messages, NEW r, Responds(a, e, m, r)
  PROVE  AskInv(r.app)
<1>1. a \in Apps /\ SentInv(a) /\ FinalInv(a) /\ OpenInv(a) /\ AnswerInv(a)
  BY DEF AskInv
<1>2. /\ a.pending # NoCallback /\ a.active = e /\ m.req = Len(a.sent) /\ r.app \in Apps
      /\ a.sent # <<>>
  BY RequestsAssumption DEF Responds, Messages, Reqs
<1>3. PICK ans, b, c :
        /\ ans \in Answers
        /\ ans.of = a.sent[Len(a.sent)] /\ ans.no = m.no /\ ans.final = m.final
        /\ Adds(a, b, ans)
        /\ Goes(b, c, ItemsOf(e, m)) /\ r.wrote = c.wrote
        /\ r.app = IF m.final THEN [c.app EXCEPT !.pending = NoCallback] ELSE c.app
  BY DEF Responds
<1>4. b \in Apps /\ SentInv(b) /\ FinalInv(b) /\ AnswerInv(b)
  BY <1>1, <1>2, <1>3, AddsKeepsSent, AddsKeepsFinal, AddsKeepsAnswers DEF Adds
<1>5. c.app \in Apps /\ SentInv(c.app) /\ FinalInv(c.app) /\ AnswerInv(c.app)
  BY <1>3, <1>4, GoesPending, GoesKeepsSent, GoesKeepsFinal, GoesKeepsAnswers
<1>6. CASE m.final
  <2>1. r.app = [c.app EXCEPT !.pending = NoCallback]
    BY <1>3, <1>6
  <2>2. /\ r.app.sent = c.app.sent /\ r.app.ask = c.app.ask /\ r.app.got = c.app.got
        /\ r.app.pending = NoCallback
    BY <2>1, <1>5 DEF Apps
  <2>. QED  BY <2>2, <1>2, <1>5, ClearedKeeps DEF AskInv
<1>7. CASE ~m.final
  <2>1. OpenInv(b)
    BY <1>1, <1>2, <1>3, <1>7, AddsKeepsFinal
  <2>2. OpenInv(c.app)
    BY <2>1, <1>3, <1>4, GoesKeepsOpen
  <2>. QED  BY <2>2, <1>3, <1>5, <1>7 DEF AskInv
<1>. QED  BY <1>6, <1>7

-----------------------------------------------------------------------------
(* What the extension's side does to its process.                          *)

OnlyIds(x, y) ==
  /\ y.state = x.state /\ y.listening = x.listening /\ y.debounce = x.debounce
  /\ y.input = x.input /\ y.threads = x.threads /\ y.idle = x.idle

LEMMA BatchIds ==
  ASSUME NEW b \in Batches
  PROVE  LET batch == [i \in 1..b.size |-> b.no]
         IN  /\ batch \in Seq(Nos)
             /\ b.size = 0 => batch = <<>>
             /\ b.size = 1 => batch = <<b.no>>
<1>1. b.size \in 0..1 /\ b.no \in Nos /\ b.size \in Nat
  BY RequestsAssumption DEF Batches, Nos
<1>2. [i \in 1..b.size |-> b.no] \in [1..b.size -> Nos]
  BY <1>1
<1>3. [i \in 1..b.size |-> b.no] \in Seq(Nos)
  BY <1>1, <1>2, SeqDef
<1>4. CASE b.size = 0
  <2>1. [i \in 1..b.size |-> b.no] \in [1..0 -> Nos]
    BY <1>2, <1>4
  <2>2. Len([i \in 1..b.size |-> b.no]) = 0
    BY <1>3, <2>1, <1>4, LenProperties
  <2>. QED  BY <1>3, <1>4, <2>2, EmptySeq
<1>5. CASE b.size = 1
  <2>1. [i \in 1..1 |-> b.no] = <<b.no>>
    OBVIOUS
  <2>. QED  BY <1>3, <1>5, <2>1
<1>. QED  BY <1>1, <1>4, <1>5

\* Where the ids of batch b start from: those of its request, or anew.
Base(x, b) == IF Serves(x, b.req) THEN x.cache ELSE <<>>

LEMMA AssignIdsFacts ==
  ASSUME NEW x \in Processes, NEW b \in Batches
  PROVE  LET y == AssignIds(x, b)
         IN  /\ y \in Processes /\ OnlyIds(x, y) /\ Base(x, b) \in Seq(Nos)
             /\ Serves(x, b.req) => y.served = x.served
             /\ ~Serves(x, b.req) => y.served = Append(x.served, b.req)
             /\ b.size = 0 => y.cache = Base(x, b)
             /\ b.size = 1 => y.cache = Append(Base(x, b), b.no)
<1>. DEFINE batch == [i \in 1..b.size |-> b.no]
<1>1. /\ batch \in Seq(Nos)
      /\ b.size = 0 => batch = <<>>
      /\ b.size = 1 => batch = <<b.no>>
  BY BatchIds
<1>2. b.req \in Reqs /\ b.no \in Nos /\ x.cache \in Seq(Nos) /\ x.served \in Seq(Reqs)
  BY RequestsAssumption DEF Batches, Nos, Processes
<1>3. AssignIds(x, b) =
        IF Serves(x, b.req) THEN [x EXCEPT !.cache = @ \o batch]
        ELSE [x EXCEPT !.served = Append(@, b.req), !.cache = batch]
  BY DEF AssignIds
<1>. HIDE DEF batch
<1>4. Append(x.served, b.req) \in Seq(Reqs)
  BY <1>2, AppendProperties
<1>5. /\ x.cache \o batch \in Seq(Nos)
      /\ b.size = 0 => x.cache \o batch = x.cache
      /\ b.size = 1 => x.cache \o batch = Append(x.cache, b.no)
  <2>1. x.cache \o batch \in Seq(Nos)
    BY <1>1, <1>2, ConcatProperties
  <2>2. x.cache \o <<>> = x.cache
    BY <1>2, ConcatEmptySeq
  <2>3. x.cache \o <<b.no>> = Append(x.cache, b.no)
    BY <1>2, AppendIsConcat
  <2>. QED  BY <1>1, <2>1, <2>2, <2>3
<1>6. <<>> \in Seq(Nos) /\ Append(<<>>, b.no) = <<b.no>>
  BY <1>2
<1>7. CASE Serves(x, b.req)
  <2>1. AssignIds(x, b) = [x EXCEPT !.cache = @ \o batch]
    BY <1>3, <1>7
  <2>. QED  BY <2>1, <1>2, <1>5, <1>7 DEF Processes, OnlyIds, Base
<1>8. CASE ~Serves(x, b.req)
  <2>1. AssignIds(x, b) = [x EXCEPT !.served = Append(@, b.req), !.cache = batch]
    BY <1>3, <1>8
  <2>. QED  BY <2>1, <1>1, <1>2, <1>4, <1>6, <1>8 DEF Processes, OnlyIds, Base
<1>. QED  BY <1>7, <1>8

\* A batch that is not superseded becomes a response: y is the process then.
Responded(x, b, y, m) ==
  /\ y = IF b.effect \in {"replace", "append"} THEN AssignIds(x, b) ELSE x
  /\ m.req = b.req /\ m.effect = b.effect /\ m.no = b.no /\ m.final = b.final
  /\ m.ids = Len(y.cache) - b.size .. Len(y.cache) - 1

LEMMA SendResponseFacts ==
  ASSUME NEW e \in Exts, NEW x \in Processes, NEW b \in Batches, SendResponse(e, x, b)
  PROVE  \/ ext' = [ext EXCEPT ![e] = x] /\ toApp' = toApp
         \/ \E y \in Processes, m \in Messages :
              /\ Responded(x, b, y, m) /\ ~Superseded(x, b.input)
              /\ ext' = [ext EXCEPT ![e] = y] /\ toApp' = [toApp EXCEPT ![e] = Append(@, m)]
<1>1. CASE Superseded(x, b.input)
  BY <1>1 DEF SendResponse
<1>2. CASE ~Superseded(x, b.input)
  <2>. DEFINE y == IF b.effect \in {"replace", "append"} THEN AssignIds(x, b) ELSE x
              ids == Len(y.cache) - b.size .. Len(y.cache) - 1
              m == [req |-> b.req, effect |-> b.effect, no |-> b.no, ids |-> ids,
                    final |-> b.final, query |-> b.query]
  <2>1. ext' = [ext EXCEPT ![e] = y] /\ toApp' = [toApp EXCEPT ![e] = Append(@, m)]
    BY <1>2 DEF SendResponse
  <2>2. y \in Processes
    BY AssignIdsFacts
  <2>. HIDE DEF y
  <2>3. ids \in SUBSET Int
    OBVIOUS
  <2>4. m.ids = ids /\ m.req = b.req /\ m.effect = b.effect /\ m.no = b.no /\ m.final = b.final
    OBVIOUS
  <2>. HIDE DEF ids
  <2>5. m \in Messages
    BY <2>3 DEF Messages, Batches
  <2>. HIDE DEF m
  <2>6. Responded(x, b, y, m)
    BY <2>4 DEF Responded, y, ids
  <2>. QED  BY <1>2, <2>1, <2>2, <2>5, <2>6
<1>. QED  BY <1>1, <1>2

\* An event is taken: the socket is no longer listened to, or a response is sent
\* at once, or a thread is started.  Only an input supersedes older ones.
Started(x, y, t) ==
  /\ y.state = x.state /\ y.listening = x.listening /\ y.debounce = x.debounce
  /\ y.threads = x.threads /\ y.idle = x.idle
  /\ y.served = x.served /\ y.cache = x.cache
  /\ \/ t.input = 0 /\ y.input = x.input
     \/ t.input = x.input + 1 /\ y.input = x.input + 1

LEMMA DoTriggerEventFacts ==
  ASSUME NEW e \in Exts, NEW x \in Processes, NEW ev \in Events, DoTriggerEvent(e, x, ev)
  PROVE  \/ ext' = [ext EXCEPT ![e] = [x EXCEPT !.listening = FALSE]] /\ toApp' = toApp
         \/ \E y \in Processes, t \in Tasks :
              /\ t.req = ev.req /\ t.no = 0 /\ Started(x, y, t)
              /\ \/ /\ ext' = [ext EXCEPT ![e] = [y EXCEPT !.threads = @ \cup {t}]]
                    /\ toApp' = toApp
                 \/ \E b \in Batches :
                      /\ b.req = ev.req /\ b.input = t.input /\ b.effect = "nothing" /\ b.size = 0
                      /\ b.no = 1 /\ b.final
                      /\ SendResponse(e, y, b)
<1>. DEFINE input == IF ev.type = "input" THEN x.input + 1 ELSE 0
            y == [x EXCEPT !.input = IF input # 0 THEN input ELSE @]
            t == [req |-> ev.req, kind |-> ev.type, input |-> input, no |-> 0]
            b == Batch(t, "nothing", 1, 0, TRUE, NoExt)
<1>1. /\ x.input \in Nat /\ input \in Nat
      /\ (input = 0 /\ y.input = x.input) \/ (input = x.input + 1 /\ y.input = x.input + 1)
  BY DEF Processes
<1>2. y \in Processes
  BY <1>1 DEF Processes
<1>3. t \in Tasks /\ t.req = ev.req /\ t.no = 0 /\ t.input = input
  BY <1>1, RequestsAssumption DEF Tasks, Events
<1>4. Started(x, y, t)
  BY <1>1 DEF Started, Processes
<1>5. /\ b \in Batches /\ b.req = ev.req /\ b.input = t.input
      /\ b.effect = "nothing" /\ b.size = 0 /\ b.no = 1 /\ b.final
  <2>1. /\ t.req \in Reqs /\ t.input \in Nat /\ "nothing" \in Responses /\ NoExt \in Places
        /\ 1 \in 1..(MaxBatches + 1) /\ 0 \in 0..1
    BY <1>3, RequestsAssumption DEF Tasks, Responses, Places
  <2>2. t.req = ev.req
    BY <1>3
  <2>. HIDE DEF t
  <2>3. b = [req |-> t.req, input |-> t.input, effect |-> "nothing", no |-> 1, size |-> 0,
             final |-> TRUE, query |-> NoExt]
    BY DEF Batch
  <2>. HIDE DEF b
  <2>4. b \in Batches
    BY <2>1, <2>3 DEF Batches
  <2>5. b.final = TRUE
    BY <2>3
  <2>6. /\ b.req = t.req /\ b.input = t.input
        /\ b.effect = "nothing" /\ b.size = 0 /\ b.no = 1
    BY <2>3
  <2>. QED  BY <2>2, <2>4, <2>5, <2>6
<1>6. \/ ext' = [ext EXCEPT ![e] = [x EXCEPT !.listening = FALSE]] /\ toApp' = toApp
      \/ SendResponse(e, y, b)
      \/ ext' = [ext EXCEPT ![e] = [y EXCEPT !.threads = @ \cup {t}]] /\ toApp' = toApp
  BY DEF DoTriggerEvent
<1>. HIDE DEF y, t, b
<1>. QED  BY <1>2, <1>3, <1>4, <1>5, <1>6

-----------------------------------------------------------------------------
(* The actions of the app, as steps of the relations above.                *)

AppStep == \E r : Goes(app, r, {}) /\ Becomes(r)
ResponseStep(e, m) ==
  \/ ~Expected(app, e, m) /\ app' = app /\ toExt' = toExt
  \/ \E r : Responds(app, e, m, r) /\ Becomes(r)

LEMMA GoesFromSame ==
  ASSUME NEW a \in Apps, NEW c \in Apps, SameAsks(a, c), c.screen \subseteq a.screen,
         NEW r, Goes(c, r, {})
  PROVE  Goes(a, r, {})
<1>1. /\ r.app \in Apps /\ r = [app |-> r.app, wrote |-> r.wrote]
      /\ r.app.screen \subseteq a.screen \cup Triggers \cup {}
  BY DEF Goes
<1>2. c.sent = a.sent /\ c.ask = a.ask /\ c.got = a.got /\ c.pending = a.pending
      /\ c.active = a.active
  BY DEF SameAsks
<1>3. CASE (SameAsks(c, r.app) \/ Dropped(c, r.app) \/ Waits(c, r.app)) /\ r.wrote = <<>>
  BY <1>1, <1>2, <1>3 DEF Goes, SameAsks, Dropped, Waits, NotSent
<1>4. CASE Told(c, r.app) /\ r.wrote = <<>>
  BY <1>1, <1>2, <1>4 DEF Goes, Told, NotSent
<1>5. CASE Sends(c, r.app) /\ Writes(c, r.app, r.wrote)
  <2>1. Sends(a, r.app) /\ Writes(a, r.app, r.wrote)
    BY <1>2, <1>5 DEF Sends, Writes
  <2>. QED  BY <1>1, <2>1 DEF Goes
<1>. QED  BY <1>3, <1>4, <1>5 DEF Goes

LEMMA ActivateGoes ==
  ASSUME Types, SentInv(app), NEW item \in Items, Activate(item)
  PROVE  AppStep
<1>. DEFINE n == app.ask + 1
            cb == [ask |-> n, checked |-> app.cur # NoExt]
            a == [app EXCEPT !.ask = n]
            launched == [a EXCEPT !.active = IF item.ext \in known THEN item.ext ELSE NoExt]
<1>1. /\ app \in Apps /\ ext \in [Exts -> Processes] /\ known \subseteq Exts
  BY DEF Types
<1>2. app.ask < MaxAsks /\ n \in Asks /\ n \in 0..MaxAsks /\ app.ask \in Nat
  BY <1>1, RequestsAssumption DEF Activate, MayAsk, Apps, Asks
<1>3. item \in Results
  BY RequestsAssumption DEF Items, Results, Nos
<1>4. cb \in Callbacks /\ cb.ask = n
  BY <1>2 DEF Callbacks
<1>5. /\ a \in Apps /\ a.ask = n /\ a.sent = app.sent /\ a.got = app.got
      /\ a.pending = app.pending /\ a.active = app.active /\ a.screen = app.screen
  BY <1>1, <1>2 DEF Apps
<1>6. /\ launched \in Apps /\ launched.ask = n /\ launched.sent = app.sent
      /\ launched.got = app.got /\ launched.pending = app.pending
      /\ launched.screen = app.screen
  BY <1>1, <1>5 DEF Apps, Places
<1>7. Len(app.sent) < n
  BY <1>1, <1>2, AppTypes DEF SentInv
<1>8. \/ Becomes(SendRequest(launched, cb, "launch", item))
      \/ Becomes(SendRequest(a, cb, "activate", item))
  BY DEF Activate
<1>. HIDE DEF cb, a, launched
<1>9. ASSUME NEW x \in Apps, x.ask = n, x.sent = app.sent, x.got = app.got,
             x.pending = app.pending, x.screen = app.screen, NEW type \in Kinds
      PROVE  Goes(app, SendRequest(x, cb, type, item), {})
  <2>. DEFINE r == SendRequest(x, cb, type, item)
  <2>1. /\ r.app \in Apps /\ r.app.screen = x.screen /\ r.app.ask = x.ask
        /\ r.app.active = x.active /\ r.app.got = x.got
        /\ r = [app |-> r.app, wrote |-> r.wrote]
        /\ \/ r.app = x /\ r.wrote = <<>>
           \/ /\ r.app.sent = Append(x.sent, x.ask) /\ r.app.pending.ask = x.ask
              /\ Writes(x, r.app, r.wrote)
    BY <1>1, <1>3, <1>4, <1>7, <1>9, SendRequestGoes
  <2>. SUFFICES Goes(app, r, {})
    OBVIOUS
  <2>. HIDE DEF r
  <2>2. CASE r.app = x /\ r.wrote = <<>>
    BY <2>1, <2>2, <1>9 DEF Goes, Dropped, NotSent
  <2>3. CASE /\ r.app.sent = Append(x.sent, x.ask) /\ r.app.pending.ask = x.ask
             /\ Writes(x, r.app, r.wrote)
    <3>1. Writes(app, r.app, r.wrote)
      BY <2>3, <1>9 DEF Writes
    <3>. QED  BY <2>1, <2>3, <3>1, <1>9 DEF Goes, Sends
  <2>. QED  BY <2>1, <2>2, <2>3
<1>10. "launch" \in Kinds /\ "activate" \in Kinds
  BY DEF Kinds
<1>. QED  BY <1>5, <1>6, <1>8, <1>9, <1>10 DEF AppStep

LEMMA UserSteps ==
  ASSUME Types, SentInv(app), User \/ ReloadQuery
  PROVE  AppStep /\ UNCHANGED <<ext, toApp, late, known, starts>>
<1>1. app \in Apps /\ ext \in [Exts -> Processes] /\ app.text \in Places
  BY DEF Types, Apps
<1>2. ASSUME NEW e \in Exts \cup {NoExt}, Type(e)
      PROVE  AppStep
  BY <1>1, <1>2, SetQueryGoes DEF Type, MayAsk, AppStep, Places
<1>3. ASSUME NEW keep \in BOOLEAN, Hide(keep)
      PROVE  AppStep
  <2>. DEFINE c == [app EXCEPT !.open = FALSE, !.screen = {}, !.text = IF keep THEN @ ELSE NoExt]
              r == [app |-> c, wrote |-> <<>>]
  <2>1. c \in Apps /\ SameAsks(app, c) /\ c.screen = {}
    BY <1>1 DEF Apps, SameAsks, Places
  <2>2. app' = c /\ toExt' = toExt
    BY <1>3 DEF Hide
  <2>. HIDE DEF c
  <2>3. Goes(app, r, {})
    BY <2>1 DEF Goes
  <2>4. Becomes(r)
    BY <2>2 DEF Becomes
  <2>. QED  BY <2>3, <2>4 DEF AppStep
<1>4. ASSUME Show
      PROVE  AppStep
  <2>. DEFINE c == [app EXCEPT !.open = TRUE]
  <2>1. c \in Apps /\ SameAsks(app, c) /\ c.screen = app.screen /\ c.ask = app.ask
    BY <1>1 DEF Apps, SameAsks
  <2>2. SentInv(c)
    BY <2>1 DEF SameAsks, SentInv
  <2>3. Becomes(SetQuery(c, app.text)) /\ (app.text # NoExt => c.ask < MaxAsks)
    BY <1>4, <2>1 DEF Show, MayAsk
  <2>. HIDE DEF c
  <2>4. Goes(c, SetQuery(c, app.text), {})
    BY <1>1, <2>1, <2>2, <2>3, SetQueryGoes
  <2>. QED  BY <1>1, <2>1, <2>3, <2>4, GoesFromSame DEF AppStep
<1>5. ASSUME ReloadQuery
      PROVE  AppStep
  <2>. DEFINE c == [app EXCEPT !.reloads = @ - 1]
  <2>1. c \in Apps /\ SameAsks(app, c) /\ c.screen = app.screen /\ c.ask = app.ask
    <3>1. app.reloads - 1 \in Nat
      BY <1>1, <1>5 DEF Apps, ReloadQuery
    <3>. QED  BY <1>1, <3>1 DEF Apps, SameAsks
  <2>2. SentInv(c)
    BY <2>1 DEF SameAsks, SentInv
  <2>3. /\ Becomes(IF app.open THEN SetQuery(c, app.text) ELSE [app |-> c, wrote |-> <<>>])
        /\ app.open /\ app.text # NoExt => c.ask < MaxAsks
    BY <1>5, <2>1 DEF ReloadQuery, MayAsk
  <2>. HIDE DEF c
  <2>4. Goes(c, [app |-> c, wrote |-> <<>>], {})
    BY <2>1 DEF Goes, SameAsks
  <2>5. app.open => Goes(c, SetQuery(c, app.text), {})
    BY <1>1, <2>1, <2>2, <2>3, SetQueryGoes
  <2>6. CASE app.open
    BY <1>1, <2>1, <2>3, <2>5, <2>6, GoesFromSame DEF AppStep
  <2>7. CASE ~app.open
    BY <1>1, <2>1, <2>3, <2>4, <2>7, GoesFromSame DEF AppStep
  <2>. QED  BY <2>6, <2>7
<1>6. AppStep
  BY <1>2, <1>3, <1>4, <1>5, ActivateGoes DEF User
<1>7. UNCHANGED <<ext, toApp, late, known, starts>>
  BY DEF User, Type, Activate, Hide, Show, ReloadQuery
<1>. QED  BY <1>6, <1>7

LEMMA HandleMessageSteps ==
  ASSUME Types, SentInv(app), NEW e \in Exts, NEW m \in Messages, HandleMessage(e, m)
  PROVE  ResponseStep(e, m)
<1>1. app \in Apps /\ ext \in [Exts -> Processes]
  BY DEF Types
<1>2. CASE Expected(app, e, m)
  <2>1. m.effect = "query" => app.ask < MaxAsks
    BY DEF HandleMessage, MayAsk
  <2>. QED  BY <1>1, <1>2, <2>1, HandleResponseResponds DEF HandleMessage, ResponseStep
<1>3. CASE ~Expected(app, e, m)
  BY <1>3 DEF HandleMessage, ResponseStep
<1>. QED  BY <1>2, <1>3

-----------------------------------------------------------------------------
(* Types are preserved. *)

\* What a step of the app writes: nothing, or the event of the newest request.
Delivers(a, b) ==
  /\ Sends(a, b) /\ b.active \in Exts /\ Running(b.active)
  /\ \E ev \in Events : /\ ev.req = Len(a.sent) + 1
                        /\ toExt' = [toExt EXCEPT ![b.active] = Append(@, ev)]

LEMMA BecomesDelivers ==
  ASSUME toExt \in [Exts -> Seq(Events)], NEW a, NEW c, NEW items, Goes(a, c, items),
         NEW r, r.wrote = c.wrote, r.app.active = c.app.active, Becomes(r)
  PROVE  /\ app' = r.app
         /\ \/ Delivers(a, c.app)
            \/ /\ toExt' = toExt
               /\ SameAsks(a, c.app) \/ Dropped(a, c.app) \/ Told(a, c.app) \/ Waits(a, c.app)
<1>1. app' = r.app
  BY DEF Becomes
<1>2. CASE r.wrote = <<>>
  <2>1. toExt' = toExt
    BY <1>2 DEF Becomes
  <2>2. ~Writes(a, c.app, c.wrote)
    BY <1>2 DEF Writes
  <2>. QED  BY <1>1, <2>1, <2>2 DEF Goes
<1>3. CASE r.wrote # <<>>
  <2>1. Sends(a, c.app) /\ Writes(a, c.app, c.wrote)
    BY <1>3 DEF Goes
  <2>2. PICK ev \in Events : ev.req = Len(a.sent) + 1 /\ c.wrote = <<ev>>
    BY <2>1 DEF Writes
  <2>3. c.app.active \in Exts /\ Running(c.app.active)
    BY <2>1 DEF Writes
  <2>4. toExt' = [toExt EXCEPT ![c.app.active] = @ \o <<ev>>]
    BY <1>3, <2>2 DEF Becomes
  <2>5. toExt[c.app.active] \o <<ev>> = Append(toExt[c.app.active], ev)
    BY <2>3, AppendIsConcat
  <2>6. toExt' = [toExt EXCEPT ![c.app.active] = Append(@, ev)]
    BY <2>4, <2>5, Zenon
  <2>. QED  BY <1>1, <2>1, <2>2, <2>3, <2>6 DEF Delivers
<1>. QED  BY <1>2, <1>3

LEMMA DeliversTypes ==
  ASSUME toExt \in [Exts -> Seq(Events)], NEW a, NEW b, toExt' = toExt \/ Delivers(a, b)
  PROVE  toExt' \in [Exts -> Seq(Events)]
<1>1. CASE Delivers(a, b)
  <2>1. PICK ev \in Events : toExt' = [toExt EXCEPT ![b.active] = Append(@, ev)]
    BY <1>1 DEF Delivers
  <2>2. b.active \in Exts
    BY <1>1 DEF Delivers
  <2>3. Append(toExt[b.active], ev) \in Seq(Events)
    BY <2>2, AppendProperties
  <2>. QED  BY <2>1, <2>2, <2>3
<1>. QED  BY <1>1

LEMMA AppStepTypes ==
  ASSUME Types, AppStep
  PROVE  app' \in Apps /\ toExt' \in [Exts -> Seq(Events)]
<1>1. PICK r : Goes(app, r, {}) /\ Becomes(r)
  BY DEF AppStep
<1>2. app' = r.app /\ (toExt' = toExt \/ Delivers(app, r.app))
  BY <1>1, BecomesDelivers DEF Types
<1>. QED  BY <1>1, <1>2, DeliversTypes DEF Types, Goes

\* A response, taken apart: b has its answer, c is what became of it.
LEMMA RespondsParts ==
  ASSUME Types, NEW e \in Exts, NEW m \in Messages, NEW r, Responds(app, e, m, r), Becomes(r)
  PROVE  /\ app.pending # NoCallback /\ app.active = e /\ m.req = Len(app.sent)
         /\ app' \in Apps
         /\ \E ans, b, c :
              /\ ans \in Answers
              /\ ans.of = app.sent[Len(app.sent)] /\ ans.no = m.no /\ ans.final = m.final
              /\ Adds(app, b, ans) /\ Goes(b, c, ItemsOf(e, m))
              /\ app' = IF m.final THEN [c.app EXCEPT !.pending = NoCallback] ELSE c.app
              /\ \/ Delivers(b, c.app)
                 \/ /\ toExt' = toExt
                    /\ SameAsks(b, c.app) \/ Dropped(b, c.app) \/ Told(b, c.app) \/ Waits(b, c.app)
<1>1. PICK ans, b, c :
        /\ ans \in Answers
        /\ ans.of = app.sent[Len(app.sent)] /\ ans.no = m.no /\ ans.final = m.final
        /\ Adds(app, b, ans)
        /\ Goes(b, c, ItemsOf(e, m)) /\ r.wrote = c.wrote
        /\ r.app = IF m.final THEN [c.app EXCEPT !.pending = NoCallback] ELSE c.app
  BY DEF Responds
<1>2. c.app \in Apps
  BY <1>1 DEF Goes
<1>3. r.app.active = c.app.active
  BY <1>1, <1>2 DEF Apps
<1>4. /\ app' = r.app
      /\ \/ Delivers(b, c.app)
         \/ /\ toExt' = toExt
            /\ SameAsks(b, c.app) \/ Dropped(b, c.app) \/ Told(b, c.app) \/ Waits(b, c.app)
  BY <1>1, <1>3, BecomesDelivers DEF Types
<1>5. /\ app.pending # NoCallback /\ app.active = e /\ m.req = Len(app.sent)
      /\ app' \in Apps
  BY <1>4 DEF Responds
<1>6. app' = IF m.final THEN [c.app EXCEPT !.pending = NoCallback] ELSE c.app
  BY <1>1, <1>4
<1>. QED  BY <1>1, <1>4, <1>5, <1>6

LEMMA ResponseStepTypes ==
  ASSUME Types, NEW e \in Exts, NEW m \in Messages, ResponseStep(e, m)
  PROVE  app' \in Apps /\ toExt' \in [Exts -> Seq(Events)]
<1>1. CASE app' = app /\ toExt' = toExt
  BY <1>1 DEF Types
<1>2. CASE \E r : Responds(app, e, m, r) /\ Becomes(r)
  <2>1. app' \in Apps /\ \E b, c : toExt' = toExt \/ Delivers(b, c.app)
    BY <1>2, RespondsParts
  <2>. QED  BY <2>1, DeliversTypes DEF Types
<1>. QED  BY <1>1, <1>2 DEF ResponseStep

LEMMA FreshTypes == Fresh \in Processes /\ Off \in Processes /\ [Off EXCEPT !.state = "dead"] \in Processes
<1>1. <<>> \in Seq(Batches) /\ <<>> \in Seq(Reqs) /\ <<>> \in Seq(Nos)
  OBVIOUS
<1>2. Fresh \in Processes
  BY <1>1, RequestsAssumption DEF Fresh, Processes
<1>3. Off \in Processes
  BY <1>2 DEF Off, Processes
<1>. QED  BY <1>2, <1>3 DEF Processes

LEMMA InitTypes ==
  ASSUME Init
  PROVE  Types
<1>1. app \in Apps
  <2>1. [a \in Asks |-> <<>>] \in [Asks -> Seq(Answers)] /\ <<>> \in Seq(Asks)
    OBVIOUS
  <2>2. {Trigger(e) : e \in Exts} \in SUBSET Results /\ NoExt \in Places /\ 0 \in 0..MaxAsks
    BY TriggerIsResult, RequestsAssumption DEF Places
  <2>. QED  BY <2>1, <2>2 DEF Init, Apps
<1>2. ext \in [Exts -> Processes]
  BY FreshTypes DEF Init
<1>3. /\ toExt \in [Exts -> Seq(Events)] /\ toApp \in [Exts -> Seq(Messages)]
      /\ late \in [Exts -> Seq(Messages)]
  <2>1. <<>> \in Seq(Events) /\ <<>> \in Seq(Messages)
    OBVIOUS
  <2>. QED  BY <2>1 DEF Init
<1>4. known \subseteq Exts
  BY DEF Init
<1>5. starts \in [Exts -> Nat] /\ \A e \in Exts : starts[e] <= MaxStarts[e]
  BY RequestsAssumption DEF Init
<1>. QED  BY <1>1, <1>2, <1>3, <1>4, <1>5 DEF Types

LEMMA SendResponseTypes ==
  ASSUME ext \in [Exts -> Processes], toApp \in [Exts -> Seq(Messages)],
         NEW e \in Exts, NEW x \in Processes, NEW b \in Batches, SendResponse(e, x, b)
  PROVE  ext' \in [Exts -> Processes] /\ toApp' \in [Exts -> Seq(Messages)]
<1>1. CASE ext' = [ext EXCEPT ![e] = x] /\ toApp' = toApp
  BY <1>1
<1>2. CASE \E y \in Processes, m \in Messages :
             ext' = [ext EXCEPT ![e] = y] /\ toApp' = [toApp EXCEPT ![e] = Append(@, m)]
  <2>1. PICK y \in Processes, m \in Messages :
          ext' = [ext EXCEPT ![e] = y] /\ toApp' = [toApp EXCEPT ![e] = Append(@, m)]
    BY <1>2
  <2>2. Append(toApp[e], m) \in Seq(Messages)
    BY AppendProperties
  <2>. QED  BY <2>1, <2>2
<1>. QED  BY <1>1, <1>2, SendResponseFacts

LEMMA DoTriggerEventTypes ==
  ASSUME ext \in [Exts -> Processes], toApp \in [Exts -> Seq(Messages)],
         NEW e \in Exts, NEW x \in Processes, NEW ev \in Events, DoTriggerEvent(e, x, ev)
  PROVE  ext' \in [Exts -> Processes] /\ toApp' \in [Exts -> Seq(Messages)]
<1>1. CASE ext' = [ext EXCEPT ![e] = [x EXCEPT !.listening = FALSE]] /\ toApp' = toApp
  <2>1. [x EXCEPT !.listening = FALSE] \in Processes
    BY DEF Processes
  <2>. QED  BY <1>1, <2>1
<1>2. CASE \E y \in Processes, t \in Tasks :
             ext' = [ext EXCEPT ![e] = [y EXCEPT !.threads = @ \cup {t}]] /\ toApp' = toApp
  <2>1. PICK y \in Processes, t \in Tasks :
          ext' = [ext EXCEPT ![e] = [y EXCEPT !.threads = @ \cup {t}]] /\ toApp' = toApp
    BY <1>2
  <2>2. [y EXCEPT !.threads = @ \cup {t}] \in Processes
    BY DEF Processes
  <2>. QED  BY <2>1, <2>2
<1>3. CASE \E y \in Processes, b \in Batches : SendResponse(e, y, b)
  BY <1>3, SendResponseTypes
<1>4. CASE \E y \in Processes, t \in Tasks :
             \/ ext' = [ext EXCEPT ![e] = [y EXCEPT !.threads = @ \cup {t}]] /\ toApp' = toApp
             \/ \E b \in Batches : SendResponse(e, y, b)
  BY <1>2, <1>3, <1>4
<1>5. \/ ext' = [ext EXCEPT ![e] = [x EXCEPT !.listening = FALSE]] /\ toApp' = toApp
      \/ \E y \in Processes, t \in Tasks :
             \/ ext' = [ext EXCEPT ![e] = [y EXCEPT !.threads = @ \cup {t}]] /\ toApp' = toApp
             \/ \E b \in Batches : SendResponse(e, y, b)
  <2>1. \/ ext' = [ext EXCEPT ![e] = [x EXCEPT !.listening = FALSE]] /\ toApp' = toApp
        \/ \E y \in Processes, t \in Tasks :
              /\ t.req = ev.req /\ t.no = 0 /\ Started(x, y, t)
              /\ \/ /\ ext' = [ext EXCEPT ![e] = [y EXCEPT !.threads = @ \cup {t}]]
                    /\ toApp' = toApp
                 \/ \E b \in Batches :
                      /\ b.req = ev.req /\ b.input = t.input /\ b.effect = "nothing" /\ b.size = 0
                      /\ b.no = 1 /\ b.final
                      /\ SendResponse(e, y, b)
    BY DoTriggerEventFacts
  <2>. QED  BY <2>1
<1>. QED  BY <1>1, <1>4, <1>5

\* A thread hands a batch over and is done, or goes on as u.
Hands(e, t, b, us) ==
  ext' = [ext EXCEPT ![e] = [ext[e] EXCEPT !.threads = (ext[e].threads \ {t}) \cup us,
                                           !.idle = Append(ext[e].idle, b)]]
Ends(e, t) == ext' = [ext EXCEPT ![e].threads = @ \ {t}]

ThreadStep(e, t) ==
  \/ Ends(e, t)
  \/ \E b \in Batches, us \in SUBSET Tasks :
       /\ Hands(e, t, b, us)
       /\ b.req = t.req /\ b.input = t.input /\ b.no = t.no + 1
       /\ ~b.final => b.effect \in {"replace", "append"} /\ b.size = 1 /\ t.no < MaxBatches
       /\ b.size # 0 => b.effect \in {"replace", "append"} /\ (b.no <= MaxBatches \/ b.no = 1)
       /\ \/ us = {}
          \/ \E u \in Tasks :
               us = {u} /\ u.req = t.req /\ u.input = t.input /\ u.no = t.no + 1 /\ ~b.final

LEMMA YieldSteps ==
  ASSUME Types, NEW e \in Exts, NEW t \in ext[e].threads, Yield(e, t)
  PROVE  ThreadStep(e, t)
<1>1. ext \in [Exts -> Processes] /\ ext[e] \in Processes /\ t \in Tasks
  BY DEF Types, Processes
<1>2. CASE Superseded(ext[e], t.input)
  BY <1>2 DEF Yield, ThreadStep, Ends
<1>3. CASE ~Superseded(ext[e], t.input)
  <2>. DEFINE u == [t EXCEPT !.no = @ + 1]
  <2>1. t.no < MaxBatches /\ t.no \in Nat /\ t.no + 1 \in 1..(MaxBatches + 1)
        /\ t.no + 1 \in 0..MaxBatches
    BY <1>1, RequestsAssumption DEF Yield, Tasks
  <2>2. u \in Tasks /\ u.req = t.req /\ u.input = t.input /\ u.no = t.no + 1
    BY <1>1, <2>1 DEF Tasks
  <2>3. PICK effect \in {"append", "replace"} :
          ext' = [ext EXCEPT ![e] = [Queue(ext[e], t, Batch(t, effect, u.no, 1, FALSE, NoExt))
                                       EXCEPT !.threads = @ \cup {u}]]
    BY <1>3 DEF Yield
  <2>. DEFINE b == Batch(t, effect, u.no, 1, FALSE, NoExt)
  <2>4. /\ b \in Batches /\ b.req = t.req /\ b.input = t.input /\ b.no = t.no + 1
        /\ b.effect = effect /\ b.size = 1 /\ ~b.final
    <3>1. effect \in Responses /\ u.no \in 1..(MaxBatches + 1)
      BY <2>1, <2>2 DEF Responses
    <3>2. b = [req |-> t.req, input |-> t.input, effect |-> effect, no |-> u.no, size |-> 1,
               final |-> FALSE, query |-> NoExt]
      BY DEF Batch
    <3>. HIDE DEF u, b
    <3>3. b \in Batches
      BY <1>1, <3>1, <3>2 DEF Batches, Tasks, Places
    <3>4. b.final = FALSE
      BY <3>2
    <3>5. /\ b.req = t.req /\ b.input = t.input /\ b.no = u.no
          /\ b.effect = effect /\ b.size = 1
      BY <3>2
    <3>. QED  BY <2>2, <3>3, <3>4, <3>5
  <2>. HIDE DEF u, b
  <2>5. ext' = [ext EXCEPT ![e] = [Queue(ext[e], t, b) EXCEPT !.threads = @ \cup {u}]]
    BY <2>3 DEF b
  <2>6. Hands(e, t, b, {u})
    <3>1. [Queue(ext[e], t, b) EXCEPT !.threads = @ \cup {u}]
            = [ext[e] EXCEPT !.threads = (ext[e].threads \ {t}) \cup {u},
                             !.idle = Append(ext[e].idle, b)]
      <4>. DEFINE x == ext[e]
      <4>1. x \in Processes
        BY <1>1
      <4>. HIDE DEF x
      <4>2. [Queue(x, t, b) EXCEPT !.threads = @ \cup {u}]
              = [x EXCEPT !.threads = (x.threads \ {t}) \cup {u}, !.idle = Append(x.idle, b)]
        BY <4>1 DEF Queue, Processes
      <4>. QED  BY <4>2 DEF x
    <3>. QED  BY <2>5, <3>1, Zenon DEF Hands
  <2>. QED  BY <2>1, <2>2, <2>4, <2>6 DEF ThreadStep
<1>. QED  BY <1>2, <1>3

LEMMA EndStreamSteps ==
  ASSUME Types, NEW e \in Exts, NEW t \in ext[e].threads, EndStream(e, t)
  PROVE  ThreadStep(e, t)
<1>1. ext \in [Exts -> Processes] /\ ext[e] \in Processes /\ t \in Tasks
  BY DEF Types, Processes
<1>. DEFINE effect == IF t.no > 0 THEN "append" ELSE "replace"
            b == Batch(t, effect, t.no + 1, 0, TRUE, NoExt)
<1>2. t.no \in Nat /\ t.no + 1 \in 1..(MaxBatches + 1)
  BY <1>1, RequestsAssumption DEF Tasks
<1>3. effect \in Responses /\ 0 \in 0..1 /\ NoExt \in Places
  BY DEF Responses, Places
<1>. HIDE DEF effect
<1>4. /\ b \in Batches /\ b.req = t.req /\ b.input = t.input /\ b.no = t.no + 1
      /\ b.size = 0 /\ b.final
  <2>1. b = [req |-> t.req, input |-> t.input, effect |-> effect, no |-> t.no + 1, size |-> 0,
             final |-> TRUE, query |-> NoExt]
    BY DEF Batch
  <2>. HIDE DEF b
  <2>2. b \in Batches
    BY <1>1, <1>2, <1>3, <2>1 DEF Batches, Tasks
  <2>3. b.final = TRUE
    BY <2>1
  <2>4. b.req = t.req /\ b.input = t.input /\ b.no = t.no + 1 /\ b.size = 0
    BY <2>1
  <2>. QED  BY <2>2, <2>3, <2>4
<1>5. ext' = [ext EXCEPT ![e] = Queue(@, t, b)]
  BY DEF EndStream, effect
<1>. HIDE DEF b
<1>6. Hands(e, t, b, {})
  <2>1. Queue(ext[e], t, b) = [ext[e] EXCEPT !.threads = (ext[e].threads \ {t}) \cup {},
                                             !.idle = Append(ext[e].idle, b)]
    <3>1. (ext[e].threads \ {t}) \cup {} = ext[e].threads \ {t}
      OBVIOUS
    <3>. QED  BY <3>1 DEF Queue
  <2>2. ext' = [ext EXCEPT ![e] = Queue(ext[e], t, b)]
    BY <1>5
  <2>. QED  BY <2>1, <2>2, Zenon DEF Hands
<1>. QED  BY <1>4, <1>6 DEF ThreadStep

LEMMA ReturnSteps ==
  ASSUME Types, NEW e \in Exts, NEW t \in ext[e].threads, Return(e, t)
  PROVE  ThreadStep(e, t)
<1>1. ext \in [Exts -> Processes] /\ ext[e] \in Processes /\ t \in Tasks /\ t.no = 0
  BY DEF Types, Processes, Return
<1>2. PICK effect \in Effects, size \in 0..1, q \in Exts \cup {NoExt} :
       /\ t.input # 0 => effect \in {"replace", "nothing"}
       /\ effect # "replace" => size = 0
       /\ effect # "query" => q = NoExt
       /\ ext' = [ext EXCEPT ![e] = Queue(@, t, Batch(t, effect, 1, size, TRUE, q))]
  BY DEF Return
<1>. DEFINE b == Batch(t, effect, 1, size, TRUE, q)
<1>3. /\ effect \in Responses /\ q \in Places /\ 1 \in 1..(MaxBatches + 1)
  BY RequestsAssumption DEF Responses, Places
<1>4. /\ b \in Batches /\ b.req = t.req /\ b.input = t.input /\ b.no = 1
      /\ b.size = size /\ b.final /\ b.effect = effect
  <2>1. b = [req |-> t.req, input |-> t.input, effect |-> effect, no |-> 1, size |-> size,
             final |-> TRUE, query |-> q]
    BY DEF Batch
  <2>. HIDE DEF b
  <2>2. b \in Batches
    BY <1>1, <1>3, <2>1 DEF Batches, Tasks
  <2>3. b.final = TRUE
    BY <2>1
  <2>4. /\ b.req = t.req /\ b.input = t.input /\ b.no = 1 /\ b.size = size
        /\ b.effect = effect
    BY <2>1
  <2>. QED  BY <2>2, <2>3, <2>4
<1>5. ext' = [ext EXCEPT ![e] = Queue(@, t, b)]
  BY <1>2
<1>. HIDE DEF b
<1>6. Hands(e, t, b, {})
  <2>1. Queue(ext[e], t, b) = [ext[e] EXCEPT !.threads = (ext[e].threads \ {t}) \cup {},
                                             !.idle = Append(ext[e].idle, b)]
    <3>1. (ext[e].threads \ {t}) \cup {} = ext[e].threads \ {t}
      OBVIOUS
    <3>. QED  BY <3>1 DEF Queue
  <2>2. ext' = [ext EXCEPT ![e] = Queue(ext[e], t, b)]
    BY <1>5
  <2>. QED  BY <2>1, <2>2, Zenon DEF Hands
<1>. QED  BY <1>1, <1>2, <1>4, <1>6 DEF ThreadStep

LEMMA ThreadSteps ==
  ASSUME Types, NEW e \in Exts, Threads(e)
  PROVE  /\ \E t \in ext[e].threads : ThreadStep(e, t)
         /\ UNCHANGED <<app, toExt, toApp, late, known, starts>>
<1>1. PICK t \in ext[e].threads : Yield(e, t) \/ EndStream(e, t) \/ Return(e, t) \/ Raise(e, t)
  BY DEF Threads
<1>2. ThreadStep(e, t)
  <2>1. CASE Raise(e, t)
    BY <2>1 DEF Raise, ThreadStep, Ends
  <2>. QED  BY <1>1, <2>1, YieldSteps, EndStreamSteps, ReturnSteps
<1>. QED  BY <1>1, <1>2 DEF Yield, EndStream, Return, Raise

LEMMA ThreadStepTypes ==
  ASSUME Types, NEW e \in Exts, NEW t \in ext[e].threads, ThreadStep(e, t)
  PROVE  ext' \in [Exts -> Processes]
<1>1. ext \in [Exts -> Processes] /\ ext[e] \in Processes /\ t \in Tasks
  BY DEF Types, Processes
<1>2. CASE Ends(e, t)
  <2>1. [ext[e] EXCEPT !.threads = @ \ {t}] \in Processes
    BY <1>1 DEF Processes
  <2>. QED  BY <2>1, <1>1, <1>2 DEF Ends
<1>3. CASE \E b \in Batches, us \in SUBSET Tasks : Hands(e, t, b, us)
  <2>1. PICK b \in Batches, us \in SUBSET Tasks : Hands(e, t, b, us)
    BY <1>3
  <2>2. Append(ext[e].idle, b) \in Seq(Batches)
    BY <1>1, AppendProperties DEF Processes
  <2>3. [ext[e] EXCEPT !.threads = (ext[e].threads \ {t}) \cup us,
                       !.idle = Append(ext[e].idle, b)] \in Processes
    BY <1>1, <2>2 DEF Processes
  <2>. QED  BY <2>1, <2>3, <1>1 DEF Hands
<1>. QED  BY <1>2, <1>3 DEF ThreadStep

\* The steps that the socket's and the service's callbacks take in the app.
LEMMA ReloadsAgain ==
  ASSUME NEW a \in Apps
  PROVE  LET b == [a EXCEPT !.reloads = @ + 1]
         IN  b \in Apps /\ SameAsks(a, b) /\ b.screen = a.screen
<1>1. a.reloads + 1 \in Nat
  BY DEF Apps
<1>. QED  BY <1>1 DEF Apps, SameAsks

LEMMA ErroredTypes ==
  ASSUME Types, NEW e \in Exts, app' = Errored(app, e)
  PROVE  app' \in Apps
<1>1. app \in Apps
  BY DEF Types
<1>. QED  BY <1>1, ErroredForgets DEF Forgets

LEMMA ReadEventTypes ==
  ASSUME Types, NEW e \in Exts, ReadEvent(e)
  PROVE  Types'
<1>1. /\ ext \in [Exts -> Processes] /\ toExt \in [Exts -> Seq(Events)]
      /\ toApp \in [Exts -> Seq(Messages)] /\ ext[e] \in Processes /\ toExt[e] \in Seq(Events)
  BY DEF Types
<1>2. Head(toExt[e]) \in Events /\ Tail(toExt[e]) \in Seq(Events)
  BY <1>1, HeadTailProperties DEF ReadEvent
<1>3. toExt' \in [Exts -> Seq(Events)]
  BY <1>1, <1>2 DEF ReadEvent
<1>4. ext' \in [Exts -> Processes] /\ toApp' \in [Exts -> Seq(Messages)]
  <2>. DEFINE ev == Head(toExt[e])
  <2>1. CASE ev.type = "input"
    <3>1. ext' = [ext EXCEPT ![e].debounce = ev.req] /\ toApp' = toApp
      BY <2>1 DEF ReadEvent
    <3>2. ev.req \in 0..MaxAsks
      BY <1>2, RequestsAssumption DEF Events, Reqs
    <3>. HIDE DEF ev
    <3>3. [ext[e] EXCEPT !.debounce = ev.req] \in Processes
      BY <1>1, <3>2 DEF Processes
    <3>. QED  BY <1>1, <3>1, <3>3
  <2>2. CASE ev.type # "input"
    <3>1. DoTriggerEvent(e, ext[e], ev)
      BY <2>2 DEF ReadEvent
    <3>. QED  BY <1>1, <1>2, <3>1, DoTriggerEventTypes
  <2>. QED  BY <2>1, <2>2
<1>. QED  BY <1>3, <1>4 DEF ReadEvent, Types

LEMMA DebouncedEvent ==
  ASSUME Types, NEW e \in Exts, ext[e].debounce # 0
  PROVE  /\ Event("input", ext[e].debounce, Trigger(e)) \in Events
         /\ Event("input", ext[e].debounce, Trigger(e)).req = ext[e].debounce
         /\ Event("input", ext[e].debounce, Trigger(e)).type = "input"
         /\ [ext[e] EXCEPT !.debounce = 0] \in Processes
<1>1. ext[e] \in Processes
  BY DEF Types
<1>2. ext[e].debounce \in Reqs /\ Trigger(e) \in Results
  BY <1>1, RequestsAssumption, TriggerIsResult DEF Processes, Reqs
<1>3. [ext[e] EXCEPT !.debounce = 0] \in Processes
  <2>1. 0 \in 0..MaxAsks
    BY RequestsAssumption
  <2>. QED  BY <1>1, <2>1 DEF Processes
<1>. DEFINE ev == Event("input", ext[e].debounce, Trigger(e))
<1>4. ev = [type |-> "input", req |-> ext[e].debounce, item |-> Trigger(e)]
  BY DEF Event
<1>. HIDE DEF ev
<1>5. "input" \in Kinds
  BY DEF Kinds
<1>6. ev \in Events /\ ev.req = ext[e].debounce /\ ev.type = "input"
  BY <1>2, <1>4, <1>5 DEF Events
<1>. QED  BY <1>3, <1>6 DEF ev

LEMMA DebouncedTypes ==
  ASSUME Types, NEW e \in Exts, Debounced(e)
  PROVE  Types'
<1>1. ext' \in [Exts -> Processes] /\ toApp' \in [Exts -> Seq(Messages)]
  BY DebouncedEvent, DoTriggerEventTypes DEF Debounced, Types
<1>. QED  BY <1>1 DEF Debounced, Types

LEMMA SendIdleFacts ==
  ASSUME Types, NEW e \in Exts, SendIdle(e)
  PROVE  /\ Head(ext[e].idle) \in Batches /\ [ext[e] EXCEPT !.idle = Tail(@)] \in Processes
         /\ Tail(ext[e].idle) \in Seq(Batches)
<1>1. ext[e] \in Processes /\ ext[e].idle \in Seq(Batches)
  BY DEF Types, Processes
<1>2. Head(ext[e].idle) \in Batches /\ Tail(ext[e].idle) \in Seq(Batches)
  BY <1>1, HeadTailProperties DEF SendIdle
<1>. QED  BY <1>1, <1>2 DEF Processes

LEMMA SendIdleTypes ==
  ASSUME Types, NEW e \in Exts, SendIdle(e)
  PROVE  Types'
<1>1. ext' \in [Exts -> Processes] /\ toApp' \in [Exts -> Seq(Messages)]
  BY SendIdleFacts, SendResponseTypes DEF SendIdle, Types
<1>. QED  BY <1>1 DEF SendIdle, Types

LEMMA CloseSocketTypes ==
  ASSUME Types, NEW e \in Exts, CloseSocket(e)
  PROVE  /\ ext' \in [Exts -> Processes] /\ toExt' \in [Exts -> Seq(Events)]
         /\ toApp' \in [Exts -> Seq(Messages)] /\ late' \in [Exts -> Seq(Messages)]
<1>1. /\ ext \in [Exts -> Processes] /\ toExt \in [Exts -> Seq(Events)]
      /\ toApp \in [Exts -> Seq(Messages)] /\ late \in [Exts -> Seq(Messages)]
  BY DEF Types
<1>2. <<>> \in Seq(Events) /\ <<>> \in Seq(Messages)
  OBVIOUS
<1>3. PICK n \in 0..Len(toApp[e]) :
        late' = [late EXCEPT ![e] = @ \o SubSeq(toApp[e], 1, n)]
  BY DEF CloseSocket
<1>4. SubSeq(toApp[e], 1, n) \in Seq(Messages)
  <2>1. Len(toApp[e]) \in Nat /\ \A i \in 1..Len(toApp[e]) : toApp[e][i] \in Messages
    BY <1>1, LenProperties, ElementOfSeq
  <2>2. n \in Int /\ 1 \in Int /\ \A i \in 1..n : toApp[e][i] \in Messages
    BY <2>1
  <2>. QED  BY <2>2, SubSeqProperties
<1>5. late[e] \o SubSeq(toApp[e], 1, n) \in Seq(Messages)
  BY <1>1, <1>4, ConcatProperties
<1>6. late' \in [Exts -> Seq(Messages)]
  BY <1>1, <1>3, <1>5
<1>. QED  BY <1>1, <1>2, <1>6, FreshTypes DEF CloseSocket

LEMMA ServiceTypes ==
  ASSUME Types, NEW e \in Exts, StartExt(e) \/ StopExt(e) \/ Crash(e) \/ HandleExit(e)
  PROVE  Types'
<1>1. CASE StartExt(e)
  <2>1. app' \in Apps
    <3>1. [app EXCEPT !.reloads = @ + 1] \in Apps
      BY ReloadsAgain DEF Types
    <3>. QED  BY <1>1, <3>1, ErroredTypes DEF StartExt, Types
  <2>2. ext' \in [Exts -> Processes]
    BY <1>1, FreshTypes DEF StartExt, Types
  <2>3. starts' \in [Exts -> Nat] /\ \A x \in Exts : starts'[x] <= MaxStarts[x]
    <3>3. /\ starts[e] \in Nat /\ MaxStarts[e] \in Nat /\ starts[e] > 0
          /\ starts[e] <= MaxStarts[e]
      BY <1>1, RequestsAssumption DEF StartExt, Types
    <3>1. starts[e] - 1 \in Nat /\ starts[e] - 1 <= MaxStarts[e]
      BY <3>3
    <3>2. starts' = [starts EXCEPT ![e] = starts[e] - 1]
      BY <1>1 DEF StartExt
    <3>. QED  BY <3>1, <3>2 DEF Types
  <2>. QED  BY <1>1, <2>1, <2>2, <2>3 DEF StartExt, Types
<1>2. CASE StopExt(e)
  <2>1. known' \subseteq Exts
    BY <1>2 DEF StopExt, Types
  <2>. QED  BY <1>2, <2>1, CloseSocketTypes DEF StopExt, Types
<1>3. CASE Crash(e)
  <2>1. ext' \in [Exts -> Processes]
    BY <1>3, FreshTypes DEF Crash, Types
  <2>. QED  BY <1>3, <2>1 DEF Crash, Types
<1>4. CASE HandleExit(e)
  BY <1>4, CloseSocketTypes, ErroredTypes DEF HandleExit, Types
<1>. QED  BY <1>1, <1>2, <1>3, <1>4

LEMMA ReceiveFacts ==
  ASSUME Types, SentInv(app), NEW e \in Exts, Receive(e)
  PROVE  /\ Head(toApp[e]) \in Messages /\ Tail(toApp[e]) \in Seq(Messages)
         /\ ResponseStep(e, Head(toApp[e]))
<1>1. toApp[e] \in Seq(Messages) /\ toApp[e] # <<>>
  BY DEF Types, Receive
<1>2. Head(toApp[e]) \in Messages /\ Tail(toApp[e]) \in Seq(Messages)
  BY <1>1, HeadTailProperties
<1>. QED  BY <1>2, HandleMessageSteps DEF Receive

LEMMA ReceiveLateFacts ==
  ASSUME Types, SentInv(app), NEW e \in Exts, ReceiveLate(e)
  PROVE  /\ Head(late[e]) \in Messages /\ Tail(late[e]) \in Seq(Messages)
         /\ ResponseStep(e, Head(late[e]))
<1>1. late[e] \in Seq(Messages) /\ late[e] # <<>>
  BY DEF Types, ReceiveLate
<1>2. Head(late[e]) \in Messages /\ Tail(late[e]) \in Seq(Messages)
  BY <1>1, HeadTailProperties
<1>. QED  BY <1>2, HandleMessageSteps DEF ReceiveLate

LEMMA StepTypes ==
  ASSUME Types, SentInv(app), [Next]_vars
  PROVE  Types'
<1>1. CASE User \/ ReloadQuery
  BY <1>1, UserSteps, AppStepTypes DEF Types
<1>2. CASE LoadingTimeout
  <2>1. app' \in Apps
    BY <1>2, FinishLoadingForgets DEF LoadingTimeout, Types, Forgets
  <2>. QED  BY <1>2, <2>1 DEF LoadingTimeout, Types
<1>3. ASSUME NEW e \in Exts, Receive(e)
      PROVE  Types'
  <2>1. app' \in Apps /\ toExt' \in [Exts -> Seq(Events)] /\ Tail(toApp[e]) \in Seq(Messages)
    BY <1>3, ReceiveFacts, ResponseStepTypes
  <2>2. toApp' \in [Exts -> Seq(Messages)]
    BY <1>3, <2>1 DEF Receive, Types
  <2>. QED  BY <1>3, <2>1, <2>2 DEF Receive, Types
<1>4. ASSUME NEW e \in Exts, ReceiveLate(e)
      PROVE  Types'
  <2>1. app' \in Apps /\ toExt' \in [Exts -> Seq(Events)] /\ Tail(late[e]) \in Seq(Messages)
    BY <1>4, ReceiveLateFacts, ResponseStepTypes
  <2>2. late' \in [Exts -> Seq(Messages)]
    BY <1>4, <2>1 DEF ReceiveLate, Types
  <2>. QED  BY <1>4, <2>1, <2>2 DEF ReceiveLate, Types
<1>5. ASSUME NEW e \in Exts, Threads(e)
      PROVE  Types'
  <2>1. ext' \in [Exts -> Processes] /\ UNCHANGED <<app, toExt, toApp, late, known, starts>>
    BY <1>5, ThreadSteps, ThreadStepTypes
  <2>. QED  BY <2>1 DEF Types
<1>6. CASE UNCHANGED vars
  BY <1>6 DEF vars, Types
<1>. QED  BY <1>1, <1>2, <1>3, <1>4, <1>5, <1>6, ReadEventTypes, DebouncedTypes, SendIdleTypes,
             ServiceTypes DEF Next

-----------------------------------------------------------------------------
(* What an ask is answered with. *)

LEMMA InitAsks ==
  ASSUME Init
  PROVE  AskInv(app)
<1>1. app \in Apps
  BY InitTypes DEF Types
<1>2. app.sent = <<>> /\ app.ask = 0 /\ app.pending = NoCallback /\ app.got = [a \in Asks |-> <<>>]
  BY DEF Init
<1>3. \A n \in Asks : app.got[n] = <<>>
  BY <1>2
<1>. QED  BY <1>1, <1>2, <1>3, NoExtIsNone DEF AskInv, SentInv, FinalInv, OpenInv, AnswerInv

LEMMA SameKeepsAsks ==
  ASSUME NEW a, NEW b \in Apps, AskInv(a), SameAsks(a, b)
  PROVE  AskInv(b)
BY DEF SameAsks, AskInv, SentInv, FinalInv, OpenInv, AnswerInv

LEMMA ResponseKeepsAsks ==
  ASSUME Types, AskInv(app), NEW e \in Exts, NEW m \in Messages, ResponseStep(e, m)
  PROVE  AskInv(app)'
<1>1. CASE app' = app
  BY <1>1
<1>2. CASE \E r : Responds(app, e, m, r) /\ Becomes(r)
  BY <1>2, RespondsKeepsAsks DEF Becomes
<1>. QED  BY <1>1, <1>2 DEF ResponseStep

LEMMA ErroredKeepsAsks ==
  ASSUME AskInv(app), NEW e \in Exts, app' = Errored(app, e)
  PROVE  AskInv(app)'
BY ErroredForgets, ForgetsKeepsAsks DEF AskInv

LEMMA StepAsks ==
  ASSUME Types, AskInv(app), [Next]_vars
  PROVE  AskInv(app)'
<1>0. SentInv(app) /\ app \in Apps
  BY DEF AskInv
<1>1. CASE User \/ ReloadQuery
  <2>1. PICK r : Goes(app, r, {}) /\ Becomes(r)
    BY <1>0, <1>1, UserSteps DEF AppStep
  <2>. QED  BY <2>1, GoesKeepsAsks DEF Becomes
<1>2. CASE LoadingTimeout
  BY <1>0, <1>2, FinishLoadingForgets, ForgetsKeepsAsks DEF LoadingTimeout
<1>3. ASSUME NEW e \in Exts, Receive(e) \/ ReceiveLate(e)
      PROVE  AskInv(app)'
  BY <1>0, <1>3, ReceiveFacts, ReceiveLateFacts, ResponseKeepsAsks
<1>4. ASSUME NEW e \in Exts, StartExt(e)
      PROVE  AskInv(app)'
  <2>. DEFINE b == [app EXCEPT !.reloads = @ + 1]
  <2>1. b \in Apps /\ SameAsks(app, b)
    BY <1>0, ReloadsAgain
  <2>2. app' = b \/ app' = app \/ app' = Errored(app, e)
    BY <1>4 DEF StartExt
  <2>. HIDE DEF b
  <2>. QED  BY <2>1, <2>2, SameKeepsAsks, ErroredKeepsAsks
<1>5. ASSUME NEW e \in Exts, HandleExit(e)
      PROVE  AskInv(app)'
  BY <1>5, ErroredKeepsAsks DEF HandleExit
<1>6. ASSUME NEW e \in Exts,
             ReadEvent(e) \/ Debounced(e) \/ Threads(e) \/ SendIdle(e) \/ StopExt(e) \/ Crash(e)
      PROVE  AskInv(app)'
  <2>1. app' = app
    BY <1>6, ThreadSteps DEF ReadEvent, Debounced, SendIdle, StopExt, Crash
  <2>. QED  BY <2>1
<1>7. CASE UNCHANGED vars
  BY <1>7 DEF vars
<1>. QED  BY <1>1, <1>2, <1>3, <1>4, <1>5, <1>6, <1>7 DEF Next

LEMMA SpecAsks == Spec => [](Types /\ AskInv(app))
<1>1. Init => Types /\ AskInv(app)
  BY InitTypes, InitAsks
<1>2. Types /\ AskInv(app) /\ [Next]_vars => (Types /\ AskInv(app))'
  BY StepTypes, StepAsks DEF AskInv
<1>. QED  BY <1>1, <1>2, PTL DEF Spec

\* However responses, late lines, timeouts and failures to start race, no
\* callback that ExtensionMode holds is called again after its final answer.
THEOREM FinalAnswerIsLast == Spec => []AnsweredOnce
<1>1. Types /\ AskInv(app) => AnsweredOnce
  <2>. SUFFICES ASSUME Types, AskInv(app), NEW n \in Asks
                PROVE  \A i \in DOMAIN app.got[n] : app.got[n][i].final => i = Len(app.got[n])
    BY DEF AnsweredOnce
  <2>1. app.got[n] \in Seq(Answers)
    BY AppTypes DEF AskInv
  <2>. QED  BY <2>1, LenProperties DEF AskInv, FinalInv
<1>. QED  BY <1>1, SpecAsks, PTL

\* The callback of a query or activation that ExtensionMode sent is never given
\* the response to another one: handle_message compares no more than the id of
\* the request sent last, and that is enough for every ask that was sent.
THEOREM SentAskGetsItsAnswer == Spec => []AnswersItsAsk
<1>1. Types /\ AskInv(app) => AnswersItsAsk
  <2>. SUFFICES ASSUME Types, AskInv(app), NEW n \in Asks, NEW r \in DOMAIN app.sent,
                       app.sent[r] = n
                PROVE  \A i \in DOMAIN app.got[n] : app.got[n][i].of \in {0, n}
    BY DEF AnswersItsAsk, Sent
  <2>1. app.got[n] \in Seq(Answers) /\ app.sent \in Seq(Asks)
    BY AppTypes DEF AskInv
  <2>. QED  BY <2>1, LenProperties DEF AskInv, AnswerInv
<1>. QED  BY <1>1, SpecAsks, PTL
=============================================================================
