--------------------------- MODULE ExtensionRequests ---------------------------
(***************************************************************************)
(* The conversation between the launcher and its extensions: ExtensionMode *)
(* in the app, api.extension.Extension in each extension process, and the  *)
(* socket pair between them.  Every query and activation the core hands to *)
(* ExtensionMode is an "ask" with a callback of its own; the numbers of    *)
(* asks are the model's, the request ids are the code's.                   *)
(*                                                                         *)
(* Simplifications: an extension has one handler per kind of event and at  *)
(* most one result per batch; the legacy custom actions are left out;      *)
(* painting is immediate (its throttle is QueryPipeline's).                *)
(***************************************************************************)
EXTENDS Naturals, FiniteSets, SequencesExt

CONSTANTS
  Exts,        \* extensions with a keyword trigger and a launch trigger
  NoExt,       \* no extension: the home list, or no active extension
  Handles,     \* [Exts -> SUBSET Kinds]: the handlers an extension defines
  Effects,     \* what a handler may return
  Streams,     \* the kinds of handlers that may be generators
  MaxAsks,     \* bound on queries and activations
  MaxStarts,   \* [Exts -> Nat]: bound on the starts of each process
  MaxBatches   \* bound on the batches of a stream

Kinds == {"input", "launch", "activate"}

ASSUME RequestsAssumption ==
  /\ NoExt \notin Exts
  /\ Handles \in [Exts -> SUBSET Kinds]
  /\ Effects \subseteq {"replace", "nothing", "close", "query"}
  /\ Streams \subseteq Kinds
  /\ MaxAsks \in Nat /\ MaxStarts \in [Exts -> Nat] /\ MaxBatches \in Nat

VARIABLES
  app,     \* the app: window, core and ExtensionMode
  ext,     \* per extension: its process, from the socket inwards
  toExt,   \* per extension: events written to its socket
  toApp,   \* per extension: responses written to the app's socket
  late,    \* per extension: lines read from a socket since closed
  known,   \* extensions the service resolves
  starts   \* per extension: starts left

vars == <<app, ext, toExt, toApp, late, known, starts>>

Asks == 1..MaxAsks
\* A result, as its request, batch and id; request 0 is a launch trigger.
Items == [ext: Exts, req: 0..MaxAsks, no: 0..(MaxBatches + 1), id: 0..MaxBatches]
Callbacks == [ask: Asks, checked: BOOLEAN]
NoCallback == [ask |-> 0, checked |-> FALSE]
Trigger(e) == [ext |-> e, req |-> 0, no |-> 0, id |-> 0]

\* What a callback was given: the ask it answers (0: a message of the app's
\* own), the batch, and whether it was the last.
Answers == [of: 0..MaxAsks, no: 0..(MaxBatches + 1), final: BOOLEAN]

\* A dead process has exited and its exit is yet to be dispatched.  `served` is
\* the history of _cache_request_id: its last entry is the current value.
Fresh == [state |-> "on", listening |-> TRUE, debounce |-> 0, input |-> 0,
          threads |-> {}, idle |-> <<>>, served |-> <<>>, cache |-> <<>>]
Off == [Fresh EXCEPT !.state = "off"]

Running(e) == ext[e].state # "off"

Init ==
  /\ app = [open |-> TRUE, text |-> NoExt, cur |-> NoExt,
            screen |-> {Trigger(e) : e \in Exts}, ask |-> 0, got |-> [a \in Asks |-> <<>>],
            active |-> NoExt, pending |-> NoCallback, loading |-> FALSE,
            sent |-> <<>>, reloads |-> 0]
  /\ ext = [e \in Exts |-> Off]
  /\ toExt = [e \in Exts |-> <<>>]
  /\ toApp = [e \in Exts |-> <<>>]
  /\ late = [e \in Exts |-> <<>>]
  /\ known = Exts
  /\ starts = MaxStarts

-----------------------------------------------------------------------------
(* The app.  Handlers nest, so they are functions of the app's record;     *)
(* `wrote` is what a handler wrote to the sockets of the extensions.       *)

\* core._render_results and the view: a list replaces or extends the other.
Render(a, items, append) ==
  [a EXCEPT !.screen = IF ~a.open THEN {} ELSE IF append THEN @ \cup items ELSE items]

\* core._callback: the mode the callback was made for must still be active.
Accepts(a, cb) == ~cb.checked \/ a.cur # NoExt

Noted(a, cb, of, no, final) ==
  [a EXCEPT !.got[cb.ask] = Append(@, [of |-> of, no |-> no, final |-> final])]

\* ExtensionMode's own result lists (failed, not available, timed out).
Tell(a, cb) ==
  LET b == Noted(a, cb, 0, 0, TRUE)
  IN  IF Accepts(a, cb) THEN Render(b, {}, FALSE) ELSE b

\* Mutant: the callback outlives the wait it was answered for.
FinishLoadingKeeping(a) ==
  LET b == [a EXCEPT !.loading = FALSE]
  IN  IF a.pending = NoCallback THEN b ELSE Tell(b, a.pending)

FinishLoading(a) ==
  LET b == [a EXCEPT !.loading = FALSE, !.pending = NoCallback]
  IN  IF a.pending = NoCallback THEN b ELSE Tell(b, a.pending)

Event(type, req, item) == [type |-> type, req |-> req, item |-> item]

\* ExtensionMode._send_request, for the active extension.
SendRequest(a, cb, type, item) ==
  IF a.active = NoExt THEN [app |-> a, wrote |-> <<>>]
  ELSE IF ~Running(a.active) THEN [app |-> a, wrote |-> <<>>]
  ELSE [app |-> [a EXCEPT !.pending = cb, !.sent = Append(@, cb.ask)],
        wrote |-> <<Event(type, Len(a.sent) + 1, item)>>]

\* ExtensionMode.handle_query
HandleQuery(a, e, cb) ==
  LET idle == [a EXCEPT !.loading = FALSE]
      b == [idle EXCEPT !.active = e]
  IN  IF e \notin known THEN [app |-> Tell(idle, cb), wrote |-> <<>>]
      ELSE IF ~Running(e)
           THEN [app |-> [b EXCEPT !.pending = cb, !.loading = TRUE], wrote |-> <<>>]
      ELSE SendRequest(b, cb, "input", Trigger(e))

\* app.query_changed, core.set_query: home, or the keyword of an extension.
SetQuery(a, e) ==
  LET b == [a EXCEPT !.text = e, !.cur = e]
      n == a.ask + 1
  IN  IF e = NoExt
      THEN [app |-> Render(b, {Trigger(x) : x \in Exts}, FALSE), wrote |-> <<>>]
      ELSE HandleQuery([b EXCEPT !.ask = n], e, [ask |-> n, checked |-> TRUE])

\* One step of the app that ends in r: its record and what it wrote.
Becomes(r) ==
  /\ app' = r.app
  /\ toExt' = IF r.wrote = <<>> THEN toExt
              ELSE [toExt EXCEPT ![r.app.active] = @ \o r.wrote]

MayAsk == app.ask < MaxAsks

\* The user types: another keyword, or nothing.
Type(e) ==
  /\ app.open
  /\ e # NoExt => MayAsk
  /\ Becomes(SetQuery(app, e))
  /\ UNCHANGED <<ext, toApp, late, known, starts>>

\* core.activate_result.  A result of an extension is not in _mode_map, so it
\* goes to the mode of the query, and from there to the active extension.
Activate(item) ==
  LET n == app.ask + 1
      cb == [ask |-> n, checked |-> app.cur # NoExt]
      a == [app EXCEPT !.ask = n]
      launched == [a EXCEPT !.active = IF item.ext \in known THEN item.ext ELSE NoExt]
  IN  /\ app.open /\ MayAsk
      /\ item \in app.screen
      /\ \/ item.req = 0 /\ Becomes(SendRequest(launched, cb, "launch", item))
         \/ item.req # 0 /\ app.cur # NoExt /\ Becomes(SendRequest(a, cb, "activate", item))
      /\ UNCHANGED <<ext, toApp, late, known, starts>>

\* window.close, by the user: the query is kept (auto_resume) or cleared.
Hide(keep) ==
  /\ app.open
  /\ app' = [app EXCEPT !.open = FALSE, !.screen = {}, !.text = IF keep THEN @ ELSE NoExt]
  /\ UNCHANGED <<ext, toExt, toApp, late, known, starts>>

\* app.show_launcher and window_ready
Show ==
  /\ ~app.open
  /\ app.text # NoExt => MayAsk
  /\ Becomes(SetQuery([app EXCEPT !.open = TRUE], app.text))
  /\ UNCHANGED <<ext, toApp, late, known, starts>>

\* The idle call of app.reload_query that `started` scheduled.
ReloadQuery ==
  LET a == [app EXCEPT !.reloads = @ - 1]
  IN  /\ app.reloads > 0
      /\ app.open /\ app.text # NoExt => MayAsk
      /\ Becomes(IF app.open THEN SetQuery(a, app.text) ELSE [app |-> a, wrote |-> <<>>])
      /\ UNCHANGED <<ext, toApp, late, known, starts>>

\* LOADING_TIMEOUT
LoadingTimeout ==
  /\ app.loading
  /\ app' = FinishLoading(app)
  /\ UNCHANGED <<ext, toExt, toApp, late, known, starts>>

\* What core._callback does with response m of extension e.  The query of a
\* set_query effect is handled before the callback returns, and there is only
\* a launcher to close while it is open.
Apply(a, e, m) ==
  CASE m.effect \in {"replace", "append"} ->
         [app |-> Render(a, {[ext |-> e, req |-> m.req, no |-> m.no, id |-> i] : i \in m.ids},
                         m.effect = "append"),
          wrote |-> <<>>]
    [] m.effect = "close" /\ a.open ->
         [app |-> [a EXCEPT !.open = FALSE, !.screen = {}, !.text = NoExt], wrote |-> <<>>]
    [] m.effect = "query" /\ a.open -> SetQuery(a, m.query)
    [] m.effect = "query" /\ ~a.open -> [app |-> [a EXCEPT !.text = m.query], wrote |-> <<>>]
    [] OTHER -> [app |-> a, wrote |-> <<>>]

\* Mutant: the request id is not compared.
ExpectedAny(a, e, m) == a.active = e /\ a.pending # NoCallback

\* ExtensionMode.handle_message: the response must come from the active
\* extension, for the request sent last, with its callback still pending.
Expected(a, e, m) ==
  a.active = e /\ a.pending # NoCallback /\ m.req = Len(a.sent)

\* ExtensionMode._handle_response.  Only a streamed batch keeps the callback.
HandleResponse(a, e, m) ==
  LET cb == a.pending
      b == Noted(a, cb, a.sent[m.req], m.no, m.final)
      r == IF Accepts(a, cb) THEN Apply(b, e, m) ELSE [app |-> b, wrote |-> <<>>]
  IN  IF m.final THEN [r EXCEPT !.app.pending = NoCallback] ELSE r

HandleMessage(e, m) ==
  /\ m.effect = "query" => MayAsk
  /\ IF Expected(app, e, m) THEN Becomes(HandleResponse(app, e, m))
     ELSE UNCHANGED <<app, toExt>>

Receive(e) ==
  /\ toApp[e] # <<>>
  /\ HandleMessage(e, Head(toApp[e]))
  /\ toApp' = [toApp EXCEPT ![e] = Tail(@)]
  /\ UNCHANGED <<ext, late, known, starts>>

\* Lines the input stream had buffered when its socket was closed.
ReceiveLate(e) ==
  /\ late[e] # <<>>
  /\ HandleMessage(e, Head(late[e]))
  /\ late' = [late EXCEPT ![e] = Tail(@)]
  /\ UNCHANGED <<ext, toApp, known, starts>>

-----------------------------------------------------------------------------
(* The extension process.                                                  *)

Batch(t, effect, no, size, final, query) ==
  [req |-> t.req, input |-> t.input, effect |-> effect, no |-> no, size |-> size,
   final |-> final, query |-> query]

Superseded(x, input) == input # 0 /\ input # x.input

Serves(x, req) == x.served # <<>> /\ Last(x.served) = req

\* Mutants: ids restart with every replace batch, and with no request at all.
AssignIdsPerBatch(x, b) ==
  LET batch == [i \in 1..b.size |-> b.no]
  IN  IF Serves(x, b.req) /\ b.effect = "append" THEN [x EXCEPT !.cache = @ \o batch]
      ELSE [x EXCEPT !.served = IF Serves(x, b.req) THEN @ ELSE Append(@, b.req),
                     !.cache = batch]
AssignIdsOnly(x, b) ==
  [x EXCEPT !.served = Append(@, b.req), !.cache = @ \o [i \in 1..b.size |-> b.no]]

\* Extension._assign_result_ids
AssignIds(x, b) ==
  LET batch == [i \in 1..b.size |-> b.no]
  IN  IF Serves(x, b.req) THEN [x EXCEPT !.cache = @ \o batch]
      ELSE [x EXCEPT !.served = Append(@, b.req), !.cache = batch]

\* Extension._send_response: what is left of the process, and the response.
SendResponse(e, x, b) ==
  LET y == IF b.effect \in {"replace", "append"} THEN AssignIds(x, b) ELSE x
      ids == Len(y.cache) - b.size .. Len(y.cache) - 1
      m == [req |-> b.req, effect |-> b.effect, no |-> b.no, ids |-> ids,
            final |-> b.final, query |-> b.query]
  IN  IF Superseded(x, b.input)
      THEN ext' = [ext EXCEPT ![e] = x] /\ toApp' = toApp
      ELSE ext' = [ext EXCEPT ![e] = y] /\ toApp' = [toApp EXCEPT ![e] = Append(@, m)]

\* Extension._do_trigger_event.  A result id that is not in the cache raises
\* out of the socket's read callback, which then does not read on.
DoTriggerEvent(e, x, ev) ==
  LET input == IF ev.type = "input" THEN x.input + 1 ELSE 0
      y == [x EXCEPT !.input = IF input # 0 THEN input ELSE @]
      t == [req |-> ev.req, kind |-> ev.type, input |-> input, no |-> 0]
  IN  IF ev.type = "activate" /\ ev.item.id >= Len(x.cache)
      THEN ext' = [ext EXCEPT ![e] = [x EXCEPT !.listening = FALSE]] /\ toApp' = toApp
      ELSE IF ev.type \notin Handles[e]
      THEN SendResponse(e, y, Batch(t, "nothing", 1, 0, TRUE, NoExt))
      ELSE ext' = [ext EXCEPT ![e] = [y EXCEPT !.threads = @ \cup {t}]] /\ toApp' = toApp

\* Client.on_message, Extension.trigger_event: an input waits for its debounce.
ReadEvent(e) ==
  LET ev == Head(toExt[e])
  IN  /\ ext[e].state = "on" /\ ext[e].listening
      /\ toExt[e] # <<>>
      /\ toExt' = [toExt EXCEPT ![e] = Tail(@)]
      /\ IF ev.type = "input"
         THEN ext' = [ext EXCEPT ![e].debounce = ev.req] /\ toApp' = toApp
         ELSE DoTriggerEvent(e, ext[e], ev)
      /\ UNCHANGED <<app, late, known, starts>>

Debounced(e) ==
  /\ ext[e].debounce # 0
  /\ DoTriggerEvent(e, [ext[e] EXCEPT !.debounce = 0],
                    Event("input", ext[e].debounce, Trigger(e)))
  /\ UNCHANGED <<app, toExt, late, known, starts>>

\* A listener thread queues a response on the main loop.
Queue(x, t, b) == [x EXCEPT !.threads = @ \ {t}, !.idle = Append(@, b)]

\* Extension._stream_response: one batch, or the end of a superseded stream.
Yield(e, t) ==
  /\ t.kind \in Streams /\ t.no < MaxBatches
  /\ IF Superseded(ext[e], t.input)
     THEN ext' = [ext EXCEPT ![e].threads = @ \ {t}]
     ELSE \E effect \in {"append", "replace"} :
            LET u == [t EXCEPT !.no = @ + 1]
                x == Queue(ext[e], t, Batch(t, effect, u.no, 1, FALSE, NoExt))
            IN  ext' = [ext EXCEPT ![e] = [x EXCEPT !.threads = @ \cup {u}]]
  /\ UNCHANGED <<app, toExt, toApp, late, known, starts>>

EndStream(e, t) ==
  /\ t.kind \in Streams
  /\ ext' = [ext EXCEPT ![e] = Queue(@, t, Batch(t, IF t.no > 0 THEN "append" ELSE "replace",
                                                t.no + 1, 0, TRUE, NoExt))]
  /\ UNCHANGED <<app, toExt, toApp, late, known, starts>>

\* Extension.run_event_listener: one response.  An input may only render.
Return(e, t) ==
  /\ t.no = 0
  /\ \E effect \in Effects, size \in 0..1, q \in Exts \cup {NoExt} :
       /\ t.input # 0 => effect \in {"replace", "nothing"}
       /\ effect # "replace" => size = 0
       /\ effect # "query" => q = NoExt
       /\ ext' = [ext EXCEPT ![e] = Queue(@, t, Batch(t, effect, 1, size, TRUE, q))]
  /\ UNCHANGED <<app, toExt, toApp, late, known, starts>>

\* The handler raises: the thread ends without a response.
Raise(e, t) ==
  /\ ext' = [ext EXCEPT ![e].threads = @ \ {t}]
  /\ UNCHANGED <<app, toExt, toApp, late, known, starts>>

\* Mutant: the newest response goes first.
SendIdleLast(e) ==
  /\ ext[e].idle # <<>>
  /\ SendResponse(e, [ext[e] EXCEPT !.idle = Front(@)], Last(ext[e].idle))
  /\ UNCHANGED <<app, toExt, late, known, starts>>

SendIdle(e) ==
  /\ ext[e].idle # <<>>
  /\ SendResponse(e, [ext[e] EXCEPT !.idle = Tail(@)], Head(ext[e].idle))
  /\ UNCHANGED <<app, toExt, late, known, starts>>

-----------------------------------------------------------------------------
(* The process as ExtensionService starts and stops it.                    *)

\* ExtensionMode.errored
Errored(a, e) ==
  IF a.active # e THEN a
  ELSE IF a.loading THEN FinishLoading(a)
  ELSE [a EXCEPT !.pending = NoCallback]

\* The app closes its end: only what was read already can still arrive.
CloseSocket(e) ==
  /\ ext' = [ext EXCEPT ![e] = Off]
  /\ \E n \in 0..Len(toApp[e]) : late' = [late EXCEPT ![e] = @ \o SubSeq(toApp[e], 1, n)]
  /\ toApp' = [toApp EXCEPT ![e] = <<>>]
  /\ toExt' = [toExt EXCEPT ![e] = <<>>]

\* start_extension, and ExtensionMode.started
StartExt(e) ==
  /\ ext[e].state = "off" /\ e \in known /\ starts[e] > 0
  /\ starts' = [starts EXCEPT ![e] = @ - 1]
  /\ \/ /\ ext' = [ext EXCEPT ![e] = Fresh]
        /\ app' = IF app.active = e THEN [app EXCEPT !.reloads = @ + 1] ELSE app
     \/ ext' = ext /\ app' = Errored(app, e)
  /\ UNCHANGED <<toExt, toApp, late, known>>

StopExt(e) ==
  /\ ext[e].state = "on"
  /\ CloseSocket(e)
  /\ known' \in {known, known \ {e}}
  /\ UNCHANGED <<app, starts>>

Crash(e) ==
  /\ ext[e].state = "on"
  /\ ext' = [ext EXCEPT ![e] = [Off EXCEPT !.state = "dead"]]
  /\ UNCHANGED <<app, toExt, toApp, late, known, starts>>

HandleExit(e) ==
  /\ ext[e].state = "dead"
  /\ CloseSocket(e)
  /\ app' = Errored(app, e)
  /\ UNCHANGED <<known, starts>>

-----------------------------------------------------------------------------

User ==
  \/ \E e \in Exts \cup {NoExt} : Type(e)
  \/ \E item \in Items : Activate(item)
  \/ \E keep \in BOOLEAN : Hide(keep)
  \/ Show

Threads(e) ==
  \E t \in ext[e].threads : Yield(e, t) \/ EndStream(e, t) \/ Return(e, t) \/ Raise(e, t)

Next ==
  \/ User
  \/ ReloadQuery
  \/ LoadingTimeout
  \/ \E e \in Exts :
       \/ Receive(e) \/ ReceiveLate(e)
       \/ ReadEvent(e) \/ Debounced(e) \/ Threads(e) \/ SendIdle(e)
       \/ StartExt(e) \/ StopExt(e) \/ Crash(e) \/ HandleExit(e)

Spec == Init /\ [][Next]_vars

-----------------------------------------------------------------------------

\* Types of the app, the processes and the channels between them.
TypeOK ==
  /\ app.open \in BOOLEAN /\ app.loading \in BOOLEAN
  /\ {app.text, app.cur, app.active} \subseteq Exts \cup {NoExt}
  /\ app.screen \subseteq Items
  /\ app.ask \in 0..MaxAsks /\ app.reloads \in Nat
  /\ app.got \in [Asks -> Seq(Answers)]
  /\ app.pending \in Callbacks \cup {NoCallback}
  /\ app.sent \in Seq(Asks) /\ Len(app.sent) <= app.ask
  /\ \A e \in Exts :
       /\ ext[e].state \in {"off", "on", "dead"}
       /\ ext[e].debounce \in 0..Len(app.sent)
       /\ ext[e].served \in Seq(1..Len(app.sent))
       /\ starts[e] \in 0..MaxStarts[e]
  /\ known \subseteq Exts

Sent(a) == \E r \in DOMAIN app.sent : app.sent[r] = a

\* A callback is never called again after its final answer: not by a second
\* response, a late one, the loading timeout, or a failure to start.
AnsweredOnce ==
  \A a \in Asks : \A i \in DOMAIN app.got[a] : app.got[a][i].final => i = Len(app.got[a])

\* A stream reaches its callback in the order it was yielded, and without gaps
\* as long as nothing else is asked, whatever other handlers run beside it.
\* (An ask that only makes another extension active drops what arrives then.)
StreamInOrder ==
  \A a \in Asks : \A i \in DOMAIN app.got[a] :
    app.got[a][i].of = a =>
      /\ \A j \in 1..i - 1 : app.got[a][j].of = a => app.got[a][j].no < app.got[a][i].no
      /\ a = app.ask => app.got[a][i].no = i

\* An ask that was sent to an extension is answered with that ask's response,
\* never with one to another query or activation.
AnswersItsAsk ==
  \A a \in Asks : Sent(a) => \A i \in DOMAIN app.got[a] : app.got[a][i].of \in {0, a}

\* While an extension serves the request of a result on screen, and answered
\* none between its batches, the id of the result resolves to that result,
\* however its stream was rendered.
VisibleResultsResolve ==
  \A item \in app.screen :
    LET x == ext[item.ext]
        once == \A i \in DOMAIN x.served : x.served[i] = item.req => i = Len(x.served)
    IN  Serves(x, item.req) /\ once =>
          item.id < Len(x.cache) /\ x.cache[item.id + 1] = item.no

\* While the last query of the user waits to be read by a running extension,
\* the callback its answer is for is pending.
InputKeepsCallback ==
  \A e \in Exts : \A i \in DOMAIN toExt[e] :
    LET event == toExt[e][i]
    IN  ext[e].state = "on" /\ event.type = "input" /\ event.req = Len(app.sent)
          /\ Last(app.sent) = app.ask
        => app.pending.ask = app.ask
=============================================================================
