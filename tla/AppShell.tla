------------------------------ MODULE AppShell ------------------------------
(***************************************************************************)
(* The application (ui/app.py) around the query pipeline: the launcher and *)
(* the preferences window, the hold that keeps the app running in the      *)
(* background, quitting a second after the last window closed, and the     *)
(* D-Bus actions, together with everything the user, the extensions and    *)
(* the timers do in the meantime.                                          *)
(***************************************************************************)
EXTENDS QueryPipeline

CONSTANT MaxEvents  \* bounds what users, extensions and D-Bus callers do

ASSUME EventsAssumption == MaxEvents \in Nat

VARIABLES
  app,         \* "off", "on" or "quit"
  prefs,       \* whether the preferences window is open
  persistent,  \* whether the app stays without a window
  tray,        \* whether the tray icon is visible
  warm,        \* whether _warm_triggers is scheduled
  quitTimers,  \* delayed quits under way
  closed,      \* history: a window has been closed
  why,         \* history: why the app has quit
  events       \* the events so far

shell == <<app, prefs, persistent, tray, warm, quitTimers, closed, why>>
vars == <<ui, shell, events>>

TypeOK ==
  /\ UiTypeOK
  /\ app \in {"off", "on", "quit"} /\ prefs \in BOOLEAN
  /\ persistent \in BOOLEAN /\ tray \in BOOLEAN /\ warm \in BOOLEAN /\ closed \in BOOLEAN
  /\ quitTimers \in 0..MaxEvents
  /\ why \in {"none", "asked", "timer", "refused"}
  /\ events \in 0..MaxEvents

Event == events < MaxEvents /\ events' = events + 1

MainOpen == ui.main # "none"

\* _on_window_destroyed: called for every window that goes, with the windows
\* that are left.
QuitsLater(windowsLeft) == ~windowsLeft /\ ~persistent
Destroyed(windowsLeft) ==
  /\ quitTimers' = IF QuitsLater(windowsLeft) THEN quitTimers + 1 ELSE quitTimers
  /\ closed' = TRUE

\* A step of the pipeline, which may close the launcher.
Pipeline(next) ==
  /\ app = "on"
  /\ ui' = next
  /\ IF MainOpen /\ next.main = "none" THEN Destroyed(prefs)
                                       ELSE UNCHANGED <<quitTimers, closed>>
  /\ UNCHANGED <<app, prefs, persistent, tray, warm, why>>

-----------------------------------------------------------------------------
(* The user at the launcher. *)

Type(q) ==
  /\ MainOpen /\ q # ui.input
  /\ Event
  /\ Pipeline(InputChanged(ui, q))

\* Only the file browser handles a backspace; otherwise the text is edited.
Backspace ==
  /\ MainOpen /\ ui.mode = Files /\ ui.text \in FileQueries
  /\ Parent[ui.text] # None
  /\ Event
  /\ Pipeline(AppSetQuery([ui EXCEPT !.query = Parent[ui.text]], Parent[ui.text]))

\* Arrow keys, jump keys and the mouse.
Select(i) ==
  /\ MainOpen /\ i \in DOMAIN ui.view.items
  /\ <<i, TRUE>> # <<ui.view.index, ui.view.picked>>
  /\ Event
  /\ Pipeline([ui EXCEPT !.view.index = i, !.view.picked = TRUE])

Active == ui.view.items[ui.view.index]
HasActive == MainOpen /\ ui.view.items # <<>>

\* activate_result of the core: a keyword trigger sets the query.
ActivateKeyword ==
  /\ HasActive /\ Active.kind = "keyword"
  /\ Event
  /\ \E k \in ui.claims[Ext] \cup ui.claims[Short] :
       Pipeline(AppSetQuery(Remember(Reset(ui), Active), Prefix[k]))

\* The actions of a result are a list of their own.
ShowActions ==
  /\ HasActive /\ HasActions(Active)
  /\ Event
  /\ Pipeline(Render(Reset(ui), ActionsOf(Active), FALSE))

\* Anything else goes to the mode the result is mapped to, or the mode that
\* is active by now.  The callback is only validated in the second case.
ActivateResult ==
  /\ HasActive /\ Active.kind # "keyword"
  /\ Event
  /\ LET s == Remember(Reset(ui), Active)
         handler == HandlerOf(s, Active)
         valid == IF handler = s.mode THEN handler ELSE None
     IN IF handler = None \/ (~HasActions(Active) /\ Active.kind # "action") THEN Pipeline(s)
        ELSE IF handler = Ext THEN Pipeline([s EXCEPT !.pending = [on |-> TRUE, valid |-> valid]])
        ELSE \E outcome \in Outcomes(handler, Active) : Pipeline(Callback(s, valid, outcome))

\* Escape, or focus lost.
Leave ==
  /\ MainOpen
  /\ Event
  /\ Pipeline(CloseMain(ui, TRUE))

-----------------------------------------------------------------------------
(* Timers, idle callbacks and extensions. *)

\* _show_placeholder, PLACEHOLDER_DELAY after the query.
ShowPlaceholder ==
  /\ ui.loading
  /\ Pipeline(Render(ui, <<Loading>>, FALSE)) /\ UNCHANGED events

\* _throttled_paint, RENDER_THROTTLE after the first batch.
ThrottledPaint ==
  /\ ui.throttle
  /\ Pipeline(Paint(ui)) /\ UNCHANGED events

\* The extension answers the one request that has a callback (see
\* ExtensionRequests); only a batch that is not final keeps the callback.  Two
\* results of an extension may have one name.
Twin == [Item("ext", 2) EXCEPT !.name = Item("ext", 1).name]
Batches == {<<>>, <<Item("ext", ui.last.n + 1)>>, <<Item("ext", 1), Twin>>}
Answer(effect) ==
  /\ ui.pending.on
  /\ Event
  /\ LET s == Callback(ui, ui.pending.valid, effect)
     IN Pipeline(IF effect.type = "render" /\ ~effect.final THEN s
                 ELSE [s EXCEPT !.pending = NoRequest])

AnswerBatch ==
  /\ ui.last.n < MaxBatches
  /\ \E results \in Batches, append, final \in BOOLEAN :
       Answer(RenderEffect(results, append, final))
AnswerEffect ==
  \/ Answer(Nothing) \/ Answer(CloseEffect)
  \/ \E q \in Typed : Answer(SetQueryEffect(q))

\* deferred_init
WindowReady ==
  /\ ui.main = "new"
  /\ \E first \in Claimers : Pipeline(BecomeReady(ui, first)) /\ UNCHANGED events

\* app:reload_query, once an extension that was waited for has started, in
\* whatever mode the launcher is by then.
ReloadQuery ==
  /\ MainOpen
  /\ Event
  /\ Pipeline(SetQuery(ui, ui.text))

\* An extension with this keyword is enabled or disabled (invalidate_cache);
\* a shortcut is saved or removed, which the triggers do not notice.
TriggersChange(m, k) ==
  /\ Event
  /\ LET offers == IF k \in ui.offers[m] THEN ui.offers[m] \ {k} ELSE ui.offers[m] \cup {k}
     IN Pipeline([ui EXCEPT !.offers[m] = offers, !.filled = @ /\ m # Ext])

WarmTriggers ==
  /\ app = "on" /\ warm
  /\ warm' = FALSE
  /\ \E first \in Claimers :
       ui' = IF MainOpen THEN ui ELSE LoadTriggers(ui, FALSE, first)
  /\ UNCHANGED <<app, prefs, persistent, tray, quitTimers, closed, why, events>>

-----------------------------------------------------------------------------
(* Windows, and the life of the app. *)

\* toggle_tray_icon; "enable" often is what the settings say, which is not
\* modelled.
TrayIs(enable) == tray' = (enable /\ persistent')

\* start and setup; without activation ("ulauncher start --no-window") only
\* the first activation is skipped.
Start(activate) ==
  /\ app = "off"
  /\ app' = "on"
  /\ persistent' \in BOOLEAN
  /\ warm' = persistent'
  /\ \E show \in BOOLEAN : TrayIs(show)
  /\ ui' = IF activate THEN OpenMain(ui) ELSE ui
  /\ UNCHANGED <<prefs, quitTimers, closed, why, events>>

\* Activation, the hotkey, or the D-Bus action.
ShowLauncher ==
  /\ ~MainOpen
  /\ Event
  /\ Pipeline(OpenMain(ui))

\* close_launcher, and the second half of toggle_window.
CloseLauncher ==
  /\ MainOpen
  /\ Event
  /\ Pipeline(CloseMain(ui, FALSE))

\* activate_query: the D-Bus action "set-query".
ActivateQuery(q) ==
  /\ Event
  /\ Pipeline(AppSetQuery(OpenMain(ui), q))

\* The preferences count as a window before the launcher is closed.
ShowPreferences ==
  /\ app = "on" /\ ~prefs
  /\ persistent \/ MainOpen
  /\ Event
  /\ prefs' = TRUE
  /\ ui' = CloseMain(ui, TRUE)
  /\ IF MainOpen THEN Destroyed(TRUE) ELSE UNCHANGED <<quitTimers, closed>>
  /\ UNCHANGED <<app, persistent, tray, warm, why>>

\* Mutant: nobody hears of the preferences going.
ClosePreferencesSilently ==
  /\ app = "on" /\ prefs
  /\ Event
  /\ prefs' = FALSE
  /\ UNCHANGED <<ui, app, persistent, tray, warm, quitTimers, closed, why>>

ClosePreferences ==
  /\ app = "on" /\ prefs
  /\ Event
  /\ prefs' = FALSE
  /\ Destroyed(MainOpen)
  /\ UNCHANGED <<ui, app, persistent, tray, warm, why>>

\* Mutant: the tray icon is left as it is.
ToggleHoldOnly ==
  /\ app = "on" /\ prefs
  /\ Event
  /\ persistent' = ~persistent
  /\ UNCHANGED <<ui, app, prefs, tray, warm, quitTimers, closed, why>>

\* app:toggle_hold, from the switches in the preferences.
ToggleHold ==
  /\ app = "on" /\ prefs
  /\ Event
  /\ persistent' = ~persistent
  /\ \E show \in BOOLEAN : TrayIs(show)
  /\ UNCHANGED <<ui, app, prefs, warm, quitTimers, closed, why>>

\* The switch in the preferences, or the D-Bus action "toggle-tray-icon".
ToggleTray ==
  /\ app = "on" /\ persistent
  /\ Event
  /\ UNCHANGED <<ui, app, prefs, persistent, warm, quitTimers, closed, why>>
  /\ TrayIs(~tray)

Quit(reason) ==
  /\ app' = "quit" /\ why' = reason
  /\ UNCHANGED <<ui, prefs, persistent, tray, warm, closed>>

\* The timer of _on_window_destroyed: a window may be open again.
\* Mutant: only the launcher counts.
StillUnneededByLauncher == ~MainOpen

StillUnneeded == ~MainOpen /\ ~prefs
DelayedQuit ==
  /\ app = "on" /\ quitTimers > 0
  /\ quitTimers' = quitTimers - 1
  /\ IF StillUnneeded THEN Quit("timer")
     ELSE UNCHANGED <<ui, app, prefs, persistent, tray, warm, closed, why>>
  /\ UNCHANGED events

\* SIGTERM, the tray icon, or show_preferences with nothing to show them for.
QuitNow ==
  /\ app = "on"
  /\ \/ Quit("asked")
     \/ ~persistent /\ ~MainOpen /\ ~prefs /\ Quit("refused")
  /\ UNCHANGED <<quitTimers, events>>

-----------------------------------------------------------------------------
Init ==
  /\ \E resume \in BOOLEAN, offers \in [Claimers -> SUBSET Keywords] :
       ui = [main |-> "none", text |-> "", input |-> "", mode |-> None, query |-> "",
             loading |-> FALSE, answered |-> FALSE, pending |-> NoRequest,
             buffered |-> FALSE, buffer |-> <<>>, painted |-> FALSE,
             appending |-> FALSE, throttle |-> FALSE, last |-> NoBatch,
             view |-> NoView, picks |-> [q \in Texts |-> Loading.name],
             claims |-> [m \in Claimers |-> {}], offers |-> offers,
             filled |-> FALSE, enabled |-> FALSE, resume |-> resume]
  /\ app = "off" /\ prefs = FALSE /\ persistent = FALSE /\ tray = FALSE /\ warm = FALSE
  /\ quitTimers = 0 /\ closed = FALSE /\ why = "none"
  /\ events = 0

Next ==
  \/ \E q \in Typed : Type(q)
  \/ Backspace \/ ActivateKeyword \/ ShowActions \/ ActivateResult \/ Leave
  \/ \E i \in 1..Limit : Select(i)
  \/ ShowPlaceholder \/ ThrottledPaint \/ AnswerBatch \/ AnswerEffect
  \/ WindowReady \/ ReloadQuery \/ WarmTriggers
  \/ \E m \in Claimers, k \in Keywords : TriggersChange(m, k)
  \/ \E activate \in BOOLEAN : Start(activate)
  \/ ShowLauncher \/ CloseLauncher \/ ShowPreferences \/ ClosePreferences
  \/ \E q \in Typed : ActivateQuery(q)
  \/ ToggleHold \/ ToggleTray \/ DelayedQuit \/ QuitNow

Spec == Init /\ [][Next]_vars

-----------------------------------------------------------------------------
(* Properties. *)

\* What a user sees of a stream, now or with the next paint, is what its
\* batches add up to.
List ==
  IF ui.main # "ready" THEN <<>>
  ELSE IF ~ui.buffered THEN (IF ui.painted THEN ui.view.items ELSE <<>>)
  ELSE First(IF ui.painted /\ ui.appending THEN ui.view.items \o ui.buffer ELSE ui.buffer)
Stream == INSTANCE ResultList WITH open <- ui.main = "ready", last <- ui.last, list <- List
StreamsAddUp == Stream!Spec

\* "Loading..." is never drawn over an answer, and what was answered replaces
\* it with the next paint.
LoadingGivesWay ==
  ui.main = "ready" /\ ui.answered /\ ui.view.items = <<Loading>> => ui.throttle

\* The text in the entry, up to its leading whitespace, the query of the app
\* and the query of the core are one, whoever sets it: the user, a result,
\* backspace or D-Bus, with windows closed and opened in between.
OneQuery ==
  /\ MainOpen => Stripped[ui.input] = ui.text
  /\ ui.main = "ready" => ui.query = ui.text

\* A step that is not the user's own moving of the selection, in a window that
\* has one, with the query unchanged.
Selecting == ui' = [ui EXCEPT !.view = ui'.view] /\ ui'.view.items = ui.view.items
Unasked ==
  /\ ui.main = "ready" /\ ui'.main = "ready"
  /\ ui.view.picked /\ ui.view.items # <<>> /\ ui'.view.query = ui.view.query
  /\ ~Selecting

\* A selection the user made stays with its name while batches, placeholders
\* and reloads of the same query come in: as long as a result of that name is
\* listed, one is selected, and by the user.
PickStays ==
  [][Unasked /\ (\E i \in DOMAIN ui'.view.items : ui'.view.items[i].name = Active.name) =>
       ui'.view.picked /\ ui'.view.items[ui'.view.index].name = Active.name]_vars

\* No keyword belongs to two modes, so that a query has one.
KeywordsUnique == ui.claims[Ext] \cap ui.claims[Short] = {}

\* When the launcher is ready every keyword that is offered works.
KeywordsComplete ==
  [][ui.main = "new" /\ ui'.main = "ready" =>
       ui'.claims[Ext] \cup ui'.claims[Short] = ui'.offers[Ext] \cup ui'.offers[Short]]_vars

\* The app does not quit by itself while a window is open.
NoQuitInUse == why = "timer" => ~MainOpen /\ ~prefs

\* The tray icon offers the preferences, which an app that neither stays nor
\* has a window answers by quitting: it is only there while the app stays.
TrayNeedsHold == tray => persistent

\* Once its windows are closed, an app that is not to stay is about to quit.
NobodyLingers ==
  app = "on" /\ closed /\ ~persistent /\ ~MainOpen /\ ~prefs => quitTimers > 0
=============================================================================
