--------------------------- MODULE QueryPipeline ----------------------------
(***************************************************************************)
(* The query pipeline of the launcher: the input of the window, the core   *)
(* (core.py) that routes a query to a mode, the buffer that coalesces      *)
(* streamed batches (result_buffer.py), the list on screen and its         *)
(* selection (results_view.py), and the effects results have               *)
(* (effect_utils.py).                                                      *)
(*                                                                         *)
(* Handlers call one another synchronously, so the state is one record,    *)
(* "ui", and a method is an operator from a record to the record it leaves *)
(* behind.  Modes are the extensions (which answer later, in batches), the *)
(* shortcuts and the file browser (which answer at once).                  *)
(***************************************************************************)
EXTENDS Naturals, Sequences, FiniteSets

CONSTANTS
  Queries,     \* the queries without leading whitespace, "" excluded
  Typed,       \* the texts an entry can hold, or somebody asks for
  Stripped,    \* each of them without its leading whitespace
  Keywords,    \* keywords both extensions and shortcuts may claim
  KeywordOf,   \* the keyword a query starts with, or None
  Prefix,      \* the query that is a keyword and a space
  FileQueries, \* the queries the file browser matches
  Parent,      \* the query backspace leaves in the file browser, or None
  Matching,    \* the searches that match a trigger
  Limit,       \* the number of results shown (the jump keys)
  MaxBatches   \* batches in one stream

None == "none"
Ext == "extensions"
Short == "shortcuts"
Files == "files"
Claimers == {Ext, Short}
Modes == {Ext, Short, Files}
Texts == Queries \cup {""}

ASSUME QueryAssumption ==
  /\ "" \notin Queries /\ None \notin Keywords
  /\ KeywordOf \in [Queries -> Keywords \cup {None}]
  /\ Prefix \in [Keywords -> Queries]
  /\ FileQueries \subseteq Queries /\ Matching \subseteq Queries
  /\ Parent \in [FileQueries -> FileQueries \cup {None}]
ASSUME TypedAssumption ==
  /\ Texts \subseteq Typed
  /\ Stripped \in [Typed -> Texts]
  /\ \A q \in Texts : Stripped[q] = q
ASSUME LimitAssumption == Limit \in Nat \ {0} /\ MaxBatches \in Nat

VARIABLE ui

Kinds == {"app", "launch", "keyword", "fallback", "shortcut", "file",
          "opener", "ext", "error", "action", "loading"}
Names == Kinds \X Nat
Item(kind, n) == [kind |-> kind, n |-> n, of |-> None, name |-> <<kind, n>>]
Items == [kind : Kinds, n : Nat, of : Kinds \cup {None}, name : Names]
Loading == Item("loading", 0)
Searchable(item) == item.kind \in {"app", "launch", "keyword"}
HasActions(item) == item.kind \in {"app", "launch", "fallback", "shortcut", "file",
                                "opener", "ext"}

\* The actions of a result, and what a result or an action is about.
ActionsOf(item) == [n \in 1..2 |-> [Item("action", n) EXCEPT !.of = item.kind]]
About(item) == IF item.kind = "action" THEN item.of ELSE item.kind

NoBatch == [n |-> 0, append |-> FALSE, results |-> <<>>]
NoView == [items |-> <<>>, query |-> "", index |-> 1, picked |-> FALSE]
NoRequest == [on |-> FALSE, valid |-> None]

UiTypeOK ==
  /\ ui.main \in {"none", "new", "ready"}
  /\ ui.text \in Texts /\ ui.input \in Typed /\ ui.query \in Texts
  /\ ui.mode \in Modes \cup {None}
  /\ {ui.loading, ui.buffered, ui.painted, ui.appending, ui.throttle,
      ui.answered, ui.filled, ui.enabled, ui.resume} \subseteq BOOLEAN
  /\ ui.buffer \in Seq(Items)
  /\ ui.view.items \in Seq(Items) /\ Len(ui.view.items) <= Limit
  /\ ui.view.index \in 1..(Len(ui.view.items) + 1) /\ ui.view.picked \in BOOLEAN
  /\ ui.view.items # <<>> => ui.view.index <= Len(ui.view.items)
  /\ ui.pending \in [on : BOOLEAN, valid : {Ext, None}]
  /\ ui.claims \in [Claimers -> SUBSET Keywords] /\ ui.offers \in [Claimers -> SUBSET Keywords]
  /\ ui.last.n \in 0..MaxBatches + 1

-----------------------------------------------------------------------------
(* ResultsView. *)

First(seq) == SubSeq(seq, 1, IF Len(seq) < Limit THEN Len(seq) ELSE Limit)

Smallest(found) == CHOOSE i \in found : \A j \in found : i <= j

\* _index_for_name: the first searchable result with the name picked before.
IndexFor(items, pick) ==
  LET found == {i \in DOMAIN items : Searchable(items[i]) /\ items[i].name = pick}
  IN IF found = {} THEN 1 ELSE Smallest(found)

\* Mutant: a replaced list starts at its default, whatever the user picked.
ReplaceResultsFresh(v, results, pick) ==
  [v EXCEPT !.items = First(results), !.picked = FALSE,
            !.index = IndexFor(First(results), pick)]

\* _replace_results and _apply_selection: the pick of the user moves along, to
\* the first result that has its name.
ReplaceResults(v, results, pick) ==
  LET items == First(results)
      kept == {i \in DOMAIN items : v.picked /\ v.items # <<>>
                                       /\ items[i].name = v.items[v.index].name}
  IN [v EXCEPT !.items = items, !.picked = kept # {},
               !.index = IF kept # {} THEN Smallest(kept) ELSE IndexFor(items, pick)]

\* Mutant: the limit holds for each batch, not for the list.
AppendResultsAll(v, results, pick) ==
  LET items == v.items \o First(results)
  IN [v EXCEPT !.items = items, !.index = IF v.picked THEN @ ELSE IndexFor(items, pick)]

AppendResults(v, results, pick) ==
  LET items == First(v.items \o results)
  IN IF items = v.items THEN v
     ELSE [v EXCEPT !.items = items,
                    !.index = IF v.picked THEN @ ELSE IndexFor(items, pick)]

RenderView(v, results, query, pick, append) ==
  LET v1 == IF query = v.query THEN v ELSE [v EXCEPT !.query = query, !.picked = FALSE]
  IN IF append /\ v.items # <<>> THEN AppendResults(v1, results, pick)
                                 ELSE ReplaceResults(v1, results, pick)

-----------------------------------------------------------------------------
(* Rendering, and the buffer of a stream. *)

\* _render_results, and show_results of the app.
Render(s, results, append) ==
  [s EXCEPT !.loading = FALSE,
            !.view = IF s.main = "none" THEN @
                     ELSE RenderView(@, results, s.query, s.picks[s.query], append)]

ResetBuffer(s) ==
  [s EXCEPT !.buffered = FALSE, !.buffer = <<>>, !.painted = FALSE,
            !.appending = FALSE, !.throttle = FALSE]

\* Every reset but the one of a paint begins another stream.
Reset(s) == [ResetBuffer(s) EXCEPT !.last = NoBatch, !.answered = FALSE]

Paint(s) ==
  IF ~s.buffered THEN s
  ELSE Render([ResetBuffer(s) EXCEPT !.painted = TRUE], s.buffer, s.painted /\ s.appending)

\* Mutant: a batch joins what is buffered without asking whether anything is.
EnqueueJoining(s, results, append, final) ==
  LET s1 == [s EXCEPT !.loading = FALSE, !.answered = TRUE, !.buffered = TRUE,
                      !.buffer = IF append THEN @ \o results ELSE results,
                      !.appending = IF append THEN @ ELSE append,
                      !.last = [n |-> @.n + 1, append |-> append, results |-> results]]
  IN IF final THEN Paint(s1) ELSE [s1 EXCEPT !.throttle = TRUE]

Enqueue(s, results, append, final) ==
  LET joins == append /\ s.buffered
      s1 == [s EXCEPT !.loading = FALSE, !.answered = TRUE,
                      !.buffered = TRUE,
                      !.buffer = IF joins THEN @ \o results ELSE results,
                      !.appending = IF joins THEN @ ELSE append,
                      !.last = [n |-> @.n + 1, append |-> append, results |-> results]]
  IN IF final THEN Paint(s1) ELSE [s1 EXCEPT !.throttle = TRUE]

-----------------------------------------------------------------------------
(* UlauncherCore: triggers and queries. *)

\* Mutant: what the modes that are up to date claimed is not looked at.
LoadTriggersUnclaimed(s, force, first) ==
  LET outdated == {m \in Claimers : force \/ (m = Ext /\ ~s.filled)}
      taken(m) == IF m # first /\ first \in outdated THEN s.offers[first] ELSE {}
  IN [s EXCEPT !.claims = [m \in Claimers |->
                             IF m \in outdated THEN s.offers[m] \ taken(m) ELSE s.claims[m]],
               !.filled = IF Ext \in outdated THEN s.offers[Ext] # {} ELSE @,
               !.enabled = IF Ext \in outdated THEN s.offers[Ext] # {} ELSE @]

\* load_triggers: modes that are not outdated keep what they claimed; "first"
\* is the outdated mode the set iterates over first.
LoadTriggers(s, force, first) ==
  LET outdated == {m \in Claimers : force \/ (m = Ext /\ ~s.filled)}
      taken(m) == (UNION {s.claims[o] : o \in Claimers \ outdated})
                  \cup (IF m # first /\ first \in outdated THEN s.offers[first] ELSE {})
  IN [s EXCEPT !.claims = [m \in Claimers |->
                             IF m \in outdated THEN s.offers[m] \ taken(m) ELSE s.claims[m]],
               !.filled = IF Ext \in outdated THEN s.offers[Ext] # {} ELSE @,
               !.enabled = IF Ext \in outdated THEN s.offers[Ext] # {} ELSE @]

Home == <<Item("app", 1)>>
Fallback == <<Item("fallback", 1)>>

\* search_triggers, and the fallback results if nothing matches.
Search(s) ==
  IF s.query \notin Matching THEN Fallback
  ELSE <<Item("app", 1)>>
       \o (IF s.enabled THEN <<Item("launch", 1)>> ELSE <<>>)
       \o (IF s.claims[Ext] \cup s.claims[Short] # {} THEN <<Item("keyword", 1)>> ELSE <<>>)

ModeFor(s, q) ==
  IF \E m \in Claimers : KeywordOf[q] \in s.claims[m]
    THEN CHOOSE m \in Claimers : KeywordOf[q] \in s.claims[m]
    ELSE IF q \in FileQueries THEN Files ELSE None

\* ExtensionMode.handle_query: its own trigger cache is refreshed, and may
\* know the keyword no more; the answer comes later.
AskExtension(s) ==
  LET s1 == [s EXCEPT !.filled = @ \/ s.offers[Ext] # {}]
  IN IF KeywordOf[s.query] \in s.offers[Ext]
       THEN [s1 EXCEPT !.pending = [on |-> TRUE, valid |-> Ext]]
       ELSE Enqueue(s1, <<Item("error", 1)>>, FALSE, TRUE)

\* ShortcutMode.handle_query, which raises if the shortcut is gone: nothing
\* is rendered and the placeholder is not coming either.
AskShortcut(s) ==
  IF KeywordOf[s.query] \in s.offers[Short]
    THEN Enqueue(s, <<Item("shortcut", 1)>>, FALSE, TRUE)
    ELSE [s EXCEPT !.loading = FALSE]

\* FileBrowserMode.handle_query: what is in a directory.
AskFiles(s) == Enqueue(s, <<Item("file", 1), Item("file", 2)>>, FALSE, TRUE)

\* Mutant: the placeholder is scheduled once the mode has been asked.
HandleChangeLate(s) ==
  LET s1 == Reset(s)
      s2 == LoadTriggers(s1, FALSE, Ext)
  IN CASE s.mode = Ext -> [AskExtension(s1) EXCEPT !.loading = TRUE]
       [] s.mode = Short -> [AskShortcut(s1) EXCEPT !.loading = TRUE]
       [] s.mode = Files -> [AskFiles(s1) EXCEPT !.loading = TRUE]
       [] OTHER -> Render(s2, Search(s2), FALSE)

\* handle_change
HandleChange(s) ==
  LET s1 == [Reset(s) EXCEPT !.loading = s.mode # None]
      s2 == LoadTriggers(s1, FALSE, Ext)
  IN CASE s.mode = Ext -> AskExtension(s1)
       [] s.mode = Short -> AskShortcut(s1)
       [] s.mode = Files -> AskFiles(s1)
       [] OTHER -> Render(s2, Search(s2), FALSE)

\* set_query
SetQuery(s, q) ==
  IF q = ""
    THEN Render(Reset([s EXCEPT !.mode = None, !.query = ""]), Home, FALSE)
    ELSE HandleChange([s EXCEPT !.mode = ModeFor(s, q), !.query = q])

\* query_changed: the entry keeps its leading whitespace, the query does not.
InputChanged(s, q) ==
  SetQuery([s EXCEPT !.input = q, !.text = Stripped[q]], Stripped[q])

\* app:set_query: the entry only signals a text that is different.
AppSetQuery(s, q) ==
  LET text == Stripped[q]
  IN IF s.main # "none" /\ s.input # text THEN InputChanged(s, text)
                                          ELSE [s EXCEPT !.text = text]

-----------------------------------------------------------------------------
(* The window. *)

\* show_launcher: a query that was kept is set as input while the window is
\* not registered yet, so nothing is shown until deferred_init.
OpenMain(s) ==
  IF s.main # "none" THEN s
  ELSE LET s1 == IF s.text = "" THEN s ELSE SetQuery(s, s.text)
       IN [s1 EXCEPT !.main = "new", !.input = s.text, !.view = NoView]

CloseMain(s, save) ==
  IF s.main = "none" THEN s
  ELSE [s EXCEPT !.text = IF save /\ s.resume THEN @ ELSE "",
                 !.main = "none", !.input = "", !.view = NoView]

\* Mutant: only the triggers that are known to have changed are loaded.
BecomeReadyLazy(s, first) ==
  SetQuery(LoadTriggers([s EXCEPT !.main = "ready"], FALSE, first), s.text)

\* Mutant: the query that was set while the window was built is relied upon.
BecomeReadyUnasked(s, first) == LoadTriggers([s EXCEPT !.main = "ready"], TRUE, first)

\* deferred_init and window_ready
BecomeReady(s, first) ==
  SetQuery(LoadTriggers([s EXCEPT !.main = "ready"], TRUE, first), s.text)

-----------------------------------------------------------------------------
(* Effects. *)

RenderEffect(results, append, final) ==
  [type |-> "render", results |-> results, append |-> append, final |-> final]
SetQueryEffect(q) == [type |-> "set_query", query |-> q]
Nothing == [type |-> "nothing"]
CloseEffect == [type |-> "close"]

\* _mode_callback
Callback(s, valid, effect) ==
  LET s1 == [s EXCEPT !.loading = FALSE]
  IN CASE valid \notin {s.mode, None} -> s
       [] effect.type = "render" -> Enqueue(s1, effect.results, effect.append, effect.final)
       [] effect.type = "set_query" -> AppSetQuery(s1, effect.query)
       [] effect.type = "close" -> CloseMain(s1, FALSE)
       [] OTHER -> s1

\* What the activation of a result may do: which mode handles it is known,
\* which action is chosen is not.  A mode does nothing with results that are
\* not its own.
AppOutcomes == {CloseEffect}
ShortcutOutcomes == {CloseEffect, Nothing}
FileOutcomes == {CloseEffect, Nothing, RenderEffect(<<Item("opener", 1)>>, FALSE, TRUE)}
                \cup {SetQueryEffect(q) : q \in FileQueries}
Outcomes(mode, item) ==
  CASE mode = "apps" -> AppOutcomes
    [] mode = Short /\ About(item) \in {"fallback", "shortcut"} -> ShortcutOutcomes
    [] mode = Files /\ About(item) = "file" -> FileOutcomes
    [] mode = Files /\ About(item) = "opener" -> {CloseEffect, Nothing}
    [] OTHER -> {Nothing}

\* _remember_pick
Remember(s, item) ==
  IF s.query # "" /\ Searchable(item) THEN [s EXCEPT !.picks[s.query] = item.name] ELSE s

\* _mode_map: ordinary results of a mode are not in it.
HandlerOf(s, item) ==
  CASE About(item) = "app" -> "apps"
    [] About(item) = "launch" -> Ext
    [] About(item) = "fallback" -> Short
    [] OTHER -> s.mode
=============================================================================
