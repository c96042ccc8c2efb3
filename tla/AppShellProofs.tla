---------------------------- MODULE AppShellProofs ----------------------------
(***************************************************************************)
(* Proofs about the launcher and the life of the app, for any queries,     *)
(* keywords, limit and number of events.                                   *)
(*                                                                         *)
(* The first part needs nothing of the query pipeline (NoWindowLost,       *)
(* TrayIsOfHeldApp).  The second is about lists, views and the methods of  *)
(* the pipeline, record by record: what each leaves of the texts, the      *)
(* keywords and the stream.  A method that starts over "Begins" a stream,  *)
(* a batch is taken by one ("Takes"), and every step "Goes" from one       *)
(* record that satisfies PipelineInv to another, as ResultList allows,     *)
(* or moves the selection of the user ("Steps").                           *)
(***************************************************************************)
EXTENDS AppShell, SequenceTheorems, WellFoundedInduction, TLAPS

\* The app starts off, and why it has quit is known once it has.
LifeInv ==
  /\ why # "none" => app = "quit"
  /\ why = "timer" => ~MainOpen /\ ~prefs

LEMMA InitLife == Init => LifeInv
BY DEF Init, LifeInv

\* Nothing happens to the reason while the app is on, unless it quits.
LEMMA OnKeepsLife ==
  ASSUME LifeInv, app # "quit", UNCHANGED why
  PROVE  LifeInv'
BY DEF LifeInv

LEMMA PipelineKeepsLife ==
  ASSUME LifeInv, NEW next, Pipeline(next)
  PROVE  LifeInv'
BY OnKeepsLife DEF Pipeline

\* The actions that are a step of the pipeline.
LEMMA UserKeepsLife ==
  ASSUME LifeInv,
         \/ \E q \in Typed : Type(q)
         \/ Backspace \/ ActivateKeyword \/ ShowActions \/ ActivateResult \/ Leave
         \/ \E i \in 1..Limit : Select(i)
         \/ \E q \in Typed : ActivateQuery(q)
         \/ ShowLauncher \/ CloseLauncher
  PROVE  LifeInv'
<1>1. \E next : Pipeline(next)
  BY DEF Type, Backspace, ActivateKeyword, ShowActions, ActivateResult, Leave, Select,
         ActivateQuery, ShowLauncher, CloseLauncher
<1>. QED  BY <1>1, PipelineKeepsLife

LEMMA LoopKeepsLife ==
  ASSUME LifeInv,
         \/ ShowPlaceholder \/ ThrottledPaint \/ AnswerBatch \/ AnswerEffect
         \/ WindowReady \/ ReloadQuery
         \/ \E m \in Claimers, k \in Keywords : TriggersChange(m, k)
  PROVE  LifeInv'
<1>1. \E next : Pipeline(next)
  BY DEF ShowPlaceholder, ThrottledPaint, AnswerBatch, AnswerEffect, Answer, WindowReady,
         ReloadQuery, TriggersChange
<1>. QED  BY <1>1, PipelineKeepsLife

\* The timer looks at the windows in the step in which it quits.
LEMMA QuitKeepsLife ==
  ASSUME LifeInv, DelayedQuit \/ QuitNow
  PROVE  LifeInv'
<1>1. CASE DelayedQuit /\ StillUnneeded
  BY <1>1 DEF DelayedQuit, StillUnneeded, Quit, LifeInv, MainOpen
<1>2. CASE DelayedQuit /\ ~StillUnneeded
  BY <1>2, OnKeepsLife DEF DelayedQuit
<1>3. CASE QuitNow
  BY <1>3 DEF QuitNow, Quit, LifeInv
<1>. QED  BY <1>1, <1>2, <1>3

LEMMA StepKeepsLife ==
  ASSUME LifeInv, [Next]_vars
  PROVE  LifeInv'
<1>1. CASE \/ WarmTriggers \/ ShowPreferences \/ ClosePreferences \/ ToggleHold \/ ToggleTray
           \/ \E activate \in BOOLEAN : Start(activate)
  BY <1>1, OnKeepsLife
     DEF WarmTriggers, ShowPreferences, ClosePreferences, ToggleHold, ToggleTray, Start
<1>2. CASE UNCHANGED vars
  BY <1>2 DEF vars, shell, LifeInv, MainOpen
<1>. QED  BY <1>1, <1>2, UserKeepsLife, LoopKeepsLife, QuitKeepsLife DEF Next

\* The delayed quit of _on_window_destroyed never takes a window with it that
\* was opened, or opened again, during the second it waits.
THEOREM NoWindowLost == Spec => []NoQuitInUse
<1>1. LifeInv => NoQuitInUse
  BY DEF LifeInv, NoQuitInUse
<1>. QED  BY <1>1, InitLife, StepKeepsLife, PTL DEF Spec

-----------------------------------------------------------------------------

LEMMA InitTray == Init => TrayNeedsHold
BY DEF Init, TrayNeedsHold

\* What neither sets the hold nor the tray icon.
LEMMA StutterKeepsTray ==
  ASSUME TrayNeedsHold, UNCHANGED <<tray, persistent>>
  PROVE  TrayNeedsHold'
BY DEF TrayNeedsHold

LEMMA PipelineKeepsTray ==
  ASSUME TrayNeedsHold, NEW next, Pipeline(next)
  PROVE  TrayNeedsHold'
BY StutterKeepsTray DEF Pipeline

\* toggle_tray_icon asks the hold as it is by then.
LEMMA TrayIsHeld ==
  ASSUME NEW enable, TrayIs(enable)
  PROVE  TrayNeedsHold'
BY Zenon DEF TrayIs, TrayNeedsHold

LEMMA StepKeepsTray ==
  ASSUME TrayNeedsHold, [Next]_vars
  PROVE  TrayNeedsHold'
<1>1. CASE \/ \E q \in Typed : Type(q)
           \/ Backspace \/ ActivateKeyword \/ ShowActions \/ ActivateResult \/ Leave
           \/ \E i \in 1..Limit : Select(i)
           \/ \E q \in Typed : ActivateQuery(q)
           \/ ShowLauncher \/ CloseLauncher
  <2>1. \E next : Pipeline(next)
    BY <1>1 DEF Type, Backspace, ActivateKeyword, ShowActions, ActivateResult, Leave, Select,
                ActivateQuery, ShowLauncher, CloseLauncher
  <2>. QED  BY <2>1, PipelineKeepsTray
<1>2. CASE \/ ShowPlaceholder \/ ThrottledPaint \/ AnswerBatch \/ AnswerEffect
           \/ WindowReady \/ ReloadQuery
           \/ \E m \in Claimers, k \in Keywords : TriggersChange(m, k)
  <2>1. \E next : Pipeline(next)
    BY <1>2 DEF ShowPlaceholder, ThrottledPaint, AnswerBatch, AnswerEffect, Answer,
                WindowReady, ReloadQuery, TriggersChange
  <2>. QED  BY <2>1, PipelineKeepsTray
<1>3. CASE ToggleHold \/ ToggleTray \/ \E activate \in BOOLEAN : Start(activate)
  BY <1>3, TrayIsHeld DEF ToggleHold, ToggleTray, Start
<1>4. CASE WarmTriggers \/ ShowPreferences \/ ClosePreferences \/ DelayedQuit \/ QuitNow
  BY <1>4, StutterKeepsTray
     DEF WarmTriggers, ShowPreferences, ClosePreferences, DelayedQuit, QuitNow, Quit
<1>5. CASE UNCHANGED vars
  BY <1>5, StutterKeepsTray DEF vars, shell
<1>. QED  BY <1>1, <1>2, <1>3, <1>4, <1>5 DEF Next

\* However the hold and the icon are switched, in whatever order, there is no
\* tray icon of an app that does not stay (toggle_hold, toggle_tray_icon).
THEOREM TrayIsOfHeldApp == Spec => []TrayNeedsHold
BY InitTray, StepKeepsTray, PTL DEF Spec

-----------------------------------------------------------------------------
(* Lists and views. *)

\* A set of numbers that is not empty has a least one.
LEMMA Least ==
  ASSUME NEW S \in SUBSET Nat, S # {}
  PROVE  \E i \in S : \A j \in S : i <= j
<1>. DEFINE R == OpToRel(<, Nat)
<1>1. IsWellFoundedOn(R, Nat)
  BY NatLessThanWellFounded
<1>2. \A x, y \in Nat : x < y => <<x, y>> \in R
  BY DEF OpToRel
<1>. HIDE DEF R
<1>3. PICK i \in S : \A j \in S : ~(<<j, i>> \in R)
  BY <1>1, WFMin
<1>4. \A j \in S : ~(j < i)
  BY <1>2, <1>3
<1>. QED  BY <1>4

\* What is shown of a list, for whatever it is a list of.
LEMMA FirstFacts ==
  ASSUME NEW S, NEW r \in Seq(S)
  PROVE  /\ First(r) \in Seq(S)
         /\ Len(First(r)) = IF Len(r) < Limit THEN Len(r) ELSE Limit
         /\ \A i \in 1..Len(First(r)) : First(r)[i] = r[i]
         /\ Len(r) <= Limit => First(r) = r
<1>. DEFINE n == IF Len(r) < Limit THEN Len(r) ELSE Limit
<1>1. Len(r) \in Nat /\ n \in 0..Len(r)
  BY LimitAssumption
<1>2. \A i \in 1..n : r[i] \in S
  BY <1>1
<1>3. /\ SubSeq(r, 1, n) \in Seq(S) /\ Len(SubSeq(r, 1, n)) = n
      /\ \A i \in 1..n : SubSeq(r, 1, n)[i] = r[i]
  BY <1>1, <1>2
<1>4. Len(r) <= Limit => SubSeq(r, 1, n) = r
  <2>. SUFFICES ASSUME Len(r) <= Limit PROVE SubSeq(r, 1, n) = r
    OBVIOUS
  <2>1. n = Len(r)
    BY <1>1, LimitAssumption
  <2>. QED  BY <2>1, SubSeqFull
<1>. QED  BY <1>3, <1>4 DEF First

LEMMA SameList ==
  ASSUME NEW S, NEW r \in Seq(S), NEW t \in Seq(S), Len(r) = Len(t),
         \A i \in 1..Len(r) : r[i] = t[i]
  PROVE  r = t
BY SeqEqual

\* Cutting a list before more is appended changes nothing of what is shown.
LEMMA FirstOfFirst ==
  ASSUME NEW S, NEW r \in Seq(S), NEW t \in Seq(S)
  PROVE  First(First(r) \o t) = First(r \o t)
<1>. DEFINE f == First(r)
<1>1. /\ f \in Seq(S) /\ Len(f) = (IF Len(r) < Limit THEN Len(r) ELSE Limit)
      /\ \A i \in 1..Len(f) : f[i] = r[i]
      /\ Len(r) <= Limit => f = r
  BY FirstFacts
<1>. HIDE DEF f
<1>2. Len(r) \in Nat /\ Len(t) \in Nat /\ Len(f) \in Nat
  BY <1>1
<1>3. CASE Len(r) <= Limit
  BY <1>1, <1>3 DEF f
<1>4. CASE ~(Len(r) <= Limit)
  <2>1. Len(f) = Limit /\ Limit \in Nat /\ Limit < Len(r)
    BY <1>1, <1>2, <1>4, LimitAssumption
  <2>2. /\ f \o t \in Seq(S) /\ Len(f \o t) = Len(f) + Len(t)
        /\ \A i \in 1..Len(f) : (f \o t)[i] = f[i]
    <3>1. f \in Seq(S)
      BY <1>1
    <3>. QED  BY <3>1, ConcatProperties
  <2>3. /\ r \o t \in Seq(S) /\ Len(r \o t) = Len(r) + Len(t)
        /\ \A i \in 1..Len(r) : (r \o t)[i] = r[i]
    BY ConcatProperties
  <2>. DEFINE a == f \o t
              b == r \o t
  <2>4. /\ First(a) \in Seq(S) /\ Len(First(a)) = Limit
        /\ \A i \in 1..Len(First(a)) : First(a)[i] = a[i]
    <3>1. a \in Seq(S) /\ ~(Len(a) < Limit)
      BY <1>2, <2>1, <2>2
    <3>. HIDE DEF a
    <3>. QED  BY <3>1, FirstFacts
  <2>5. /\ First(b) \in Seq(S) /\ Len(First(b)) = Limit
        /\ \A i \in 1..Len(First(b)) : First(b)[i] = b[i]
    <3>1. b \in Seq(S) /\ ~(Len(b) < Limit)
      BY <1>2, <2>1, <2>3
    <3>. HIDE DEF b
    <3>. QED  BY <3>1, FirstFacts
  <2>6. \A i \in 1..Limit : a[i] = b[i]
    <3>. SUFFICES ASSUME NEW i \in 1..Limit PROVE a[i] = b[i]
      OBVIOUS
    <3>1. i \in 1..Len(f) /\ i \in 1..Len(r)
      BY <1>2, <2>1
    <3>. QED  BY <1>1, <2>2, <2>3, <3>1
  <2>. HIDE DEF a, b
  <2>7. First(a) = First(b)
    BY <2>4, <2>5, <2>6, SameList
  <2>. QED  BY <2>7 DEF a, b, f
<1>. QED  BY <1>3, <1>4

Views == [items: Seq(Items), query: Texts, index: Nat, picked: BOOLEAN]

\* A view that can be shown: the selection is on the list.
Fits(v) ==
  /\ v \in Views /\ Len(v.items) <= Limit
  /\ v.index \in 1..(Len(v.items) + 1)
  /\ v.items # <<>> => v.index <= Len(v.items)
  /\ v.picked => v.items # <<>>

LEMMA NoViewFits == Fits(NoView)
<1>1. <<>> \in Seq(Items) /\ Len(<<>>) = 0
  BY EmptySeq
<1>2. NoView \in Views
  BY <1>1 DEF NoView, Views, Texts
<1>3. NoView.items = <<>> /\ NoView.index = 1 /\ NoView.picked = FALSE
  BY DEF NoView
<1>. QED  BY <1>1, <1>2, <1>3, LimitAssumption DEF Fits

LEMMA IndexForFacts ==
  ASSUME NEW items \in Seq(Items), NEW pick
  PROVE  /\ IndexFor(items, pick) \in Nat
         /\ IndexFor(items, pick) \in 1..(Len(items) + 1)
         /\ items # <<>> => IndexFor(items, pick) <= Len(items)
<1>. DEFINE found == {i \in DOMAIN items : Searchable(items[i]) /\ items[i].name = pick}
<1>1. Len(items) \in Nat /\ DOMAIN items = 1..Len(items) /\ (items # <<>> => Len(items) # 0)
  BY EmptySeq, LenProperties
<1>2. CASE found = {}
  <2>1. IndexFor(items, pick) = 1
    BY <1>2 DEF IndexFor
  <2>. QED  BY <1>1, <2>1
<1>3. CASE found # {}
  <2>1. found \in SUBSET Nat /\ \A i \in found : i \in 1..Len(items)
    BY <1>1
  <2>2. IndexFor(items, pick) = CHOOSE i \in found : \A j \in found : i <= j
    BY <1>3 DEF IndexFor, Smallest
  <2>. HIDE DEF found
  <2>3. \E i \in found : \A j \in found : i <= j
    BY <1>3, <2>1, Least
  <2>4. IndexFor(items, pick) \in 1..Len(items)
    BY <2>1, <2>2, <2>3
  <2>. HIDE DEF found
  <2>. QED  BY <1>1, <2>4
<1>. QED  BY <1>2, <1>3

LEMMA ReplaceFacts ==
  ASSUME NEW v, Fits(v), NEW r \in Seq(Items), NEW pick, NEW w, w = ReplaceResults(v, r, pick)
  PROVE  /\ Fits(w) /\ w.items = First(r) /\ w.query = v.query
         /\ v.picked /\ (\E i \in DOMAIN w.items : w.items[i].name = v.items[v.index].name)
              => w.picked /\ w.items[w.index].name = v.items[v.index].name
<1>. DEFINE items == First(r)
            kept == {i \in DOMAIN items : v.picked /\ v.items # <<>>
                                             /\ items[i].name = v.items[v.index].name}
            index == IF kept # {} THEN CHOOSE i \in kept : \A j \in kept : i <= j
                     ELSE IndexFor(items, pick)
<1>1. v \in Views /\ v.query \in Texts /\ Limit \in Nat
  BY LimitAssumption DEF Fits, Views
<1>2. items \in Seq(Items) /\ Len(items) <= Limit
  BY <1>1, FirstFacts
<1>3. w = [v EXCEPT !.items = items, !.picked = kept # {}, !.index = index]
  BY DEF ReplaceResults, Smallest
<1>4. w.items = items /\ w.picked = (kept # {}) /\ w.index = index /\ w.query = v.query
  BY <1>1, <1>3 DEF Views
<1>5. kept # {} => index \in kept
  <2>1. kept \in SUBSET Nat
    BY <1>2
  <2>. HIDE DEF kept
  <2>2. kept # {} => \E i \in kept : \A j \in kept : i <= j
    BY <2>1, Least
  <2>. QED  BY <2>2
<1>6. /\ index \in Nat /\ index \in 1..(Len(items) + 1)
      /\ items # <<>> => index <= Len(items)
  <2>1. CASE kept # {}
    <3>1. index \in 1..Len(items) /\ Len(items) \in Nat
      BY <1>2, <1>5, <2>1
    <3>. HIDE DEF index, items
    <3>. QED  BY <3>1
  <2>2. CASE kept = {}
    <3>1. index = IndexFor(items, pick)
      BY <2>2
    <3>. HIDE DEF index, items
    <3>. QED  BY <1>2, <3>1, IndexForFacts
  <2>. QED  BY <2>1, <2>2
<1>7. kept # {} => items # <<>>
  BY <1>2, EmptySeq
<1>8. v.picked /\ (\E i \in DOMAIN items : items[i].name = v.items[v.index].name) => kept # {}
  BY DEF Fits
<1>9. kept # {} => items[index].name = v.items[v.index].name
  BY <1>5
<1>10. (kept # {}) \in BOOLEAN
  OBVIOUS
<1>. HIDE DEF index, kept, items
<1>11. w \in Views
  BY <1>1, <1>2, <1>3, <1>6, <1>10 DEF Views
<1>12. Fits(w)
  BY <1>2, <1>4, <1>6, <1>7, <1>11 DEF Fits
<1>. QED  BY <1>4, <1>8, <1>9, <1>12 DEF items

LEMMA AppendFacts ==
  ASSUME NEW v, Fits(v), v.items # <<>>, NEW r \in Seq(Items), NEW pick,
         NEW w, w = AppendResults(v, r, pick)
  PROVE  /\ Fits(w) /\ w.items = First(v.items \o r) /\ w.query = v.query
         /\ v.picked => w.picked /\ w.items[w.index] = v.items[v.index]
<1>. DEFINE items == First(v.items \o r)
            index == IF v.picked THEN v.index ELSE IndexFor(items, pick)
<1>1. v \in Views /\ v.items \in Seq(Items) /\ v.query \in Texts /\ v.picked \in BOOLEAN
        /\ v.index \in Nat /\ Limit \in Nat
  BY LimitAssumption DEF Fits, Views
<1>2. /\ v.items \o r \in Seq(Items) /\ Len(v.items \o r) = Len(v.items) + Len(r)
      /\ \A i \in 1..Len(v.items) : (v.items \o r)[i] = v.items[i]
  BY <1>1, ConcatProperties
<1>3. /\ items \in Seq(Items) /\ Len(items) <= Limit /\ Len(v.items) <= Len(items)
      /\ \A i \in 1..Len(items) : items[i] = (v.items \o r)[i]
  <2>1. /\ items \in Seq(Items)
        /\ Len(items) = (IF Len(v.items \o r) < Limit THEN Len(v.items \o r) ELSE Limit)
        /\ \A i \in 1..Len(items) : items[i] = (v.items \o r)[i]
    BY <1>2, FirstFacts
  <2>2. Len(v.items) \in Nat /\ Len(r) \in Nat /\ Len(v.items) <= Limit
    BY <1>1 DEF Fits
  <2>. HIDE DEF items
  <2>. QED  BY <1>1, <1>2, <2>1, <2>2
<1>. HIDE DEF items
<1>4. Len(v.items) \in Nat /\ v.index \in 1..Len(v.items) /\ Len(items) \in Nat
  BY <1>1, <1>3 DEF Fits
<1>5. items[v.index] = v.items[v.index] /\ v.index \in 1..Len(items) /\ items # <<>>
  BY <1>2, <1>3, <1>4
<1>6. CASE items = v.items
  <2>1. w = v
    BY <1>6 DEF AppendResults, items
  <2>. QED  BY <1>6, <2>1 DEF items
<1>7. CASE items # v.items
  <2>1. w = [v EXCEPT !.items = items, !.index = index]
    BY <1>7 DEF AppendResults, items
  <2>2. index \in Nat /\ index \in 1..(Len(items) + 1) /\ index <= Len(items)
    <3>1. CASE v.picked
      BY <1>1, <1>4, <1>5, <3>1
    <3>2. CASE ~v.picked
      BY <1>3, <1>5, <3>2, IndexForFacts
    <3>. QED  BY <1>1, <3>1, <3>2
  <2>3. v.picked => index = v.index
    OBVIOUS
  <2>. HIDE DEF index
  <2>4. w.items = items /\ w.index = index /\ w.query = v.query /\ w.picked = v.picked
    BY <1>1, <2>1 DEF Views
  <2>5. w \in Views
    BY <1>1, <1>3, <2>1, <2>2 DEF Views
  <2>6. Fits(w)
    BY <1>3, <1>5, <2>2, <2>4, <2>5 DEF Fits
  <2>. QED  BY <1>5, <2>3, <2>4, <2>6 DEF items
<1>. QED  BY <1>6, <1>7

\* _replace_results and _append_results.  A selection the user made goes along
\* with its name if that is still listed for the same query.
LEMMA RenderViewFacts ==
  ASSUME NEW v, Fits(v), NEW r \in Seq(Items), NEW q \in Texts, NEW pick,
         NEW append \in BOOLEAN, NEW w, w = RenderView(v, r, q, pick, append)
  PROVE  /\ Fits(w) /\ w.query = q
         /\ w.items = IF append /\ v.items # <<>> THEN First(v.items \o r) ELSE First(r)
         /\ /\ v.picked /\ q = v.query
            /\ \E i \in DOMAIN w.items : w.items[i].name = v.items[v.index].name
            => w.picked /\ w.items[w.index].name = v.items[v.index].name
<1>. DEFINE v1 == IF q = v.query THEN v ELSE [v EXCEPT !.query = q, !.picked = FALSE]
<1>1. v \in Views
  BY DEF Fits
<1>2. /\ Fits(v1) /\ v1.items = v.items /\ v1.query = q /\ v1.index = v.index
      /\ q = v.query => v1.picked = v.picked
  <2>1. CASE q = v.query
    BY <2>1
  <2>2. CASE q # v.query
    <3>. DEFINE u == [v EXCEPT !.query = q, !.picked = FALSE]
    <3>1. v1 = u
      BY <2>2
    <3>2. u \in Views /\ u.items = v.items /\ u.query = q /\ u.index = v.index /\ u.picked = FALSE
      BY <1>1 DEF Views
    <3>. HIDE DEF u, v1
    <3>3. Fits(u)
      BY <3>2 DEF Fits
    <3>. QED  BY <2>2, <3>1, <3>2, <3>3
  <2>. QED  BY <2>1, <2>2
<1>3. w = IF append /\ v.items # <<>> THEN AppendResults(v1, r, pick) ELSE ReplaceResults(v1, r, pick)
  BY DEF RenderView
<1>. HIDE DEF v1
<1>4. CASE append /\ v.items # <<>>
  BY <1>2, <1>3, <1>4, AppendFacts
<1>5. CASE ~(append /\ v.items # <<>>)
  BY <1>2, <1>3, <1>5, ReplaceFacts
<1>. QED  BY <1>4, <1>5

-----------------------------------------------------------------------------
(* The state of the pipeline, and what its methods leave of it.            *)

Lasts == [n: Nat, append: BOOLEAN, results: Seq(Items)]
Requests == [on: BOOLEAN, valid: {Ext, None}]
Claims == [Claimers -> SUBSET Keywords]

Uis == [main: {"none", "new", "ready"}, text: Texts, input: Typed, mode: Modes \cup {None},
        query: Texts, loading: BOOLEAN, answered: BOOLEAN, pending: Requests,
        buffered: BOOLEAN, buffer: Seq(Items), painted: BOOLEAN, appending: BOOLEAN,
        throttle: BOOLEAN, last: Lasts, view: Views, picks: [Texts -> Names],
        claims: Claims, offers: Claims, filled: BOOLEAN, enabled: BOOLEAN, resume: BOOLEAN]

\* What a method may leave alone: the texts, the keywords, the stream, and the
\* rest of the window.
SameTexts(s, t) ==
  /\ t.main = s.main /\ t.text = s.text /\ t.input = s.input
  /\ t.mode = s.mode /\ t.query = s.query
SameKeys(s, t) == t.claims = s.claims /\ t.offers = s.offers
SameStream(s, t) ==
  /\ t.loading = s.loading /\ t.answered = s.answered /\ t.buffered = s.buffered
  /\ t.buffer = s.buffer /\ t.painted = s.painted /\ t.appending = s.appending
  /\ t.throttle = s.throttle /\ t.last = s.last
SameRest(s, t) == t.picks = s.picks /\ t.resume = s.resume

LEMMA LastFacts == NoBatch \in Lasts /\ NoBatch.n = 0 /\ NoRequest \in Requests
<1>1. <<>> \in Seq(Items)
  BY EmptySeq
<1>. QED  BY <1>1 DEF NoBatch, Lasts, NoRequest, Requests

\* _render_results
LEMMA RenderFacts ==
  ASSUME NEW s \in Uis, Fits(s.view), NEW r \in Seq(Items), NEW append \in BOOLEAN,
         NEW t, t = Render(s, r, append)
  PROVE  /\ t \in Uis /\ Fits(t.view) /\ ~t.loading
         /\ SameTexts(s, t) /\ SameKeys(s, t) /\ SameRest(s, t)
         /\ t.answered = s.answered /\ t.buffered = s.buffered /\ t.buffer = s.buffer
         /\ t.painted = s.painted /\ t.appending = s.appending /\ t.throttle = s.throttle
         /\ t.last = s.last /\ t.pending = s.pending
         /\ t.filled = s.filled /\ t.enabled = s.enabled
         /\ t.view = IF s.main = "none" THEN s.view
                     ELSE RenderView(s.view, r, s.query, s.picks[s.query], append)
<1>. DEFINE v == IF s.main = "none" THEN s.view
                 ELSE RenderView(s.view, r, s.query, s.picks[s.query], append)
<1>1. t = [s EXCEPT !.loading = FALSE, !.view = v]
  BY DEF Render
<1>2. s.query \in Texts
  BY DEF Uis
<1>3. Fits(v) /\ v \in Views
  <2>1. Fits(v)
    BY <1>2, RenderViewFacts
  <2>. QED  BY <2>1 DEF Fits
<1>4. v = IF s.main = "none" THEN s.view
          ELSE RenderView(s.view, r, s.query, s.picks[s.query], append)
  OBVIOUS
<1>. HIDE DEF v
<1>5. t \in Uis /\ t.view = v /\ t.loading = FALSE
  BY <1>1, <1>3 DEF Uis
<1>6. SameTexts(s, t) /\ SameKeys(s, t) /\ SameRest(s, t)
  BY <1>1 DEF Uis, SameTexts, SameKeys, SameRest
<1>7. /\ t.answered = s.answered /\ t.buffered = s.buffered /\ t.buffer = s.buffer
      /\ t.painted = s.painted /\ t.appending = s.appending /\ t.throttle = s.throttle
      /\ t.last = s.last /\ t.pending = s.pending
      /\ t.filled = s.filled /\ t.enabled = s.enabled
  BY <1>1 DEF Uis
<1>. QED  BY <1>3, <1>4, <1>5, <1>6, <1>7

LEMMA ResetBufferFacts ==
  ASSUME NEW s \in Uis, NEW t, t = ResetBuffer(s)
  PROVE  /\ t \in Uis
         /\ SameTexts(s, t) /\ SameKeys(s, t) /\ SameRest(s, t)
         /\ ~t.buffered /\ t.buffer = <<>> /\ ~t.painted /\ ~t.appending /\ ~t.throttle
         /\ t.answered = s.answered /\ t.loading = s.loading /\ t.last = s.last
         /\ t.pending = s.pending /\ t.view = s.view
         /\ t.filled = s.filled /\ t.enabled = s.enabled
<1>1. t = [s EXCEPT !.buffered = FALSE, !.buffer = <<>>, !.painted = FALSE,
                    !.appending = FALSE, !.throttle = FALSE]
  BY DEF ResetBuffer
<1>2. <<>> \in Seq(Items)
  BY EmptySeq
<1>3. t \in Uis
  BY <1>1, <1>2 DEF Uis
<1>. QED  BY <1>1, <1>3 DEF Uis, SameTexts, SameKeys, SameRest

LEMMA ResetFacts ==
  ASSUME NEW s \in Uis, NEW t, t = Reset(s)
  PROVE  /\ t \in Uis
         /\ SameTexts(s, t) /\ SameKeys(s, t) /\ SameRest(s, t)
         /\ ~t.buffered /\ t.buffer = <<>> /\ ~t.painted /\ ~t.appending /\ ~t.throttle
         /\ ~t.answered /\ t.loading = s.loading /\ t.last = NoBatch
         /\ t.pending = s.pending /\ t.view = s.view
         /\ t.filled = s.filled /\ t.enabled = s.enabled
<1>. DEFINE b == ResetBuffer(s)
<1>1. /\ b \in Uis
      /\ SameTexts(s, b) /\ SameKeys(s, b) /\ SameRest(s, b)
      /\ ~b.buffered /\ b.buffer = <<>> /\ ~b.painted /\ ~b.appending /\ ~b.throttle
      /\ b.loading = s.loading /\ b.pending = s.pending /\ b.view = s.view
      /\ b.filled = s.filled /\ b.enabled = s.enabled
  BY ResetBufferFacts
<1>2. t = [b EXCEPT !.last = NoBatch, !.answered = FALSE]
  BY DEF Reset
<1>. HIDE DEF b
<1>3. t \in Uis
  BY <1>1, <1>2, LastFacts DEF Uis
<1>4. SameTexts(b, t) /\ SameKeys(b, t) /\ SameRest(b, t)
  BY <1>1, <1>2 DEF Uis, SameTexts, SameKeys, SameRest
<1>5. /\ t.buffered = b.buffered /\ t.buffer = b.buffer /\ t.painted = b.painted
      /\ t.appending = b.appending /\ t.throttle = b.throttle /\ t.answered = FALSE
      /\ t.last = NoBatch /\ t.loading = b.loading /\ t.pending = b.pending
      /\ t.view = b.view /\ t.filled = b.filled /\ t.enabled = b.enabled
  BY <1>1, <1>2 DEF Uis
<1>. QED  BY <1>1, <1>3, <1>4, <1>5 DEF SameTexts, SameKeys, SameRest

\* The buffer is painted: what it holds is on the list.
LEMMA PaintFacts ==
  ASSUME NEW s \in Uis, Fits(s.view), s.buffered, NEW t, t = Paint(s)
  PROVE  /\ t \in Uis /\ Fits(t.view)
         /\ SameTexts(s, t) /\ SameKeys(s, t) /\ SameRest(s, t)
         /\ ~t.buffered /\ t.buffer = <<>> /\ t.painted /\ ~t.appending /\ ~t.throttle
         /\ t.answered = s.answered /\ ~t.loading /\ t.last = s.last
         /\ t.pending = s.pending /\ t.filled = s.filled /\ t.enabled = s.enabled
         /\ t.view = IF s.main = "none" THEN s.view
                     ELSE RenderView(s.view, s.buffer, s.query, s.picks[s.query],
                                     s.painted /\ s.appending)
<1>. DEFINE b == ResetBuffer(s)
            c == [b EXCEPT !.painted = TRUE]
            append == s.painted /\ s.appending
<1>1. /\ b \in Uis
      /\ SameTexts(s, b) /\ SameKeys(s, b) /\ SameRest(s, b)
      /\ ~b.buffered /\ b.buffer = <<>> /\ ~b.painted /\ ~b.appending /\ ~b.throttle
      /\ b.answered = s.answered /\ b.last = s.last
      /\ b.pending = s.pending /\ b.view = s.view
      /\ b.filled = s.filled /\ b.enabled = s.enabled
  BY ResetBufferFacts
<1>. HIDE DEF b
<1>2. c \in Uis /\ c.painted
  BY <1>1 DEF Uis
<1>3. SameTexts(b, c) /\ SameKeys(b, c) /\ SameRest(b, c)
  BY <1>1 DEF Uis, SameTexts, SameKeys, SameRest
<1>4. /\ c.buffered = b.buffered /\ c.buffer = b.buffer
      /\ c.appending = b.appending /\ c.throttle = b.throttle /\ c.answered = b.answered
      /\ c.last = b.last /\ c.pending = b.pending
      /\ c.view = b.view /\ c.filled = b.filled /\ c.enabled = b.enabled
  BY <1>1 DEF Uis
<1>5. t = Render(c, s.buffer, append)
  BY DEF Paint, b
<1>6. append \in BOOLEAN /\ s.buffer \in Seq(Items)
  BY DEF Uis
<1>. HIDE DEF c, append
<1>7. /\ t \in Uis /\ Fits(t.view) /\ ~t.loading
      /\ SameTexts(c, t) /\ SameKeys(c, t) /\ SameRest(c, t)
      /\ t.answered = c.answered /\ t.buffered = c.buffered /\ t.buffer = c.buffer
      /\ t.painted = c.painted /\ t.appending = c.appending /\ t.throttle = c.throttle
      /\ t.last = c.last /\ t.pending = c.pending
      /\ t.filled = c.filled /\ t.enabled = c.enabled
      /\ t.view = IF c.main = "none" THEN c.view
                  ELSE RenderView(c.view, s.buffer, c.query, c.picks[c.query], append)
  <2>1. Fits(c.view)
    BY <1>1, <1>4
  <2>2. c \in Uis /\ s.buffer \in Seq(Items) /\ append \in BOOLEAN /\ t = Render(c, s.buffer, append)
    BY <1>2, <1>5, <1>6
  <2>. QED  BY <2>1, <2>2, RenderFacts
<1>8. c.main = s.main /\ c.query = s.query /\ c.picks = s.picks /\ c.view = s.view
  BY <1>1, <1>3, <1>4 DEF SameTexts, SameRest
<1>9. SameTexts(s, t) /\ SameKeys(s, t) /\ SameRest(s, t)
  BY <1>1, <1>3, <1>7 DEF SameTexts, SameKeys, SameRest
<1>10. t.view = IF s.main = "none" THEN s.view
                ELSE RenderView(s.view, s.buffer, s.query, s.picks[s.query], append)
  BY <1>7, <1>8
<1>. QED  BY <1>1, <1>2, <1>4, <1>7, <1>9, <1>10 DEF append

\* A batch that is not the last one waits for the next paint.
Buffers(s, r, append, t) ==
  /\ t \in Uis /\ t.view = s.view /\ t.pending = s.pending
  /\ SameTexts(s, t) /\ SameKeys(s, t) /\ SameRest(s, t)
  /\ t.filled = s.filled /\ t.enabled = s.enabled
  /\ ~t.loading /\ t.answered /\ t.buffered /\ t.painted = s.painted
  /\ t.buffer = IF append /\ s.buffered THEN s.buffer \o r ELSE r
  /\ t.appending = IF append /\ s.buffered THEN s.appending ELSE append
  /\ t.last.n = s.last.n + 1 /\ t.last.append = append /\ t.last.results = r

LEMMA EnqueueFacts ==
  ASSUME NEW s \in Uis, NEW r \in Seq(Items), NEW append \in BOOLEAN, NEW final \in BOOLEAN,
         NEW t, t = Enqueue(s, r, append, final)
  PROVE  \E b : /\ Buffers(s, r, append, b)
                /\ t = IF final THEN Paint(b) ELSE [b EXCEPT !.throttle = TRUE]
<1>. DEFINE joins == append /\ s.buffered
            buffer == IF joins THEN s.buffer \o r ELSE r
            appending == IF joins THEN s.appending ELSE append
            last == [n |-> s.last.n + 1, append |-> append, results |-> r]
            b == [s EXCEPT !.loading = FALSE, !.answered = TRUE, !.buffered = TRUE,
                           !.buffer = buffer, !.appending = appending, !.last = last]
<1>1. s.buffer \in Seq(Items) /\ s.last.n \in Nat /\ s.appending \in BOOLEAN
  BY DEF Uis, Lasts
<1>2. buffer \in Seq(Items) /\ appending \in BOOLEAN /\ last \in Lasts
  <2>1. s.buffer \o r \in Seq(Items)
    BY <1>1, ConcatProperties
  <2>. QED  BY <1>1, <2>1 DEF Lasts
<1>3. t = IF final THEN Paint(b) ELSE [b EXCEPT !.throttle = TRUE]
  BY DEF Enqueue
<1>4. last.n = s.last.n + 1 /\ last.append = append /\ last.results = r
  OBVIOUS
<1>5. /\ buffer = (IF append /\ s.buffered THEN s.buffer \o r ELSE r)
      /\ appending = (IF append /\ s.buffered THEN s.appending ELSE append)
  OBVIOUS
<1>. HIDE DEF buffer, appending, last
<1>6. b \in Uis
  BY <1>2 DEF Uis
<1>7. /\ SameTexts(s, b) /\ SameKeys(s, b) /\ SameRest(s, b)
      /\ b.view = s.view /\ b.pending = s.pending /\ b.painted = s.painted
      /\ b.filled = s.filled /\ b.enabled = s.enabled
  BY DEF Uis, SameTexts, SameKeys, SameRest
<1>8. /\ b.loading = FALSE /\ b.answered = TRUE /\ b.buffered = TRUE
      /\ b.buffer = buffer /\ b.appending = appending /\ b.last = last
  BY DEF Uis
<1>. HIDE DEF b
<1>9. Buffers(s, r, append, b)
  BY <1>4, <1>5, <1>6, <1>7, <1>8 DEF Buffers
<1>. QED  BY <1>3, <1>9

-----------------------------------------------------------------------------
(* Streams.                                                                *)

NoLoading(seq) == \A i \in 1..Len(seq) : seq[i] # Loading

\* The placeholder is only awaited before the first answer; what has been
\* answered is on the list or about to be painted.
LoadInv(s) ==
  /\ s.loading => ~s.answered
  /\ s.buffered \/ s.painted => s.answered
  /\ s.answered => s.throttle \/ s.painted
  /\ s.buffered = s.throttle
  /\ s.painted => NoLoading(s.view.items)
  /\ NoLoading(s.buffer)

StreamOK(s) == s \in Uis /\ Fits(s.view) /\ LoadInv(s) /\ (s.main = "none" => s.view = NoView)

\* What the buffer and the list add up to.
Sum(s) == IF s.painted /\ s.appending THEN s.view.items \o s.buffer ELSE s.buffer
ListOf(s) ==
  IF s.main # "ready" THEN <<>>
  ELSE IF ~s.buffered THEN (IF s.painted THEN s.view.items ELSE <<>>) ELSE First(Sum(s))

\* The selection of the user stays with its name, as far as PickStays says.
KeepsPick(v, w) ==
  v.picked /\ w.query = v.query
    /\ (\E i \in DOMAIN w.items : w.items[i].name = v.items[v.index].name)
  => w.picked /\ w.items[w.index].name = v.items[v.index].name

LEMMA ItemFacts ==
  ASSUME NEW kind \in Kinds, NEW n \in Nat
  PROVE  Item(kind, n) \in Items /\ Item(kind, n).kind = kind
BY DEF Item, Items, Names

LEMMA ViewItems ==
  ASSUME NEW s \in Uis
  PROVE  /\ s.view.items \in Seq(Items) /\ s.buffer \in Seq(Items) /\ Sum(s) \in Seq(Items)
         /\ <<>> \in Seq(Items)
<1>1. s.view.items \in Seq(Items) /\ s.buffer \in Seq(Items)
  BY DEF Uis, Views
<1>2. s.view.items \o s.buffer \in Seq(Items)
  BY <1>1, ConcatProperties
<1>. QED  BY <1>1, <1>2, EmptySeq DEF Sum

LEMMA NoLoadingFirst ==
  ASSUME NEW r \in Seq(Items), NoLoading(r)
  PROVE  NoLoading(First(r))
<1>1. /\ First(r) \in Seq(Items)
      /\ Len(First(r)) = IF Len(r) < Limit THEN Len(r) ELSE Limit
      /\ \A i \in 1..Len(First(r)) : First(r)[i] = r[i]
  BY FirstFacts
<1>2. Len(First(r)) \in Nat /\ Len(r) \in Nat /\ Limit \in Nat
  BY <1>1, LimitAssumption
<1>3. \A i \in 1..Len(First(r)) : i \in 1..Len(r)
  BY <1>1, <1>2
<1>. QED  BY <1>1, <1>3 DEF NoLoading

LEMMA NoLoadingConcat ==
  ASSUME NEW r \in Seq(Items), NEW t \in Seq(Items), NoLoading(r), NoLoading(t)
  PROVE  NoLoading(r \o t)
<1>1. /\ Len(r \o t) = Len(r) + Len(t) /\ Len(r) \in Nat /\ Len(t) \in Nat
      /\ \A i \in 1..Len(r) : (r \o t)[i] = r[i]
      /\ \A i \in 1..Len(t) : (r \o t)[Len(r) + i] = t[i]
  BY ConcatProperties
<1>. SUFFICES ASSUME NEW i \in 1..Len(r \o t) PROVE (r \o t)[i] # Loading
  BY DEF NoLoading
<1>2. CASE i \in 1..Len(r)
  BY <1>1, <1>2 DEF NoLoading
<1>3. CASE i \notin 1..Len(r)
  <2>1. i - Len(r) \in 1..Len(t) /\ Len(r) + (i - Len(r)) = i
    BY <1>1, <1>3
  <2>2. (r \o t)[Len(r) + (i - Len(r))] = t[i - Len(r)]
    BY <1>1, <2>1
  <2>. QED  BY <2>1, <2>2 DEF NoLoading
<1>. QED  BY <1>2, <1>3

\* A paint changes nothing of what the user is to see.
LEMMA PaintKeepsList ==
  ASSUME NEW s \in Uis, Fits(s.view), s.buffered, NEW t, t = Paint(s)
  PROVE  /\ KeepsPick(s.view, t.view)
         /\ t.view.items = IF s.main = "none" THEN s.view.items ELSE First(Sum(s))
         /\ ListOf(t) = IF s.main # "ready" THEN <<>> ELSE First(Sum(s))
<1>1. /\ SameTexts(s, t) /\ ~t.buffered /\ t.painted
      /\ t.view = IF s.main = "none" THEN s.view
                  ELSE RenderView(s.view, s.buffer, s.query, s.picks[s.query],
                                  s.painted /\ s.appending)
  BY PaintFacts
<1>. DEFINE append == s.painted /\ s.appending
<1>2. append \in BOOLEAN /\ s.buffer \in Seq(Items) /\ s.query \in Texts
  BY DEF Uis
<1>3. s.view.items = <<>> => s.view.items \o s.buffer = s.buffer
  BY <1>2, ConcatEmptySeq
<1>4. append => Sum(s) = s.view.items \o s.buffer
  BY DEF Sum
<1>5. ~append => Sum(s) = s.buffer
  BY DEF Sum
<1>a. t.view = IF s.main = "none" THEN s.view
                  ELSE RenderView(s.view, s.buffer, s.query, s.picks[s.query], append)
  BY <1>1
<1>. HIDE DEF append
<1>6. CASE s.main # "none"
  <2>1. t.view = RenderView(s.view, s.buffer, s.query, s.picks[s.query], append)
    BY <1>a, <1>6
  <2>2. /\ t.view.query = s.query
        /\ t.view.items = IF append /\ s.view.items # <<>> THEN First(s.view.items \o s.buffer)
                          ELSE First(s.buffer)
        /\ s.view.picked /\ s.query = s.view.query
              /\ (\E i \in DOMAIN t.view.items :
                     t.view.items[i].name = s.view.items[s.view.index].name)
              => t.view.picked /\ t.view.items[t.view.index].name = s.view.items[s.view.index].name
    BY <1>2, <2>1, RenderViewFacts
  <2>3. t.view.items = First(Sum(s))
    BY <1>3, <1>4, <1>5, <2>2
  <2>4. KeepsPick(s.view, t.view)
    BY <2>2 DEF KeepsPick
  <2>5. ListOf(t) = IF s.main # "ready" THEN <<>> ELSE First(Sum(s))
    BY <1>1, <2>3 DEF ListOf, SameTexts
  <2>. QED  BY <1>6, <2>3, <2>4, <2>5
<1>7. CASE s.main = "none"
  <2>1. t.view = s.view
    BY <1>a, <1>7
  <2>2. ListOf(t) = <<>>
    BY <1>1, <1>7 DEF ListOf, SameTexts
  <2>. QED  BY <1>7, <2>1, <2>2 DEF KeepsPick
<1>. QED  BY <1>6, <1>7

\* A paint leaves a stream that may go on.
LEMMA PaintLeaves ==
  ASSUME NEW b \in Uis, Fits(b.view), b.buffered, b.answered, NoLoading(b.buffer),
         b.painted => NoLoading(b.view.items), b.main = "none" => b.view = NoView,
         NEW t, t = Paint(b)
  PROVE  /\ StreamOK(t) /\ KeepsPick(b.view, t.view) /\ t.last = b.last
         /\ SameTexts(b, t) /\ SameKeys(b, t) /\ SameRest(b, t)
         /\ t.pending = b.pending /\ t.filled = b.filled /\ t.enabled = b.enabled
         /\ ListOf(t) = IF b.main # "ready" THEN <<>> ELSE First(Sum(b))
<1>1. /\ t \in Uis /\ Fits(t.view)
      /\ SameTexts(b, t) /\ SameKeys(b, t) /\ SameRest(b, t)
      /\ ~t.buffered /\ t.buffer = <<>> /\ t.painted /\ ~t.appending /\ ~t.throttle
      /\ t.answered = b.answered /\ ~t.loading /\ t.last = b.last
      /\ t.pending = b.pending /\ t.filled = b.filled /\ t.enabled = b.enabled
      /\ t.view = IF b.main = "none" THEN b.view
                  ELSE RenderView(b.view, b.buffer, b.query, b.picks[b.query],
                                  b.painted /\ b.appending)
  BY PaintFacts
<1>2. /\ KeepsPick(b.view, t.view)
      /\ t.view.items = IF b.main = "none" THEN b.view.items ELSE First(Sum(b))
      /\ ListOf(t) = IF b.main # "ready" THEN <<>> ELSE First(Sum(b))
  BY PaintKeepsList
<1>3. NoLoading(Sum(b)) /\ Sum(b) \in Seq(Items)
  <2>1. b.view.items \in Seq(Items) /\ b.buffer \in Seq(Items) /\ Sum(b) \in Seq(Items)
    BY ViewItems
  <2>2. b.painted => NoLoading(b.view.items \o b.buffer)
    BY <2>1, NoLoadingConcat
  <2>. QED  BY <2>1, <2>2 DEF Sum
<1>4. NoLoading(<<>>)
  BY DEF NoLoading
<1>a. NoView.items = <<>>
  BY DEF NoView
<1>5. NoLoading(t.view.items)
  <2>1. CASE b.main = "none"
    BY <1>2, <1>4, <1>a, <2>1
  <2>2. CASE b.main # "none"
    BY <1>2, <1>3, <2>2, NoLoadingFirst
  <2>. QED  BY <2>1, <2>2
<1>6. LoadInv(t)
  BY <1>1, <1>4, <1>5 DEF LoadInv, Uis
<1>7. StreamOK(t)
  BY <1>1, <1>6 DEF StreamOK, SameTexts
<1>. QED  BY <1>1, <1>2, <1>7

\* What a buffered batch makes of the list.
LEMMA BuffersAddUp ==
  ASSUME NEW s \in Uis, s.main = "ready", NEW r \in Seq(Items), NEW append \in BOOLEAN,
         NEW b, Buffers(s, r, append, b)
  PROVE  First(Sum(b)) = First(IF append THEN ListOf(s) \o r ELSE r)
<1>1. /\ b.view = s.view /\ b.painted = s.painted
      /\ b.buffer = IF append /\ s.buffered THEN s.buffer \o r ELSE r
      /\ b.appending = IF append /\ s.buffered THEN s.appending ELSE append
  BY DEF Buffers
<1>2. CASE ~append
  <2>1. Sum(b) = r
    BY <1>1, <1>2 DEF Sum
  <2>. QED  BY <1>2, <2>1
<1>3. CASE append /\ s.buffered
  <2>1. b.buffer = s.buffer \o r /\ b.appending = s.appending
    BY <1>1, <1>3
  <2>2. Sum(b) = Sum(s) \o r
    <3>1. s.view.items \in Seq(Items) /\ s.buffer \in Seq(Items)
      BY ViewItems
    <3>2. \A x, y, z \in Seq(Items) : (x \o y) \o z = x \o (y \o z)
      BY ConcatAssociative
    <3>3. (s.view.items \o s.buffer) \o r = s.view.items \o (s.buffer \o r)
      BY <3>1, <3>2
    <3>. QED  BY <1>1, <2>1, <3>3 DEF Sum
  <2>3. ListOf(s) = First(Sum(s))
    BY <1>3 DEF ListOf
  <2>4. First(First(Sum(s)) \o r) = First(Sum(s) \o r)
    BY ViewItems, FirstOfFirst
  <2>. QED  BY <1>3, <2>2, <2>3, <2>4
<1>4. CASE append /\ ~s.buffered
  <2>1. Sum(b) = IF s.painted THEN s.view.items \o r ELSE r
    BY <1>1, <1>4 DEF Sum
  <2>2. ListOf(s) = IF s.painted THEN s.view.items ELSE <<>>
    BY <1>4 DEF ListOf
  <2>3. <<>> \o r = r
    BY ConcatEmptySeq
  <2>4. Sum(b) = ListOf(s) \o r
    BY <2>1, <2>2, <2>3
  <2>. QED  BY <1>4, <2>4
<1>. QED  BY <1>2, <1>3, <1>4

\* A stream takes a batch: nothing is lost of the list, whether it is painted
\* at once or later.
Takes(s, r, append, t) ==
  /\ StreamOK(t) /\ KeepsPick(s.view, t.view)
  /\ SameTexts(s, t) /\ SameKeys(s, t) /\ SameRest(s, t)
  /\ t.pending = s.pending /\ t.filled = s.filled /\ t.enabled = s.enabled
  /\ t.last.n = s.last.n + 1 /\ t.last.append = append /\ t.last.results = r
  /\ ListOf(t) = IF s.main # "ready" THEN <<>>
                 ELSE First(IF append THEN ListOf(s) \o r ELSE r)

LEMMA EnqueueTakes ==
  ASSUME NEW s, StreamOK(s), NEW r \in Seq(Items), NoLoading(r),
         NEW append \in BOOLEAN, NEW final \in BOOLEAN,
         NEW t, t = Enqueue(s, r, append, final)
  PROVE  Takes(s, r, append, t)
<1>1. s \in Uis /\ Fits(s.view) /\ LoadInv(s) /\ (s.main = "none" => s.view = NoView)
  BY DEF StreamOK
<1>2. PICK b : /\ Buffers(s, r, append, b)
               /\ t = IF final THEN Paint(b) ELSE [b EXCEPT !.throttle = TRUE]
  BY <1>1, EnqueueFacts
<1>3. /\ b \in Uis /\ b.view = s.view /\ b.pending = s.pending
      /\ SameTexts(s, b) /\ SameKeys(s, b) /\ SameRest(s, b)
      /\ b.filled = s.filled /\ b.enabled = s.enabled
      /\ ~b.loading /\ b.answered /\ b.buffered /\ b.painted = s.painted
      /\ b.buffer = IF append /\ s.buffered THEN s.buffer \o r ELSE r
      /\ b.last.n = s.last.n + 1 /\ b.last.append = append /\ b.last.results = r
  BY <1>2 DEF Buffers
<1>4. NoLoading(b.buffer)
  <2>1. s.buffer \in Seq(Items) /\ NoLoading(s.buffer)
    BY <1>1, ViewItems DEF LoadInv
  <2>. QED  BY <1>3, <2>1, NoLoadingConcat
<1>5. s.main = "ready" => First(Sum(b)) = First(IF append THEN ListOf(s) \o r ELSE r)
  BY <1>1, <1>2, BuffersAddUp
<1>6. Fits(b.view) /\ b.main = s.main
  BY <1>1, <1>3 DEF SameTexts
<1>7. CASE ~final
  <2>1. t = [b EXCEPT !.throttle = TRUE]
    BY <1>2, <1>7
  <2>2. t \in Uis
    BY <1>3, <2>1 DEF Uis
  <2>3. SameTexts(b, t) /\ SameKeys(b, t) /\ SameRest(b, t)
    BY <1>3, <2>1 DEF Uis, SameTexts, SameKeys, SameRest
  <2>4. /\ t.view = b.view /\ t.pending = b.pending /\ t.filled = b.filled
        /\ t.enabled = b.enabled /\ t.loading = b.loading /\ t.answered = b.answered
        /\ t.buffered = b.buffered /\ t.painted = b.painted /\ t.buffer = b.buffer
        /\ t.appending = b.appending /\ t.last = b.last /\ t.throttle = TRUE
    BY <1>3, <2>1 DEF Uis
  <2>5. LoadInv(t)
    BY <1>1, <1>3, <1>4, <2>4 DEF LoadInv
  <2>6. SameTexts(s, t) /\ SameKeys(s, t) /\ SameRest(s, t)
    BY <1>3, <2>3 DEF SameTexts, SameKeys, SameRest
  <2>7. Sum(t) = Sum(b)
    BY <2>4 DEF Sum
  <2>8. ListOf(t) = IF s.main # "ready" THEN <<>>
                    ELSE First(IF append THEN ListOf(s) \o r ELSE r)
    BY <1>3, <1>5, <2>4, <2>6, <2>7 DEF ListOf, SameTexts
  <2>9. StreamOK(t)
    BY <1>1, <1>3, <2>2, <2>4, <2>5, <2>6 DEF StreamOK, SameTexts
  <2>10. KeepsPick(s.view, t.view)
    BY <1>3, <2>4 DEF KeepsPick
  <2>. QED  BY <1>3, <2>4, <2>6, <2>8, <2>9, <2>10 DEF Takes
<1>8. CASE final
  <2>1. t = Paint(b)
    BY <1>2, <1>8
  <2>2. b.painted => NoLoading(b.view.items)
    BY <1>1, <1>3 DEF LoadInv
  <2>3. b.main = "none" => b.view = NoView
    BY <1>1, <1>3, <1>6
  <2>4. /\ StreamOK(t) /\ KeepsPick(b.view, t.view) /\ t.last = b.last
        /\ SameTexts(b, t) /\ SameKeys(b, t) /\ SameRest(b, t)
        /\ t.pending = b.pending /\ t.filled = b.filled /\ t.enabled = b.enabled
        /\ ListOf(t) = IF b.main # "ready" THEN <<>> ELSE First(Sum(b))
    BY <1>3, <1>4, <1>6, <2>1, <2>2, <2>3, PaintLeaves
  <2>5. SameTexts(s, t) /\ SameKeys(s, t) /\ SameRest(s, t)
    BY <1>3, <2>4 DEF SameTexts, SameKeys, SameRest
  <2>6. ListOf(t) = IF s.main # "ready" THEN <<>>
                    ELSE First(IF append THEN ListOf(s) \o r ELSE r)
    BY <1>5, <1>6, <2>4
  <2>7. KeepsPick(s.view, t.view)
    BY <1>3, <2>4
  <2>. QED  BY <1>3, <2>4, <2>5, <2>6, <2>7 DEF Takes
<1>. QED  BY <1>7, <1>8

-----------------------------------------------------------------------------
(* Queries.                                                                *)

\* The keywords of the two claimers that a forced load_triggers leaves, in
\* either order, and what every later load leaves of that.
Unique(s) == s.claims[Ext] \cap s.claims[Short] = {}
Complete(s) ==
  /\ s.offers[Short] \ s.offers[Ext] \subseteq s.claims[Short]
  /\ s.claims[Short] \subseteq s.offers[Short]
  /\ s.claims[Ext] \cup s.claims[Short] = s.offers[Ext] \cup s.offers[Short]

KeepsKeys(s, t) ==
  /\ t.offers = s.offers
  /\ Unique(s) => Unique(t)
  /\ Complete(s) => Complete(t)

LEMMA SameKeepsKeys ==
  ASSUME NEW s, NEW t, SameKeys(s, t)
  PROVE  KeepsKeys(s, t)
BY DEF SameKeys, KeepsKeys, Unique, Complete

LEMMA KeepsKeysTransitive ==
  ASSUME NEW s, NEW t, NEW u, KeepsKeys(s, t), KeepsKeys(t, u)
  PROVE  KeepsKeys(s, u)
BY DEF KeepsKeys

\* load_triggers: what is claimed twice goes to one of the two.
LEMMA LoadFacts ==
  ASSUME NEW s \in Uis, NEW force \in BOOLEAN, NEW first \in Claimers,
         NEW t, t = LoadTriggers(s, force, first)
  PROVE  /\ t \in Uis /\ t.view = s.view /\ t.pending = s.pending
         /\ SameTexts(s, t) /\ SameStream(s, t) /\ SameRest(s, t)
         /\ KeepsKeys(s, t)
         /\ force => Unique(t) /\ Complete(t)
<1>. DEFINE outdated == {m \in Claimers : force \/ (m = Ext /\ ~s.filled)}
            kept == UNION {s.claims[o] : o \in Claimers \ outdated}
            other(m) == IF m # first /\ first \in outdated THEN s.offers[first] ELSE {}
            taken(m) == kept \cup other(m)
            claims == [m \in Claimers |->
                         IF m \in outdated THEN s.offers[m] \ taken(m) ELSE s.claims[m]]
            filled == IF Ext \in outdated THEN s.offers[Ext] # {} ELSE s.filled
            enabled == IF Ext \in outdated THEN s.offers[Ext] # {} ELSE s.enabled
<1>1. t = [s EXCEPT !.claims = claims, !.filled = filled, !.enabled = enabled]
  BY DEF LoadTriggers
<1>2. s.claims \in Claims /\ s.offers \in Claims /\ s.filled \in BOOLEAN /\ s.enabled \in BOOLEAN
  BY DEF Uis
<1>3. claims \in Claims /\ filled \in BOOLEAN /\ enabled \in BOOLEAN
  BY <1>2 DEF Claims
<1>4. Ext \in Claimers /\ Short \in Claimers /\ Ext # Short /\ Claimers = {Ext, Short}
  BY DEF Claimers, Ext, Short
<1>. DEFINE CE == s.claims[Ext]
            CS == s.claims[Short]
            OE == s.offers[Ext]
            OS == s.offers[Short]
<1>5. ASSUME force
      PROVE  /\ claims[Ext] = OE \ (IF Ext # first THEN OS ELSE {})
             /\ claims[Short] = OS \ (IF Short # first THEN OE ELSE {})
  <2>1. outdated = Claimers
    BY <1>5
  <2>2. UNION {s.claims[o] : o \in Claimers \ outdated} = {}
    BY <2>1
  <2>3. first \in outdated /\ (first = Ext \/ first = Short)
    BY <1>4, <2>1
  <2>4. other(Ext) = (IF Ext # first THEN OS ELSE {}) /\ other(Short) = (IF Short # first THEN OE ELSE {})
    <3>1. CASE first = Ext
      BY <1>4, <2>3, <3>1
    <3>2. CASE first = Short
      BY <1>4, <2>3, <3>2
    <3>. QED  BY <2>3, <3>1, <3>2
  <2>5. taken(Ext) = other(Ext) /\ taken(Short) = other(Short)
    <3>1. kept = {}
      BY <2>2
    <3>. HIDE DEF other, kept
    <3>. QED  BY <3>1
  <2>6. claims[Ext] = OE \ taken(Ext) /\ claims[Short] = OS \ taken(Short)
    BY <1>4, <2>1
  <2>. QED  BY <2>4, <2>5, <2>6
<1>6. ASSUME ~force
      PROVE  claims[Short] = CS /\ claims[Ext] \in {CE, OE \ CS}
  <2>1. Short \notin outdated /\ (Ext \in outdated <=> ~s.filled)
    BY <1>4, <1>6
  <2>2. claims[Short] = CS
    BY <1>4, <2>1
  <2>3. s.filled => claims[Ext] = CE
    BY <1>4, <2>1
  <2>4. ~s.filled => claims[Ext] = OE \ CS
    <3>. SUFFICES ASSUME ~s.filled PROVE claims[Ext] = OE \ CS
      OBVIOUS
    <3>1. Claimers \ outdated = {Short}
      BY <1>4, <2>1
    <3>2. UNION {s.claims[o] : o \in Claimers \ outdated} = CS
      BY <3>1
    <3>3. Ext # first => first \notin outdated
      BY <1>4, <2>1
    <3>4. taken(Ext) = CS
      BY <3>2, <3>3
    <3>. QED  BY <1>4, <2>1, <3>4
  <2>. QED  BY <2>2, <2>3, <2>4
<1>. HIDE DEF claims, filled, enabled
<1>7. t \in Uis /\ t.claims = claims /\ t.offers = s.offers
  BY <1>1, <1>3 DEF Uis
<1>8. /\ t.view = s.view /\ t.pending = s.pending
      /\ SameTexts(s, t) /\ SameStream(s, t) /\ SameRest(s, t)
  BY <1>1 DEF Uis, SameTexts, SameStream, SameRest
<1>9. force => Unique(t) /\ Complete(t)
  <2>1. CASE first = Ext
    BY <1>4, <1>5, <1>7, <2>1 DEF Unique, Complete
  <2>2. CASE first = Short
    BY <1>4, <1>5, <1>7, <2>2 DEF Unique, Complete
  <2>. QED  BY <1>4, <2>1, <2>2
<1>10. KeepsKeys(s, t)
  <2>1. CASE force
    BY <1>7, <1>9, <2>1 DEF KeepsKeys
  <2>2. CASE ~force
    BY <1>6, <1>7, <2>2 DEF KeepsKeys, Unique, Complete
  <2>. QED  BY <2>1, <2>2
<1>. QED  BY <1>7, <1>8, <1>9, <1>10

\* What a method that starts over is called with, and what it leaves: a stream
\* without a batch yet, or with the first one on the list.
Ready(s) == s \in Uis /\ Fits(s.view) /\ (s.main = "none" => s.view = NoView)
Blank(s, f) == StreamOK(f) /\ f.view = s.view /\ f.last = NoBatch /\ ListOf(f) = <<>>
Begins(s, t) ==
  /\ StreamOK(t) /\ KeepsPick(s.view, t.view)
  /\ t.last = NoBatch \/ t.last.n = 1
  /\ ListOf(t) = IF t.last.n = 1 /\ t.main = "ready" THEN First(t.last.results) ELSE <<>>

LEMMA KeepsPickSame == \A v : KeepsPick(v, v)
BY DEF KeepsPick

LEMMA BlankBegins ==
  ASSUME NEW s, NEW f, Blank(s, f)
  PROVE  Begins(s, f)
BY KeepsPickSame, LastFacts DEF Blank, Begins

LEMMA ResetBlank ==
  ASSUME NEW s, Ready(s), NEW t, t = Reset(s)
  PROVE  /\ Blank(s, t) /\ SameTexts(s, t) /\ SameKeys(s, t) /\ SameRest(s, t)
         /\ t.pending = s.pending /\ t.filled = s.filled /\ t.enabled = s.enabled
         /\ t.loading = s.loading /\ ~t.answered
<1>1. /\ t \in Uis
      /\ SameTexts(s, t) /\ SameKeys(s, t) /\ SameRest(s, t)
      /\ ~t.buffered /\ t.buffer = <<>> /\ ~t.painted /\ ~t.appending /\ ~t.throttle
      /\ ~t.answered /\ t.loading = s.loading /\ t.last = NoBatch
      /\ t.pending = s.pending /\ t.view = s.view
      /\ t.filled = s.filled /\ t.enabled = s.enabled
  BY ResetFacts DEF Ready
<1>2. LoadInv(t)
  BY <1>1 DEF LoadInv, NoLoading, Uis
<1>3. ListOf(t) = <<>>
  BY <1>1 DEF ListOf
<1>4. StreamOK(t)
  BY <1>1, <1>2 DEF StreamOK, Ready, SameTexts
<1>. QED  BY <1>1, <1>3, <1>4 DEF Blank

\* The placeholder is awaited, or no more.
LEMMA LoadingBlank ==
  ASSUME NEW s, NEW f, Blank(s, f), ~f.answered, NEW b \in BOOLEAN,
         NEW t, t = [f EXCEPT !.loading = b]
  PROVE  /\ Blank(s, t) /\ SameTexts(f, t) /\ SameKeys(f, t) /\ SameRest(f, t)
         /\ t.pending = f.pending /\ t.filled = f.filled /\ t.enabled = f.enabled
         /\ ~t.answered
<1>1. f \in Uis /\ Fits(f.view) /\ LoadInv(f) /\ (f.main = "none" => f.view = NoView)
  BY DEF Blank, StreamOK
<1>2. t \in Uis
  BY <1>1 DEF Uis
<1>3. /\ SameTexts(f, t) /\ SameKeys(f, t) /\ SameRest(f, t)
      /\ t.pending = f.pending /\ t.filled = f.filled /\ t.enabled = f.enabled
      /\ t.answered = f.answered /\ t.buffered = f.buffered /\ t.buffer = f.buffer
      /\ t.painted = f.painted /\ t.appending = f.appending /\ t.throttle = f.throttle
      /\ t.last = f.last /\ t.view = f.view
  BY <1>1 DEF Uis, SameTexts, SameKeys, SameRest
<1>4. LoadInv(t)
  BY <1>1, <1>3 DEF LoadInv
<1>5. ListOf(t) = ListOf(f)
  BY <1>3 DEF ListOf, Sum, SameTexts
<1>6. StreamOK(t)
  BY <1>1, <1>2, <1>3, <1>4 DEF StreamOK, SameTexts
<1>. QED  BY <1>3, <1>5, <1>6 DEF Blank

LEMMA BlankTakes ==
  ASSUME NEW s, NEW f, Blank(s, f), NEW r \in Seq(Items), NEW append \in BOOLEAN,
         NEW t, Takes(f, r, append, t)
  PROVE  Begins(s, t)
<1>1. /\ StreamOK(t) /\ KeepsPick(f.view, t.view) /\ SameTexts(f, t)
      /\ t.last.n = f.last.n + 1 /\ t.last.results = r
      /\ ListOf(t) = IF f.main # "ready" THEN <<>>
                     ELSE First(IF append THEN ListOf(f) \o r ELSE r)
  BY DEF Takes
<1>2. f.view = s.view /\ t.last.n = 1 /\ t.main = f.main /\ ListOf(f) = <<>>
  BY <1>1, LastFacts DEF Blank, SameTexts
<1>3. <<>> \o r = r
  BY ConcatEmptySeq
<1>. QED  BY <1>1, <1>2, <1>3 DEF Begins

LEMMA BlankEnqueues ==
  ASSUME NEW s, NEW f, Blank(s, f), NEW r \in Seq(Items), NoLoading(r),
         NEW append \in BOOLEAN, NEW final \in BOOLEAN, NEW t, t = Enqueue(f, r, append, final)
  PROVE  /\ Begins(s, t) /\ SameTexts(f, t) /\ SameKeys(f, t) /\ SameRest(f, t)
         /\ t.pending = f.pending
<1>1. StreamOK(f)
  BY DEF Blank
<1>2. Takes(f, r, append, t)
  BY <1>1, EnqueueTakes
<1>3. Begins(s, t)
  BY <1>2, BlankTakes
<1>. QED  BY <1>2, <1>3 DEF Takes

\* Before the first answer a list can be rendered that is not of the stream:
\* the results of a search, the actions of a result, or the placeholder.
LEMMA UnansweredRenders ==
  ASSUME NEW f, StreamOK(f), ~f.answered, NEW r \in Seq(Items),
         NEW append \in BOOLEAN, NEW t, t = Render(f, r, append)
  PROVE  /\ StreamOK(t) /\ KeepsPick(f.view, t.view)
         /\ SameTexts(f, t) /\ SameKeys(f, t) /\ SameRest(f, t)
         /\ t.last = f.last /\ ListOf(t) = <<>> /\ ListOf(f) = <<>>
         /\ t.pending = f.pending
<1>1. f \in Uis /\ Fits(f.view) /\ LoadInv(f) /\ (f.main = "none" => f.view = NoView)
  BY DEF StreamOK
<1>a. /\ f \in Uis /\ Fits(f.view) /\ r \in Seq(Items) /\ append \in BOOLEAN
      /\ t = Render(f, r, append)
  BY <1>1
<1>2. /\ t \in Uis /\ Fits(t.view) /\ ~t.loading
      /\ SameTexts(f, t) /\ SameKeys(f, t) /\ SameRest(f, t)
      /\ t.answered = f.answered /\ t.buffered = f.buffered /\ t.buffer = f.buffer
      /\ t.painted = f.painted /\ t.appending = f.appending /\ t.throttle = f.throttle
      /\ t.last = f.last /\ t.pending = f.pending
      /\ t.filled = f.filled /\ t.enabled = f.enabled
      /\ t.view = IF f.main = "none" THEN f.view
                  ELSE RenderView(f.view, r, f.query, f.picks[f.query], append)
  BY <1>a, RenderFacts
<1>3. ~t.painted /\ ~t.buffered
  BY <1>1, <1>2 DEF LoadInv
<1>4. LoadInv(t)
  BY <1>1, <1>2, <1>3 DEF LoadInv
<1>5. KeepsPick(f.view, t.view)
  <2>1. CASE f.main = "none"
    BY <1>2, <2>1, KeepsPickSame
  <2>2. CASE f.main # "none"
    <3>1. t.view = RenderView(f.view, r, f.query, f.picks[f.query], append)
      BY <1>2, <2>2
    <3>a. f.query \in Texts /\ Fits(f.view)
      BY <1>1 DEF Uis
    <3>2. /\ t.view.query = f.query
          /\ f.view.picked /\ f.query = f.view.query
               /\ (\E i \in DOMAIN t.view.items :
                      t.view.items[i].name = f.view.items[f.view.index].name)
               => t.view.picked
                  /\ t.view.items[t.view.index].name = f.view.items[f.view.index].name
      BY <3>a, <3>1, RenderViewFacts
    <3>. QED  BY <3>2 DEF KeepsPick
  <2>. QED  BY <2>1, <2>2
<1>6. ListOf(t) = <<>> /\ ListOf(f) = <<>>
  BY <1>2, <1>3 DEF ListOf
<1>7. StreamOK(t)
  BY <1>1, <1>2, <1>4 DEF StreamOK, SameTexts
<1>. QED  BY <1>2, <1>5, <1>6, <1>7

LEMMA BlankRenders ==
  ASSUME NEW s, NEW f, Blank(s, f), ~f.answered, NEW r \in Seq(Items),
         NEW append \in BOOLEAN, NEW t, t = Render(f, r, append)
  PROVE  /\ Begins(s, t) /\ SameTexts(f, t) /\ SameKeys(f, t) /\ SameRest(f, t)
<1>1. StreamOK(f) /\ f.view = s.view /\ f.last = NoBatch
  BY DEF Blank
<1>2. /\ StreamOK(t) /\ KeepsPick(f.view, t.view)
      /\ SameTexts(f, t) /\ SameKeys(f, t) /\ SameRest(f, t)
      /\ t.last = f.last /\ ListOf(t) = <<>>
  BY <1>1, UnansweredRenders
<1>3. t.last = NoBatch /\ t.last.n # 1
  BY <1>1, <1>2, LastFacts
<1>. QED  BY <1>1, <1>2, <1>3 DEF Begins

-----------------------------------------------------------------------------
(* What the modes answer at once. *)

LEMMA OneItem ==
  ASSUME NEW kind \in Kinds, kind # "loading", NEW n \in Nat
  PROVE  <<Item(kind, n)>> \in Seq(Items) /\ NoLoading(<<Item(kind, n)>>)
<1>1. Item(kind, n) \in Items /\ Item(kind, n).kind = kind
  BY ItemFacts
<1>2. Loading.kind = "loading"
  BY DEF Loading, Item
<1>3. Item(kind, n) # Loading
  BY <1>1, <1>2
<1>. HIDE DEF Item
<1>. QED  BY <1>1, <1>3 DEF NoLoading

LEMMA NoItems == <<>> \in Seq(Items) /\ NoLoading(<<>>)
BY EmptySeq DEF NoLoading

LEMMA SearchFacts ==
  ASSUME NEW s
  PROVE  Search(s) \in Seq(Items)
<1>1. /\ <<Item("app", 1)>> \in Seq(Items) /\ <<Item("launch", 1)>> \in Seq(Items)
      /\ <<Item("keyword", 1)>> \in Seq(Items) /\ Fallback \in Seq(Items) /\ <<>> \in Seq(Items)
  BY OneItem, NoItems DEF Kinds, Fallback
<1>. DEFINE a == <<Item("app", 1)>>
            b == IF s.enabled THEN <<Item("launch", 1)>> ELSE <<>>
            c == IF s.claims[Ext] \cup s.claims[Short] # {} THEN <<Item("keyword", 1)>> ELSE <<>>
<1>2. a \in Seq(Items) /\ b \in Seq(Items) /\ c \in Seq(Items)
  BY <1>1
<1>3. Search(s) = IF s.query \notin Matching THEN Fallback ELSE a \o b \o c
  BY DEF Search
<1>. HIDE DEF a, b, c
<1>4. a \o b \o c \in Seq(Items)
  <2>1. a \o b \in Seq(Items)
    BY <1>2, ConcatProperties
  <2>. QED  BY <1>2, <2>1, ConcatProperties
<1>. QED  BY <1>1, <1>3, <1>4

LEMMA FileItems ==
  LET r == <<Item("file", 1), Item("file", 2)>>
  IN  r \in Seq(Items) /\ NoLoading(r)
<1>1. /\ Item("file", 1) \in Items /\ Item("file", 1).kind = "file"
      /\ Item("file", 2) \in Items /\ Item("file", 2).kind = "file"
  BY ItemFacts DEF Kinds
<1>2. Loading.kind = "loading"
  BY DEF Loading, Item
<1>3. Item("file", 1) # Loading /\ Item("file", 2) # Loading
  BY <1>1, <1>2
<1>. HIDE DEF Item
<1>. QED  BY <1>1, <1>3 DEF NoLoading

LEMMA AskExtensionFacts ==
  ASSUME NEW s, NEW f, Blank(s, f), NEW t, t = AskExtension(f)
  PROVE  Begins(s, t) /\ SameTexts(f, t) /\ SameKeys(f, t) /\ SameRest(f, t)
<1>1. f \in Uis /\ Fits(f.view) /\ LoadInv(f) /\ (f.main = "none" => f.view = NoView)
  BY DEF Blank, StreamOK
<1>. DEFINE filled == f.filled \/ f.offers[Ext] # {}
            s1 == [f EXCEPT !.filled = filled]
            request == [on |-> TRUE, valid |-> Ext]
            s2 == [s1 EXCEPT !.pending = request]
<1>2. filled \in BOOLEAN /\ request \in Requests
  BY <1>1 DEF Uis, Requests
<1>3. t = IF KeywordOf[f.query] \in f.offers[Ext] THEN s2
          ELSE Enqueue(s1, <<Item("error", 1)>>, FALSE, TRUE)
  <2>1. s1.query = f.query
    BY <1>1 DEF Uis
  <2>. QED  BY <2>1 DEF AskExtension
<1>. HIDE DEF filled, request
<1>4. ASSUME NEW u \in {s1, s2}
      PROVE  Blank(s, u) /\ SameTexts(f, u) /\ SameKeys(f, u) /\ SameRest(f, u)
  <2>a. s1 \in Uis
    BY <1>1, <1>2 DEF Uis
  <2>b. s2 \in Uis
    BY <1>2, <2>a DEF Uis
  <2>1. u \in Uis
    BY <1>4, <2>a, <2>b
  <2>2. /\ SameTexts(f, u) /\ SameKeys(f, u) /\ SameRest(f, u) /\ SameStream(f, u)
        /\ u.view = f.view
    BY <1>1, <1>4 DEF Uis, SameTexts, SameKeys, SameRest, SameStream
  <2>. HIDE DEF s1, s2
  <2>3. LoadInv(u)
    BY <1>1, <2>2 DEF LoadInv, SameStream
  <2>4. ListOf(u) = ListOf(f)
    BY <2>2 DEF ListOf, Sum, SameTexts, SameStream
  <2>5. StreamOK(u)
    BY <1>1, <2>1, <2>2, <2>3 DEF StreamOK, SameTexts
  <2>. QED  BY <2>2, <2>4, <2>5 DEF Blank, SameStream
<1>. HIDE DEF s1, s2
<1>5. CASE t = s2
  BY <1>4, <1>5, BlankBegins
<1>6. CASE t = Enqueue(s1, <<Item("error", 1)>>, FALSE, TRUE)
  <2>1. <<Item("error", 1)>> \in Seq(Items) /\ NoLoading(<<Item("error", 1)>>)
    BY OneItem DEF Kinds
  <2>2. PICK no \in BOOLEAN, final \in BOOLEAN : no = FALSE /\ final = TRUE
    OBVIOUS
  <2>3. t = Enqueue(s1, <<Item("error", 1)>>, no, final)
    BY <1>6, <2>2
  <2>4. Begins(s, t) /\ SameTexts(s1, t) /\ SameKeys(s1, t) /\ SameRest(s1, t)
    BY <1>4, <2>1, <2>3, BlankEnqueues
  <2>. QED  BY <1>4, <2>4 DEF SameTexts, SameKeys, SameRest
<1>. QED  BY <1>3, <1>5, <1>6

LEMMA AskShortcutFacts ==
  ASSUME NEW s, NEW f, Blank(s, f), ~f.answered, NEW t, t = AskShortcut(f)
  PROVE  Begins(s, t) /\ SameTexts(f, t) /\ SameKeys(f, t) /\ SameRest(f, t)
<1>1. PICK no \in BOOLEAN, final \in BOOLEAN : no = FALSE /\ final = TRUE
  OBVIOUS
<1>2. CASE t = Enqueue(f, <<Item("shortcut", 1)>>, FALSE, TRUE)
  <2>1. <<Item("shortcut", 1)>> \in Seq(Items) /\ NoLoading(<<Item("shortcut", 1)>>)
    BY OneItem DEF Kinds
  <2>2. t = Enqueue(f, <<Item("shortcut", 1)>>, no, final)
    BY <1>1, <1>2
  <2>. QED  BY <2>1, <2>2, BlankEnqueues
<1>3. CASE t = [f EXCEPT !.loading = FALSE]
  <2>1. t = [f EXCEPT !.loading = no]
    BY <1>1, <1>3
  <2>2. Blank(s, t) /\ SameTexts(f, t) /\ SameKeys(f, t) /\ SameRest(f, t)
    BY <2>1, LoadingBlank
  <2>. QED  BY <2>2, BlankBegins
<1>. QED  BY <1>2, <1>3 DEF AskShortcut

LEMMA AskFilesFacts ==
  ASSUME NEW s, NEW f, Blank(s, f), NEW t, t = AskFiles(f)
  PROVE  Begins(s, t) /\ SameTexts(f, t) /\ SameKeys(f, t) /\ SameRest(f, t)
<1>1. PICK no \in BOOLEAN, final \in BOOLEAN : no = FALSE /\ final = TRUE
  OBVIOUS
<1>2. t = Enqueue(f, <<Item("file", 1), Item("file", 2)>>, no, final)
  BY <1>1 DEF AskFiles
<1>. QED  BY <1>2, FileItems, BlankEnqueues

-----------------------------------------------------------------------------
(* Queries that are set.                                                    *)

\* What changes neither the stream nor what is shown of it; the placeholder
\* may be awaited no more.
Alike(f, t) ==
  /\ t \in Uis /\ t.main = f.main /\ t.view = f.view /\ (t.loading => f.loading)
  /\ t.answered = f.answered /\ t.buffered = f.buffered /\ t.buffer = f.buffer
  /\ t.painted = f.painted /\ t.appending = f.appending /\ t.throttle = f.throttle
  /\ t.last = f.last

LEMMA AlikeFacts ==
  ASSUME NEW f, StreamOK(f), NEW t, Alike(f, t)
  PROVE  StreamOK(t) /\ ListOf(t) = ListOf(f)
<1>1. LoadInv(t)
  BY DEF StreamOK, Alike, LoadInv
<1>2. StreamOK(t)
  BY <1>1 DEF StreamOK, Alike
<1>3. ListOf(t) = ListOf(f)
  BY DEF Alike, ListOf, Sum
<1>. QED  BY <1>2, <1>3

LEMMA AlikeBlank ==
  ASSUME NEW s, NEW f, Blank(s, f), NEW t, Alike(f, t)
  PROVE  Blank(s, t)
<1>1. StreamOK(t) /\ ListOf(t) = ListOf(f)
  BY AlikeFacts DEF Blank
<1>. QED  BY <1>1 DEF Blank, Alike

LEMMA LoadBlank ==
  ASSUME NEW s, NEW f, Blank(s, f), NEW force \in BOOLEAN, NEW first \in Claimers,
         NEW t, t = LoadTriggers(f, force, first)
  PROVE  /\ Blank(s, t) /\ t.answered = f.answered
         /\ SameTexts(f, t) /\ SameRest(f, t) /\ KeepsKeys(f, t)
<1>1. f \in Uis
  BY DEF Blank, StreamOK
<1>2. /\ t \in Uis /\ t.view = f.view
      /\ SameTexts(f, t) /\ SameStream(f, t) /\ SameRest(f, t) /\ KeepsKeys(f, t)
  BY <1>1, LoadFacts
<1>3. Alike(f, t)
  BY <1>2 DEF Alike, SameTexts, SameStream
<1>. QED  BY <1>2, <1>3, AlikeBlank DEF SameStream

\* handle_change: whatever mode is asked, what it answers at once is all there
\* is on the list.
LEMMA HandleChangeFacts ==
  ASSUME NEW s, Ready(s), NEW t, t = HandleChange(s)
  PROVE  Begins(s, t) /\ SameTexts(s, t) /\ SameRest(s, t) /\ KeepsKeys(s, t)
<1>. DEFINE s0 == Reset(s)
            asks == s.mode # None
            s1 == [s0 EXCEPT !.loading = asks]
            s2 == LoadTriggers(s1, FALSE, Ext)
            answers == {AskExtension(s1), AskShortcut(s1), AskFiles(s1)}
            search == Render(s2, Search(s2), FALSE)
<1>1. t \in answers \/ t = search
  <2>. DEFINE e == AskExtension(s1)
              sh == AskShortcut(s1)
              f == AskFiles(s1)
  <2>1. t = CASE s.mode = Ext -> e [] s.mode = Short -> sh [] s.mode = Files -> f
            [] OTHER -> search
    BY DEF HandleChange
  <2>2. e \in answers /\ sh \in answers /\ f \in answers
    OBVIOUS
  <2>. HIDE DEF e, sh, f, answers, search
  <2>. QED  BY <2>1, <2>2 DEF Ext, Short, Files
<1>2. PICK no \in BOOLEAN : no = FALSE
  OBVIOUS
<1>3. asks \in BOOLEAN
  OBVIOUS
<1>. HIDE DEF asks
<1>4. Blank(s, s0) /\ ~s0.answered /\ SameTexts(s, s0) /\ SameKeys(s, s0) /\ SameRest(s, s0)
  BY ResetBlank
<1>. HIDE DEF s0
<1>5. /\ Blank(s, s1) /\ ~s1.answered
      /\ SameTexts(s0, s1) /\ SameKeys(s0, s1) /\ SameRest(s0, s1)
  BY <1>3, <1>4, LoadingBlank
<1>6. s2 = LoadTriggers(s1, no, Ext) /\ Ext \in Claimers
  BY <1>2 DEF Claimers
<1>. HIDE DEF s1, s2
<1>7. SameTexts(s, s1) /\ SameKeys(s, s1) /\ SameRest(s, s1)
  BY <1>4, <1>5 DEF SameTexts, SameKeys, SameRest
<1>8. CASE t \in answers
  <2>. t \in {AskExtension(s1), AskShortcut(s1), AskFiles(s1)}
    BY <1>8
  <2>1. Begins(s, t) /\ SameTexts(s1, t) /\ SameKeys(s1, t) /\ SameRest(s1, t)
    BY <1>5, AskExtensionFacts, AskShortcutFacts, AskFilesFacts
  <2>2. SameTexts(s, t) /\ SameKeys(s, t) /\ SameRest(s, t)
    BY <1>7, <2>1 DEF SameTexts, SameKeys, SameRest
  <2>. QED  BY <2>1, <2>2, SameKeepsKeys
<1>9. CASE t = search
  <2>1. /\ Blank(s, s2) /\ s2.answered = s1.answered
        /\ SameTexts(s1, s2) /\ SameRest(s1, s2) /\ KeepsKeys(s1, s2)
    BY <1>5, <1>6, LoadBlank
  <2>2. ~s2.answered
    BY <1>5, <2>1
  <2>3. Search(s2) \in Seq(Items) /\ t = Render(s2, Search(s2), no)
    BY <1>2, <1>9, SearchFacts
  <2>4. Begins(s, t) /\ SameTexts(s2, t) /\ SameKeys(s2, t) /\ SameRest(s2, t)
    BY <2>1, <2>2, <2>3, BlankRenders
  <2>5. KeepsKeys(s, s1) /\ KeepsKeys(s2, t)
    BY <1>7, <2>4, SameKeepsKeys
  <2>6. KeepsKeys(s, t)
    BY <2>1, <2>5, KeepsKeysTransitive
  <2>. QED  BY <1>7, <2>1, <2>4, <2>6 DEF SameTexts, SameRest
<1>. QED  BY <1>1, <1>8, <1>9

LEMMA ModeForFacts ==
  ASSUME NEW s, NEW q
  PROVE  ModeFor(s, q) \in Modes \cup {None}
BY DEF ModeFor, Modes, Claimers

\* set_query and what it leaves: the query is q, and nothing of the stream of
\* the one before.
Sets(s, t, q) ==
  Begins(s, t) /\ KeepsKeys(s, t) /\ t.main = s.main /\ t.query = q

LEMMA SetQueryFacts ==
  ASSUME NEW s, Ready(s), NEW q \in Texts, NEW t, t = SetQuery(s, q)
  PROVE  Sets(s, t, q) /\ t.text = s.text /\ t.input = s.input
<1>1. s \in Uis /\ Fits(s.view) /\ (s.main = "none" => s.view = NoView)
  BY DEF Ready
<1>. DEFINE mode == IF q = "" THEN None ELSE ModeFor(s, q)
            s0 == [s EXCEPT !.mode = mode, !.query = q]
<1>2. mode \in Modes \cup {None}
  BY ModeForFacts
<1>3. t = IF q = "" THEN Render(Reset(s0), Home, FALSE) ELSE HandleChange(s0)
  BY DEF SetQuery
<1>. HIDE DEF mode
<1>4. /\ s0 \in Uis /\ s0.view = s.view /\ s0.main = s.main /\ s0.query = q
      /\ s0.text = s.text /\ s0.input = s.input /\ SameKeys(s, s0)
  BY <1>1, <1>2 DEF Uis, SameKeys
<1>. HIDE DEF s0
<1>5. Ready(s0)
  BY <1>1, <1>4 DEF Ready
<1>6. Begins(s0, t) /\ SameTexts(s0, t) /\ KeepsKeys(s0, t)
  <2>1. CASE q = ""
    <3>. DEFINE r == Reset(s0)
    <3>1. PICK no \in BOOLEAN : no = FALSE
      OBVIOUS
    <3>2. t = Render(r, Home, no)
      BY <1>3, <2>1, <3>1
    <3>3. Blank(s0, r) /\ ~r.answered /\ SameTexts(s0, r) /\ SameKeys(s0, r)
      BY <1>5, ResetBlank
    <3>. HIDE DEF r
    <3>4. Home \in Seq(Items)
      BY OneItem DEF Home, Kinds
    <3>5. Begins(s0, t) /\ SameTexts(r, t) /\ SameKeys(r, t)
      BY <3>2, <3>3, <3>4, BlankRenders
    <3>6. SameTexts(s0, t) /\ SameKeys(s0, t)
      BY <3>3, <3>5 DEF SameTexts, SameKeys
    <3>. QED  BY <3>5, <3>6, SameKeepsKeys
  <2>2. CASE q # ""
    <3>1. t = HandleChange(s0)
      BY <1>3, <2>2
    <3>. QED  BY <1>5, <3>1, HandleChangeFacts
  <2>. QED  BY <2>1, <2>2
<1>7. KeepsKeys(s, t)
  BY <1>4, <1>6, SameKeepsKeys, KeepsKeysTransitive
<1>8. Begins(s, t)
  BY <1>4, <1>6 DEF Begins
<1>. QED  BY <1>4, <1>6, <1>7, <1>8 DEF Sets, SameTexts

LEMMA StripFacts ==
  /\ \A q \in Typed : Stripped[q] \in Texts
  /\ \A q \in Texts : q \in Typed /\ Stripped[q] = q
BY TypedAssumption

\* query_changed
LEMMA InputChangedFacts ==
  ASSUME NEW s, Ready(s), NEW q \in Typed, NEW t, t = InputChanged(s, q)
  PROVE  Sets(s, t, Stripped[q]) /\ t.text = Stripped[q] /\ t.input = q
<1>. DEFINE text == Stripped[q]
<1>a. text \in Texts
  BY StripFacts
<1>1. s \in Uis /\ Fits(s.view) /\ (s.main = "none" => s.view = NoView)
  BY DEF Ready
<1>. DEFINE s0 == [s EXCEPT !.input = q, !.text = text]
<1>2. t = SetQuery(s0, text)
  BY DEF InputChanged
<1>. HIDE DEF text
<1>3. /\ s0 \in Uis /\ s0.view = s.view /\ s0.main = s.main
      /\ s0.text = text /\ s0.input = q /\ SameKeys(s, s0)
  BY <1>a, <1>1 DEF Uis, SameKeys
<1>. HIDE DEF s0
<1>4. Ready(s0)
  BY <1>1, <1>3 DEF Ready
<1>5. Sets(s0, t, text) /\ t.text = s0.text /\ t.input = s0.input
  BY <1>a, <1>2, <1>4, SetQueryFacts
<1>6. KeepsKeys(s, t)
  BY <1>3, <1>5, SameKeepsKeys, KeepsKeysTransitive DEF Sets
<1>7. Begins(s, t)
  BY <1>3, <1>5 DEF Sets, Begins
<1>. QED  BY <1>3, <1>5, <1>6, <1>7 DEF Sets, text

\* app:set_query strips what it is given first.
LEMMA StripsFirst ==
  ASSUME NEW s, NEW q \in Typed
  PROVE  Stripped[q] \in Texts /\ AppSetQuery(s, q) = AppSetQuery(s, Stripped[q])
<1>1. Stripped[q] \in Texts /\ Stripped[Stripped[q]] = Stripped[q]
  BY StripFacts
<1>. QED  BY <1>1 DEF AppSetQuery

\* app:set_query: the entry follows the text only if it is different.
LEMMA AppSetQueryFacts ==
  ASSUME NEW s, Ready(s), NEW q \in Texts, NEW t, t = AppSetQuery(s, q)
  PROVE  \/ s.main # "none" /\ Sets(s, t, q) /\ t.text = q /\ t.input = q
         \/ /\ s.main = "none" \/ s.input = q
            /\ Alike(s, t) /\ SameKeys(s, t) /\ t.text = q
            /\ t.input = s.input /\ t.query = s.query /\ t.pending = s.pending
<1>1. CASE s.main # "none" /\ s.input # q
  <2>1. t = InputChanged(s, q) /\ q \in Typed /\ Stripped[q] = q
    BY <1>1, StripFacts DEF AppSetQuery
  <2>. QED  BY <1>1, <2>1, InputChangedFacts
<1>2. CASE ~(s.main # "none" /\ s.input # q)
  <2>1. t = [s EXCEPT !.text = q] /\ s \in Uis
    BY <1>2, StripFacts DEF AppSetQuery, Ready
  <2>2. /\ Alike(s, t) /\ SameKeys(s, t) /\ t.text = q
        /\ t.input = s.input /\ t.query = s.query /\ t.pending = s.pending
    BY <2>1 DEF Uis, Alike, SameKeys
  <2>. QED  BY <1>2, <2>2
<1>. QED  BY <1>1, <1>2

-----------------------------------------------------------------------------
(* The invariant of the pipeline, and what a step of it may do.             *)

\* The entry, the app and the core agree on the query.
Entry(s) ==
  /\ s.main # "none" => Stripped[s.input] = s.text
  /\ s.main = "ready" => s.query = s.text

PipelineInv(s) ==
  StreamOK(s) /\ Entry(s) /\ Unique(s) /\ s.last.n <= MaxBatches + 1

Open(s) == s.main = "ready"

\* What ResultList promises of a step, in terms of the pipeline.
Advances(s, t) ==
  \/ (Open(t) <=> Open(s)) /\ t.last = s.last /\ ListOf(t) = ListOf(s)
  \/ /\ (Open(t) <=> Open(s)) /\ t.last.n = s.last.n + 1
     /\ ListOf(t) = IF ~Open(s) THEN <<>>
                    ELSE First(IF t.last.append THEN ListOf(s) \o t.last.results
                               ELSE t.last.results)
  \/ /\ (Open(t) <=> Open(s)) /\ (t.last = NoBatch \/ t.last.n = 1)
     /\ ListOf(t) = IF t.last.n = 1 /\ Open(s) THEN First(t.last.results) ELSE <<>>
  \/ /\ (Open(t) <=> ~Open(s))
     /\ ListOf(t) = IF Open(t) /\ t.last.n = 1 THEN First(t.last.results) ELSE <<>>

Works(s) == s.claims[Ext] \cup s.claims[Short] = s.offers[Ext] \cup s.offers[Short]

Goes(s, t) ==
  /\ PipelineInv(t) /\ Advances(s, t)
  /\ Open(s) /\ Open(t) => KeepsPick(s.view, t.view)
  /\ s.main = "new" /\ Open(t) => Works(t)

\* The user moves the selection, and nothing else changes.
Selects(s, t) == t = [s EXCEPT !.view = t.view] /\ t.view.items = s.view.items

\* A step goes on, unless it moves the selection.
Steps(s, t) ==
  /\ PipelineInv(t) /\ Advances(s, t)
  /\ Open(s) /\ Open(t) => KeepsPick(s.view, t.view) \/ Selects(s, t)
  /\ s.main = "new" /\ Open(t) => Works(t)

LEMMA InvReady == \A s : StreamOK(s) => Ready(s)
BY DEF StreamOK, Ready

LEMMA BlankReady == \A s, f : Blank(s, f) => Ready(f)
BY DEF StreamOK, Ready, Blank

LEMMA BeginsFacts ==
  ASSUME NEW s, NEW t, Begins(s, t)
  PROVE  t.last.n <= MaxBatches + 1
<1>1. t.last = NoBatch \/ t.last.n = 1
  BY DEF Begins
<1>2. t.last.n = 0 \/ t.last.n = 1
  BY <1>1, LastFacts
<1>. QED  BY <1>2, LimitAssumption

\* A method that starts over, with the window as it is.
LEMMA BeginsGoes ==
  ASSUME NEW s, NEW t, PipelineInv(s), Begins(s, t), KeepsKeys(s, t), t.main = s.main, Entry(t)
  PROVE  Goes(s, t)
<1>1. StreamOK(t) /\ KeepsPick(s.view, t.view) /\ (t.last = NoBatch \/ t.last.n = 1)
  BY DEF Begins
<1>2. ListOf(t) = IF t.last.n = 1 /\ Open(s) THEN First(t.last.results) ELSE <<>>
  BY DEF Begins, Open
<1>3. Open(t) <=> Open(s)
  BY DEF Open
<1>4. Advances(s, t)
  BY <1>1, <1>2, <1>3 DEF Advances
<1>5. PipelineInv(t)
  BY <1>1, BeginsFacts DEF PipelineInv, KeepsKeys
<1>6. ~(s.main = "new" /\ Open(t))
  BY DEF Open
<1>. QED  BY <1>1, <1>4, <1>5, <1>6 DEF Goes

\* A step that leaves the stream as it is.
LEMMA AlikeGoes ==
  ASSUME NEW s, NEW t, PipelineInv(s), Alike(s, t), Unique(t), Entry(t)
  PROVE  Goes(s, t)
<1>1. StreamOK(t) /\ ListOf(t) = ListOf(s)
  BY AlikeFacts DEF PipelineInv
<1>2. t.main = s.main /\ t.view = s.view /\ t.last = s.last
  BY DEF Alike
<1>3. Open(t) <=> Open(s)
  BY <1>2 DEF Open
<1>4. KeepsPick(s.view, t.view)
  BY <1>2, KeepsPickSame
<1>5. Advances(s, t)
  BY <1>1, <1>2, <1>3 DEF Advances
<1>6. PipelineInv(t)
  BY <1>1, <1>2 DEF PipelineInv
<1>7. ~(s.main = "new" /\ Open(t))
  BY <1>2 DEF Open
<1>. QED  BY <1>4, <1>5, <1>6, <1>7 DEF Goes

LEMMA StaysGoes ==
  ASSUME NEW s, PipelineInv(s)
  PROVE  Goes(s, s)
<1>1. Alike(s, s)
  BY DEF Alike, PipelineInv, StreamOK
<1>. QED  BY <1>1, AlikeGoes DEF PipelineInv

\* A step may be followed by what does not touch the stream.
LEMMA GoesAlike ==
  ASSUME NEW s, NEW t, Goes(s, t), NEW u, Alike(t, u), Entry(u), SameKeys(t, u)
  PROVE  Goes(s, u)
<1>1. PipelineInv(t) /\ StreamOK(t)
  BY DEF Goes, PipelineInv
<1>2. StreamOK(u) /\ ListOf(u) = ListOf(t)
  BY <1>1, AlikeFacts
<1>3. u.main = t.main /\ u.view = t.view /\ u.last = t.last
  BY DEF Alike
<1>4. PipelineInv(u)
  BY <1>1, <1>2, <1>3 DEF PipelineInv, Unique, SameKeys
<1>5. Open(u) <=> Open(t)
  BY <1>3 DEF Open
<1>6. Advances(s, u)
  <2>1. Advances(s, t)
    BY DEF Goes
  <2>. QED  BY <1>2, <1>3, <1>5, <2>1 DEF Advances
<1>7. Works(t) => Works(u)
  BY DEF Works, SameKeys
<1>. QED  BY <1>3, <1>4, <1>5, <1>6, <1>7 DEF Goes

LEMMA AlikeTransitive ==
  ASSUME NEW s, NEW t, NEW u, Alike(s, t), Alike(t, u)
  PROVE  Alike(s, u)
BY DEF Alike

\* Nobody sees what happens to a stream without a window that is ready.
LEMMA ShutGoes ==
  ASSUME NEW s, PipelineInv(s), ~Open(s), NEW t, StreamOK(t), ~Open(t), Unique(t), Entry(t),
         t.last = s.last \/ t.last = NoBatch \/ t.last.n = 1
  PROVE  Goes(s, t)
<1>1. ListOf(s) = <<>> /\ ListOf(t) = <<>>
  BY DEF ListOf, Open
<1>2. Advances(s, t)
  <2>1. ListOf(t) = IF t.last.n = 1 /\ Open(s) THEN First(t.last.results) ELSE <<>>
    BY <1>1
  <2>2. CASE t.last = s.last
    BY <1>1, <2>2 DEF Advances
  <2>3. CASE t.last = NoBatch \/ t.last.n = 1
    BY <2>1, <2>3 DEF Advances
  <2>. QED  BY <2>2, <2>3
<1>3. t.last.n <= MaxBatches + 1
  <2>1. t.last.n = s.last.n \/ t.last.n = 0 \/ t.last.n = 1
    BY LastFacts
  <2>. QED  BY <2>1, LimitAssumption DEF PipelineInv
<1>4. PipelineInv(t)
  BY <1>3 DEF PipelineInv
<1>. QED  BY <1>2, <1>4 DEF Goes

\* close, of the main window: the list goes with it.
LEMMA CloseFacts ==
  ASSUME NEW s, StreamOK(s), NEW save \in BOOLEAN, NEW t, t = CloseMain(s, save), s.main # "none"
  PROVE  /\ StreamOK(t) /\ t.main = "none" /\ ListOf(t) = <<>> /\ t.last = s.last
         /\ SameKeys(s, t)
<1>. DEFINE text == IF save /\ s.resume THEN s.text ELSE ""
<1>1. s \in Uis /\ LoadInv(s)
  BY DEF StreamOK
<1>2. text \in Texts
  BY <1>1 DEF Uis, Texts
<1>3. t = [s EXCEPT !.text = text, !.main = "none", !.input = "", !.view = NoView]
  BY DEF CloseMain
<1>. HIDE DEF text
<1>4. Fits(NoView) /\ NoView \in Views /\ "" \in Typed
  BY NoViewFits, StripFacts DEF Fits, Texts
<1>5. t \in Uis
  BY <1>1, <1>2, <1>3, <1>4 DEF Uis
<1>6. /\ t.main = "none" /\ t.view = NoView /\ t.last = s.last /\ SameKeys(s, t)
      /\ SameStream(s, t)
  BY <1>1, <1>3 DEF Uis, SameKeys, SameStream
<1>7. NoView.items = <<>> /\ NoLoading(<<>>)
  BY DEF NoView, NoLoading
<1>8. LoadInv(t)
  BY <1>1, <1>6, <1>7 DEF LoadInv, SameStream
<1>9. ListOf(t) = <<>>
  BY <1>6 DEF ListOf
<1>. QED  BY <1>4, <1>5, <1>6, <1>8, <1>9 DEF StreamOK

\* It may happen to what a method has started over, or to what is on screen.
LEMMA CloseGoes ==
  ASSUME NEW s, PipelineInv(s), NEW f, StreamOK(f), f.main = s.main,
         f.last = s.last \/ f.last = NoBatch, Unique(f),
         NEW save \in BOOLEAN, NEW t, t = CloseMain(f, save), s.main # "none"
  PROVE  Goes(s, t)
<1>1. /\ StreamOK(t) /\ t.main = "none" /\ ListOf(t) = <<>> /\ t.last = f.last
      /\ SameKeys(f, t)
  BY CloseFacts
<1>2. ~Open(t)
  BY <1>1 DEF Open
<1>3. ASSUME Open(s) PROVE Advances(s, t)
  <2>1. (Open(t) <=> ~Open(s)) /\ ListOf(t) = IF Open(t) /\ t.last.n = 1 THEN First(t.last.results) ELSE <<>>
    BY <1>1, <1>2, <1>3
  <2>. QED  BY <2>1 DEF Advances
<1>4. ASSUME ~Open(s) PROVE Advances(s, t)
  <2>1. ListOf(s) = <<>>
    BY <1>4 DEF ListOf, Open
  <2>2. (Open(t) <=> Open(s))
    BY <1>2, <1>4
  <2>3. CASE f.last = s.last
    BY <1>1, <2>1, <2>2, <2>3 DEF Advances
  <2>4. CASE f.last = NoBatch
    <3>1. ListOf(t) = IF t.last.n = 1 /\ Open(s) THEN First(t.last.results) ELSE <<>>
      BY <1>1, <1>4
    <3>. QED  BY <1>1, <2>2, <2>4, <3>1 DEF Advances
  <2>. QED  BY <2>3, <2>4
<1>5. PipelineInv(t)
  <2>1. t.last.n <= MaxBatches + 1
    BY <1>1, LastFacts, LimitAssumption DEF PipelineInv
  <2>2. Entry(t)
    BY <1>1 DEF Entry
  <2>3. Unique(t)
    BY <1>1 DEF Unique, SameKeys
  <2>. QED  BY <1>1, <2>1, <2>2, <2>3 DEF PipelineInv
<1>6. Advances(s, t)
  BY <1>3, <1>4 DEF Open
<1>. QED  BY <1>2, <1>5, <1>6 DEF Goes

-----------------------------------------------------------------------------
(* The window, and effects.                                                 *)

\* deferred_init: every keyword that is offered works, and what was set while
\* the window was built is asked again.
LEMMA ReadyGoes ==
  ASSUME NEW s, PipelineInv(s), s.main = "new", NEW first \in Claimers,
         NEW t, t = BecomeReady(s, first)
  PROVE  Goes(s, t)
<1>. DEFINE s0 == [s EXCEPT !.main = "ready"]
            l == LoadTriggers(s0, TRUE, first)
<1>1. s \in Uis /\ Fits(s.view) /\ Entry(s) /\ Stripped[s.input] = s.text /\ s.text \in Texts
  BY DEF PipelineInv, StreamOK, Entry, Uis
<1>2. t = SetQuery(l, s.text)
  BY DEF BecomeReady
<1>3. PICK force \in BOOLEAN : force = TRUE
  OBVIOUS
<1>4. l = LoadTriggers(s0, force, first)
  BY <1>3
<1>5. /\ s0 \in Uis /\ s0.view = s.view /\ s0.main = "ready"
      /\ s0.text = s.text /\ s0.input = s.input
  BY <1>1 DEF Uis
<1>. HIDE DEF l, s0
<1>6. l \in Uis /\ l.view = s0.view /\ SameTexts(s0, l) /\ Unique(l) /\ Complete(l)
  <2>1. /\ l \in Uis /\ l.view = s0.view /\ SameTexts(s0, l)
        /\ force => Unique(l) /\ Complete(l)
    BY <1>4, <1>5, LoadFacts
  <2>. QED  BY <1>3, <2>1
<1>7. Ready(l)
  BY <1>1, <1>5, <1>6 DEF Ready, SameTexts
<1>8. Sets(l, t, s.text) /\ t.text = l.text /\ t.input = l.input
  BY <1>1, <1>2, <1>7, SetQueryFacts
<1>9. t.main = "ready" /\ t.text = s.text /\ Stripped[t.input] = s.text /\ t.query = s.text
  BY <1>1, <1>5, <1>6, <1>8 DEF Sets, SameTexts
<1>10. Unique(t) /\ Complete(t) /\ Begins(l, t)
  BY <1>6, <1>8 DEF Sets, KeepsKeys
<1>11. PipelineInv(t)
  BY <1>9, <1>10, BeginsFacts DEF PipelineInv, Begins, Entry
<1>12. Open(t) /\ ~Open(s)
  BY <1>9 DEF Open
<1>13. ListOf(t) = IF Open(t) /\ t.last.n = 1 THEN First(t.last.results) ELSE <<>>
  BY <1>9, <1>10 DEF Begins, Open
<1>14. Advances(s, t)
  BY <1>12, <1>13 DEF Advances
<1>15. Works(t)
  BY <1>10 DEF Works, Complete
<1>. QED  BY <1>11, <1>12, <1>14, <1>15 DEF Goes

\* show_launcher: what the query brings at once is not seen yet.
LEMMA OpenFacts ==
  ASSUME NEW s, PipelineInv(s), s.main = "none", NEW t, t = OpenMain(s)
  PROVE  /\ StreamOK(t) /\ t.main = "new" /\ KeepsKeys(s, t) /\ Entry(t)
         /\ t.last = s.last \/ t.last = NoBatch \/ t.last.n = 1
<1>. DEFINE s1 == IF s.text = "" THEN s ELSE SetQuery(s, s.text)
<1>1. StreamOK(s) /\ Ready(s) /\ s.text \in Texts
  BY InvReady DEF PipelineInv, StreamOK, Uis
<1>2. t = [s1 EXCEPT !.main = "new", !.input = s.text, !.view = NoView]
  BY DEF OpenMain
<1>3. /\ StreamOK(s1) /\ KeepsKeys(s, s1) /\ s1.text = s.text
      /\ s1.last = s.last \/ s1.last = NoBatch \/ s1.last.n = 1
  <2>1. CASE s.text = ""
    BY <1>1, <2>1 DEF KeepsKeys
  <2>2. CASE s.text # ""
    <3>1. s1 = SetQuery(s, s.text)
      BY <2>2
    <3>. HIDE DEF s1
    <3>2. Sets(s, s1, s.text) /\ s1.text = s.text
      BY <1>1, <3>1, SetQueryFacts
    <3>. QED  BY <3>2 DEF Sets, Begins
  <2>. QED  BY <2>1, <2>2
<1>. HIDE DEF s1
<1>4. s1 \in Uis /\ LoadInv(s1)
  BY <1>3 DEF StreamOK
<1>5. Fits(NoView) /\ NoView \in Views
  BY NoViewFits DEF Fits
<1>6. t \in Uis
  BY <1>1, <1>2, <1>4, <1>5, StripFacts DEF Uis
<1>7. /\ t.main = "new" /\ t.view = NoView /\ SameKeys(s1, t)
      /\ SameStream(s1, t) /\ t.input = s.text /\ t.text = s1.text
  BY <1>2, <1>4 DEF Uis, SameKeys, SameStream
<1>8. NoView.items = <<>> /\ NoLoading(<<>>)
  BY DEF NoView, NoLoading
<1>9. LoadInv(t)
  BY <1>4, <1>7, <1>8 DEF LoadInv, SameStream
<1>10. StreamOK(t)
  BY <1>5, <1>6, <1>7, <1>9 DEF StreamOK
<1>11. KeepsKeys(s, t)
  BY <1>3, <1>7, SameKeepsKeys, KeepsKeysTransitive
<1>12. t.last = s1.last
  BY <1>7 DEF SameStream
<1>. QED  BY <1>1, <1>3, <1>7, <1>10, <1>11, <1>12, StripFacts DEF Entry

LEMMA OpenGoes ==
  ASSUME NEW s, PipelineInv(s), NEW t, t = OpenMain(s)
  PROVE  Goes(s, t) /\ t.main # "none"
<1>1. CASE s.main # "none"
  <2>1. t = s
    BY <1>1 DEF OpenMain
  <2>. QED  BY <1>1, <2>1, StaysGoes
<1>2. CASE s.main = "none"
  <2>1. /\ StreamOK(t) /\ t.main = "new" /\ KeepsKeys(s, t) /\ Entry(t)
        /\ t.last = s.last \/ t.last = NoBatch \/ t.last.n = 1
    BY <1>2, OpenFacts
  <2>2. ~Open(s) /\ ~Open(t)
    BY <1>2, <2>1 DEF Open
  <2>3. Unique(t)
    BY <2>1 DEF PipelineInv, KeepsKeys
  <2>. QED  BY <2>1, <2>2, <2>3, ShutGoes
<1>. QED  BY <1>1, <1>2

\* app:set_query, after a method has started over or only changed the query.
LEMMA SetGoes ==
  ASSUME NEW s, PipelineInv(s), NEW f, Blank(s, f) \/ Alike(s, f), f.main = s.main,
         f.input = s.input, NEW q \in Texts, f.query \in {s.query, q}, SameKeys(s, f),
         NEW t, t = AppSetQuery(f, q)
  PROVE  Goes(s, t)
<1>1. StreamOK(f) /\ f.view = s.view
  BY AlikeFacts DEF Blank, Alike, PipelineInv
<1>2. Ready(f)
  BY <1>1, InvReady
<1>3. CASE f.main # "none" /\ Sets(f, t, q) /\ t.text = q /\ t.input = q
  <2>1. Begins(s, t)
    BY <1>1, <1>3 DEF Sets, Begins
  <2>2. KeepsKeys(s, t)
    BY <1>3, SameKeepsKeys, KeepsKeysTransitive DEF Sets
  <2>3. t.main = s.main /\ Entry(t)
    BY <1>3, StripFacts DEF Sets, Entry
  <2>. QED  BY <2>1, <2>2, <2>3, BeginsGoes
<1>4. CASE /\ f.main = "none" \/ f.input = q
           /\ Alike(f, t) /\ SameKeys(f, t) /\ t.text = q
           /\ t.input = f.input /\ t.query = f.query
  <2>1. t.main = s.main
    BY <1>4 DEF Alike
  <2>2. Entry(t)
    BY <1>4, <2>1, StripFacts DEF PipelineInv, Entry
  <2>3. SameKeys(s, t) /\ Unique(t)
    BY <1>4 DEF SameKeys, Unique, PipelineInv
  <2>4. CASE Blank(s, f)
    <3>1. Begins(s, t)
      BY <1>4, <2>4, AlikeBlank, BlankBegins
    <3>. QED  BY <2>1, <2>2, <2>3, <3>1, BeginsGoes, SameKeepsKeys
  <2>5. CASE Alike(s, f)
    <3>1. Alike(s, t)
      BY <1>4, <2>5, AlikeTransitive
    <3>. QED  BY <2>2, <2>3, <3>1, AlikeGoes
  <2>. QED  BY <2>4, <2>5
<1>. QED  BY <1>2, <1>3, <1>4, AppSetQueryFacts

\* A batch that belongs to the stream on screen.
LEMMA TakesGoes ==
  ASSUME NEW s, PipelineInv(s), NEW f, Alike(s, f), SameTexts(s, f), SameKeys(s, f),
         s.last.n <= MaxBatches, NEW r, NEW append, NEW t, Takes(f, r, append, t)
  PROVE  Goes(s, t)
<1>1. StreamOK(f) /\ ListOf(f) = ListOf(s) /\ f.view = s.view /\ f.last = s.last
  BY AlikeFacts DEF PipelineInv, Alike
<1>2. /\ StreamOK(t) /\ KeepsPick(f.view, t.view)
      /\ SameTexts(f, t) /\ SameKeys(f, t)
      /\ t.last.n = f.last.n + 1 /\ t.last.append = append /\ t.last.results = r
      /\ ListOf(t) = IF f.main # "ready" THEN <<>>
                     ELSE First(IF append THEN ListOf(f) \o r ELSE r)
  BY DEF Takes
<1>3. SameTexts(s, t) /\ SameKeys(s, t)
  BY <1>2 DEF SameTexts, SameKeys
<1>4. f.main = s.main /\ t.main = s.main
  BY <1>3 DEF SameTexts
<1>5. (Open(t) <=> Open(s)) /\ ~(s.main = "new" /\ Open(t))
  BY <1>4 DEF Open
<1>6. t.last.n = s.last.n + 1
  BY <1>1, <1>2
<1>7. ListOf(t) = IF ~Open(s) THEN <<>>
                  ELSE First(IF t.last.append THEN ListOf(s) \o t.last.results
                             ELSE t.last.results)
  BY <1>1, <1>2, <1>4 DEF Open
<1>8. Advances(s, t)
  BY <1>5, <1>6, <1>7 DEF Advances
<1>9. Entry(t) /\ Unique(t)
  BY <1>3 DEF PipelineInv, Entry, Unique, SameTexts, SameKeys
<1>10. t.last.n <= MaxBatches + 1
  <2>1. s.last.n \in Nat
    BY DEF PipelineInv, StreamOK, Uis, Lasts
  <2>. QED  BY <1>6, <2>1, LimitAssumption
<1>11. PipelineInv(t)
  BY <1>2, <1>9, <1>10 DEF PipelineInv
<1>. QED  BY <1>1, <1>2, <1>5, <1>8, <1>11 DEF Goes

-----------------------------------------------------------------------------
(* _mode_callback                                                           *)

\* What an answer of a mode may be.
EffectOK(e) ==
  \/ \E r \in Seq(Items), append, final \in BOOLEAN :
       NoLoading(r) /\ e = RenderEffect(r, append, final)
  \/ \E q \in Typed : e = SetQueryEffect(q)
  \/ e = CloseEffect \/ e = Nothing

\* What becomes of it, once it is known to be for the mode that is asked.
Does(f, e, t) ==
  \/ t = f
  \/ \E r \in Seq(Items), append, final \in BOOLEAN :
       /\ NoLoading(r) /\ e = RenderEffect(r, append, final)
       /\ t = Enqueue(f, r, append, final)
  \/ \E q \in Texts : t = AppSetQuery(f, q)
  \/ t = CloseMain(f, FALSE)

LEMMA CallbackCases ==
  ASSUME NEW s \in Uis, NEW valid, NEW e, EffectOK(e), NEW t, t = Callback(s, valid, e)
  PROVE  \/ t = s
         \/ \E f : Alike(s, f) /\ SameTexts(s, f) /\ SameKeys(s, f) /\ Does(f, e, t)
<1>. DEFINE f == [s EXCEPT !.loading = FALSE]
<1>1. Alike(s, f) /\ SameTexts(s, f) /\ SameKeys(s, f)
  BY DEF Uis, Alike, SameTexts, SameKeys
<1>2. t = CASE valid \notin {s.mode, None} -> s
            [] e.type = "render" -> Enqueue(f, e.results, e.append, e.final)
            [] e.type = "set_query" -> AppSetQuery(f, e.query)
            [] e.type = "close" -> CloseMain(f, FALSE)
            [] OTHER -> f
  BY DEF Callback
<1>. HIDE DEF f
<1>3. CASE \E r \in Seq(Items), append, final \in BOOLEAN :
             NoLoading(r) /\ e = RenderEffect(r, append, final)
  <2>1. PICK r \in Seq(Items), append \in BOOLEAN, final \in BOOLEAN :
               NoLoading(r) /\ e = RenderEffect(r, append, final)
    BY <1>3
  <2>2. /\ e.type = "render" /\ e.results = r /\ e.append = append /\ e.final = final
    BY <2>1 DEF RenderEffect
  <2>3. t = s \/ t = Enqueue(f, r, append, final)
    BY <1>2, <2>2
  <2>. QED  BY <1>1, <2>1, <2>3 DEF Does
<1>4. CASE \E q \in Typed : e = SetQueryEffect(q)
  <2>1. PICK q \in Typed : e = SetQueryEffect(q)
    BY <1>4
  <2>2. e.type = "set_query" /\ e.query = q
    BY <2>1 DEF SetQueryEffect
  <2>3. t = s \/ t = AppSetQuery(f, q)
    BY <1>2, <2>2
  <2>4. Stripped[q] \in Texts /\ (t = s \/ t = AppSetQuery(f, Stripped[q]))
    BY <2>1, <2>3, StripsFirst
  <2>. QED  BY <1>1, <2>4 DEF Does
<1>5. CASE e = CloseEffect
  <2>1. e.type = "close"
    BY <1>5 DEF CloseEffect
  <2>2. t = s \/ t = CloseMain(f, FALSE)
    BY <1>2, <2>1
  <2>. QED  BY <1>1, <2>2 DEF Does
<1>6. CASE e = Nothing
  <2>1. e.type = "nothing"
    BY <1>6 DEF Nothing
  <2>2. t = s \/ t = f
    BY <1>2, <2>1
  <2>. QED  BY <1>1, <2>2 DEF Does
<1>. QED  BY <1>3, <1>4, <1>5, <1>6 DEF EffectOK

\* An answer that comes later goes to the stream that is on screen, if its
\* mode is still the one that is asked.
LEMMA AnswerGoes ==
  ASSUME NEW s, PipelineInv(s), NEW valid, NEW e, EffectOK(e),
         e.type = "render" => s.last.n <= MaxBatches,
         NEW t, t = Callback(s, valid, e)
  PROVE  Goes(s, t)
<1>1. s \in Uis /\ StreamOK(s) /\ Unique(s) /\ Entry(s)
  BY DEF PipelineInv, StreamOK
<1>2. CASE t = s
  BY <1>2, StaysGoes
<1>3. ASSUME NEW f, Alike(s, f), SameTexts(s, f), SameKeys(s, f), Does(f, e, t)
      PROVE  Goes(s, t)
  <2>1. StreamOK(f) /\ Unique(f) /\ Entry(f) /\ f.main = s.main /\ f.last = s.last
    BY <1>1, <1>3, AlikeFacts DEF Unique, Entry, SameTexts, SameKeys, Alike
  <2>2. CASE t = f
    BY <1>3, <2>1, <2>2, AlikeGoes
  <2>3. CASE \E r \in Seq(Items), append, final \in BOOLEAN :
               /\ NoLoading(r) /\ e = RenderEffect(r, append, final)
               /\ t = Enqueue(f, r, append, final)
    <3>1. PICK r \in Seq(Items), append \in BOOLEAN, final \in BOOLEAN :
                 /\ NoLoading(r) /\ e = RenderEffect(r, append, final)
                 /\ t = Enqueue(f, r, append, final)
      BY <2>3
    <3>2. Takes(f, r, append, t)
      BY <2>1, <3>1, EnqueueTakes
    <3>3. e.type = "render"
      BY <3>1 DEF RenderEffect
    <3>. QED  BY <1>3, <3>2, <3>3, TakesGoes
  <2>4. CASE \E q \in Texts : t = AppSetQuery(f, q)
    <3>1. PICK q \in Texts : t = AppSetQuery(f, q)
      BY <2>4
    <3>2. f.main = s.main /\ f.input = s.input /\ f.query \in {s.query, q}
      BY <1>3 DEF SameTexts
    <3>. QED  BY <1>3, <3>1, <3>2, SetGoes
  <2>5. CASE t = CloseMain(f, FALSE)
    <3>1. CASE f.main = "none"
      <4>1. t = f
        BY <2>5, <3>1 DEF CloseMain
      <4>. QED  BY <2>2, <4>1
    <3>2. CASE f.main # "none"
      <4>1. PICK save \in BOOLEAN : save = FALSE
        OBVIOUS
      <4>2. t = CloseMain(f, save) /\ s.main # "none"
        BY <2>1, <2>5, <3>2, <4>1
      <4>. QED  BY <2>1, <4>2, CloseGoes
    <3>. QED  BY <3>1, <3>2
  <2>. QED  BY <1>3, <2>2, <2>3, <2>4, <2>5 DEF Does
<1>4. \/ t = s
      \/ \E f : Alike(s, f) /\ SameTexts(s, f) /\ SameKeys(s, f) /\ Does(f, e, t)
  BY <1>1, CallbackCases
<1>. QED  BY <1>2, <1>3, <1>4

\* An answer that comes at once, to a method that has started over.
LEMMA CallbackGoes ==
  ASSUME NEW s, PipelineInv(s), s.main # "none",
         NEW f, Blank(s, f), SameTexts(s, f), SameKeys(s, f),
         NEW valid, NEW e, EffectOK(e), NEW t, t = Callback(f, valid, e)
  PROVE  Goes(s, t)
<1>1. f \in Uis
  BY DEF Blank, StreamOK
<1>2. ASSUME NEW u, Blank(s, u), SameTexts(s, u), SameKeys(s, u)
      PROVE  Goes(s, u) /\ Unique(u) /\ StreamOK(u)
  <2>1. Entry(u) /\ Unique(u) /\ u.main = s.main
    BY <1>2 DEF PipelineInv, Entry, Unique, SameTexts, SameKeys
  <2>2. KeepsKeys(s, u) /\ Begins(s, u)
    BY <1>2, SameKeepsKeys, BlankBegins
  <2>. QED  BY <1>2, <2>1, <2>2, BeginsGoes DEF Blank
<1>3. CASE t = f
  BY <1>2, <1>3
<1>4. ASSUME NEW u, Alike(f, u), SameTexts(f, u), SameKeys(f, u), Does(u, e, t)
      PROVE  Goes(s, t)
  <2>1. Blank(s, u) /\ SameTexts(s, u) /\ SameKeys(s, u)
    BY <1>4, AlikeBlank DEF SameTexts, SameKeys
  <2>2. Goes(s, u) /\ Unique(u) /\ StreamOK(u) /\ u.main = s.main
    BY <1>2, <2>1 DEF SameTexts
  <2>3. CASE t = u
    BY <2>2, <2>3
  <2>4. CASE \E r \in Seq(Items), append, final \in BOOLEAN :
               /\ NoLoading(r) /\ e = RenderEffect(r, append, final)
               /\ t = Enqueue(u, r, append, final)
    <3>1. PICK r \in Seq(Items), append \in BOOLEAN, final \in BOOLEAN :
                 NoLoading(r) /\ t = Enqueue(u, r, append, final)
      BY <2>4
    <3>2. Begins(s, t) /\ SameTexts(u, t) /\ SameKeys(u, t)
      BY <2>1, <3>1, BlankEnqueues
    <3>3. SameTexts(s, t) /\ SameKeys(s, t)
      BY <2>1, <3>2 DEF SameTexts, SameKeys
    <3>4. Entry(t) /\ t.main = s.main /\ KeepsKeys(s, t)
      BY <3>3, SameKeepsKeys DEF PipelineInv, Entry, SameTexts
    <3>. QED  BY <3>2, <3>4, BeginsGoes
  <2>5. CASE \E q \in Texts : t = AppSetQuery(u, q)
    <3>1. PICK q \in Texts : t = AppSetQuery(u, q)
      BY <2>5
    <3>2. u.main = s.main /\ u.input = s.input /\ u.query \in {s.query, q}
      BY <2>1 DEF SameTexts
    <3>. QED  BY <2>1, <3>1, <3>2, SetGoes
  <2>6. CASE t = CloseMain(u, FALSE)
    <3>1. PICK save \in BOOLEAN : save = FALSE
      OBVIOUS
    <3>2. t = CloseMain(u, save) /\ u.last = NoBatch
      BY <2>1, <2>6, <3>1 DEF Blank
    <3>. QED  BY <2>2, <3>2, CloseGoes
  <2>. QED  BY <1>4, <2>3, <2>4, <2>5, <2>6 DEF Does
<1>5. \/ t = f
      \/ \E u : Alike(f, u) /\ SameTexts(f, u) /\ SameKeys(f, u) /\ Does(u, e, t)
  BY <1>1, CallbackCases
<1>. QED  BY <1>3, <1>4, <1>5

\* _remember_pick, after a reset.
LEMMA RememberBlank ==
  ASSUME NEW s, StreamOK(s), NEW item \in Items, NEW t, t = Remember(Reset(s), item)
  PROVE  Blank(s, t) /\ ~t.answered /\ SameTexts(s, t) /\ SameKeys(s, t)
<1>. DEFINE r == Reset(s)
<1>1. Blank(s, r) /\ ~r.answered /\ SameTexts(s, r) /\ SameKeys(s, r)
  BY InvReady, ResetBlank
<1>2. t = Remember(r, item)
  OBVIOUS
<1>. HIDE DEF r
<1>3. CASE t = r
  BY <1>1, <1>3
<1>4. CASE t = [r EXCEPT !.picks[r.query] = item.name]
  <2>1. r \in Uis
    BY <1>1 DEF Blank, StreamOK
  <2>2. r.picks \in [Texts -> Names] /\ item.name \in Names
    BY <2>1 DEF Uis, Items
  <2>. DEFINE picks == [r.picks EXCEPT ![r.query] = item.name]
  <2>3. picks \in [Texts -> Names] /\ t = [r EXCEPT !.picks = picks]
    BY <1>4, <2>2
  <2>. HIDE DEF picks
  <2>4. Alike(r, t) /\ SameTexts(r, t) /\ SameKeys(r, t) /\ t.answered = r.answered
    BY <2>1, <2>3 DEF Uis, Alike, SameTexts, SameKeys
  <2>. QED  BY <1>1, <2>4, AlikeBlank DEF SameTexts, SameKeys
<1>. QED  BY <1>2, <1>3, <1>4 DEF Remember

\* The result that is selected, if there is one.
LEMMA SelectedItem ==
  ASSUME NEW s, StreamOK(s), s.view.items # <<>>
  PROVE  s.view.items[s.view.index] \in Items
<1>1. s.view.items \in Seq(Items) /\ s.view.index \in 1..Len(s.view.items)
  BY DEF StreamOK, Fits, Views
<1>. QED  BY <1>1

LEMMA ActionItems ==
  ASSUME NEW item \in Items
  PROVE  ActionsOf(item) \in Seq(Items)
<1>1. item.kind \in Kinds
  BY DEF Items
<1>2. \A n \in 1..2 : [Item("action", n) EXCEPT !.of = item.kind] \in Items
  BY <1>1 DEF Item, Items, Kinds, Names
<1>. QED  BY <1>2 DEF ActionsOf

\* What the modes do when a result is activated is an answer they may give.
LEMMA OutcomesOK ==
  ASSUME NEW mode, NEW item, NEW e \in Outcomes(mode, item)
  PROVE  EffectOK(e)
<1>1. EffectOK(CloseEffect) /\ EffectOK(Nothing)
  BY DEF EffectOK
<1>2. EffectOK(RenderEffect(<<Item("opener", 1)>>, FALSE, TRUE))
  <2>1. <<Item("opener", 1)>> \in Seq(Items) /\ NoLoading(<<Item("opener", 1)>>)
    BY OneItem DEF Kinds
  <2>. QED  BY <2>1 DEF EffectOK
<1>3. \A q \in FileQueries : EffectOK(SetQueryEffect(q))
  BY QueryAssumption, StripFacts DEF EffectOK, Texts
<1>4. e \in AppOutcomes \cup ShortcutOutcomes \cup FileOutcomes
  BY DEF Outcomes, AppOutcomes, ShortcutOutcomes, FileOutcomes
<1>. QED  BY <1>1, <1>2, <1>3, <1>4 DEF AppOutcomes, ShortcutOutcomes, FileOutcomes

-----------------------------------------------------------------------------
(* The steps of the user.                                                   *)

LEMMA BlankGoes ==
  ASSUME NEW s, PipelineInv(s), NEW t, Blank(s, t), SameTexts(s, t), SameKeys(s, t)
  PROVE  Goes(s, t)
<1>1. Entry(t) /\ t.main = s.main
  BY DEF PipelineInv, Entry, SameTexts
<1>. QED  BY <1>1, BlankBegins, SameKeepsKeys, BeginsGoes

LEMMA TypeGoes ==
  ASSUME NEW s, PipelineInv(s), NEW q \in Typed, NEW t, t = InputChanged(s, q)
  PROVE  Goes(s, t)
<1>1. Ready(s)
  BY InvReady DEF PipelineInv
<1>2. Sets(s, t, Stripped[q]) /\ t.text = Stripped[q] /\ t.input = q
  BY <1>1, InputChangedFacts
<1>. QED  BY <1>2, BeginsGoes DEF Sets, Entry

LEMMA BackspaceGoes ==
  ASSUME NEW s, PipelineInv(s), NEW q \in Texts,
         NEW t, t = AppSetQuery([s EXCEPT !.query = q], q)
  PROVE  Goes(s, t)
<1>. DEFINE f == [s EXCEPT !.query = q]
<1>1. /\ Alike(s, f) /\ f.main = s.main /\ f.input = s.input /\ f.query \in {s.query, q}
      /\ SameKeys(s, f)
  BY DEF PipelineInv, StreamOK, Uis, Alike, SameKeys
<1>2. t = AppSetQuery(f, q)
  OBVIOUS
<1>. HIDE DEF f
<1>. QED  BY <1>1, <1>2, SetGoes

\* Moving the selection changes nothing of the list.
LEMMA SelectSteps ==
  ASSUME NEW s, PipelineInv(s), s.main # "none", NEW i \in DOMAIN s.view.items,
         NEW t, t = [s EXCEPT !.view.index = i, !.view.picked = TRUE]
  PROVE  Steps(s, t)
<1>. DEFINE v == [s.view EXCEPT !.index = i, !.picked = TRUE]
<1>1. s \in Uis /\ LoadInv(s) /\ Fits(s.view) /\ s.view \in Views /\ s.view.items \in Seq(Items)
  BY DEF PipelineInv, StreamOK, Fits, Views
<1>2. i \in 1..Len(s.view.items) /\ Len(s.view.items) \in Nat
  BY <1>1
<1>3. s.view.items # <<>>
  BY <1>1, <1>2
<1>a. i \in Nat
  BY <1>2
<1>4. v \in Views /\ v.items = s.view.items /\ v.index = i /\ v.picked = TRUE
  BY <1>1, <1>a DEF Views
<1>5. t = [s EXCEPT !.view = v]
  BY <1>1 DEF Uis
<1>. HIDE DEF v
<1>6. Fits(v)
  BY <1>1, <1>2, <1>3, <1>4 DEF Fits
<1>7. t \in Uis /\ t.view = v
  BY <1>1, <1>4, <1>5 DEF Uis
<1>8. SameTexts(s, t) /\ SameKeys(s, t) /\ SameStream(s, t)
  BY <1>1, <1>5 DEF Uis, SameTexts, SameKeys, SameStream
<1>9. LoadInv(t)
  BY <1>1, <1>4, <1>7, <1>8 DEF LoadInv, SameStream
<1>10. StreamOK(t)
  BY <1>6, <1>7, <1>8, <1>9 DEF StreamOK, SameTexts
<1>11. ListOf(t) = ListOf(s)
  BY <1>4, <1>7, <1>8 DEF ListOf, Sum, SameTexts, SameStream
<1>12. Selects(s, t)
  BY <1>4, <1>5, <1>7 DEF Selects
<1>13. (Open(t) <=> Open(s)) /\ ~(s.main = "new" /\ Open(t)) /\ t.last = s.last
  BY <1>8 DEF Open, SameTexts, SameStream
<1>14. Advances(s, t)
  BY <1>11, <1>13 DEF Advances
<1>15. PipelineInv(t)
  BY <1>8, <1>10, <1>13 DEF PipelineInv, Entry, Unique, SameTexts, SameKeys
<1>. QED  BY <1>12, <1>13, <1>14, <1>15 DEF Steps

LEMMA KeywordGoes ==
  ASSUME NEW s, PipelineInv(s), NEW item \in Items, NEW q \in Texts,
         NEW t, t = AppSetQuery(Remember(Reset(s), item), q)
  PROVE  Goes(s, t)
<1>. DEFINE f == Remember(Reset(s), item)
<1>1. Blank(s, f) /\ SameTexts(s, f) /\ SameKeys(s, f)
  BY RememberBlank DEF PipelineInv
<1>2. t = AppSetQuery(f, q)
  OBVIOUS
<1>. HIDE DEF f
<1>3. f.main = s.main /\ f.input = s.input /\ f.query \in {s.query, q}
  BY <1>1 DEF SameTexts
<1>. QED  BY <1>1, <1>2, <1>3, SetGoes

LEMMA ActionsGo ==
  ASSUME NEW s, PipelineInv(s), NEW item \in Items,
         NEW append \in BOOLEAN, NEW t, t = Render(Reset(s), ActionsOf(item), append)
  PROVE  Goes(s, t)
<1>. DEFINE f == Reset(s)
<1>1. Blank(s, f) /\ ~f.answered /\ SameTexts(s, f) /\ SameKeys(s, f)
  BY InvReady, ResetBlank DEF PipelineInv
<1>2. t = Render(f, ActionsOf(item), append)
  OBVIOUS
<1>. HIDE DEF f
<1>3. Begins(s, t) /\ SameTexts(f, t) /\ SameKeys(f, t)
  BY <1>1, <1>2, ActionItems, BlankRenders
<1>4. SameTexts(s, t) /\ SameKeys(s, t)
  BY <1>1, <1>3 DEF SameTexts, SameKeys
<1>5. Entry(t) /\ t.main = s.main
  BY <1>4 DEF PipelineInv, Entry, SameTexts
<1>. QED  BY <1>3, <1>4, <1>5, SameKeepsKeys, BeginsGoes

LEMMA AsksGoes ==
  ASSUME NEW s, PipelineInv(s), NEW item \in Items, NEW r \in Requests,
         NEW f, f = Remember(Reset(s), item),
         NEW t, t = [f EXCEPT !.pending = r]
  PROVE  Goes(s, t)
<1>1. Blank(s, f) /\ SameTexts(s, f) /\ SameKeys(s, f)
  BY RememberBlank DEF PipelineInv
<1>2. f \in Uis
  BY <1>1 DEF Blank, StreamOK
<1>3. Alike(f, t) /\ SameTexts(f, t) /\ SameKeys(f, t)
  BY <1>2 DEF Uis, Alike, SameTexts, SameKeys
<1>4. Blank(s, t) /\ SameTexts(s, t) /\ SameKeys(s, t)
  BY <1>1, <1>3, AlikeBlank DEF SameTexts, SameKeys
<1>. QED  BY <1>4, BlankGoes

LEMMA LeaveGoes ==
  ASSUME NEW s, PipelineInv(s), NEW save \in BOOLEAN, NEW t, t = CloseMain(s, save)
  PROVE  Goes(s, t)
<1>1. CASE s.main = "none"
  <2>1. t = s
    BY <1>1 DEF CloseMain
  <2>. QED  BY <2>1, StaysGoes
<1>2. CASE s.main # "none"
  BY <1>2, CloseGoes DEF PipelineInv
<1>. QED  BY <1>1, <1>2

LEMMA ActivateQueryGoes ==
  ASSUME NEW s, PipelineInv(s), NEW q \in Texts, NEW t, t = AppSetQuery(OpenMain(s), q)
  PROVE  Goes(s, t)
<1>. DEFINE o == OpenMain(s)
<1>1. CASE s.main # "none"
  <2>1. o = s
    BY <1>1 DEF OpenMain
  <2>2. Alike(s, s) /\ SameKeys(s, s)
    BY DEF PipelineInv, StreamOK, Alike, SameKeys
  <2>3. t = AppSetQuery(s, q)
    BY <2>1
  <2>. QED  BY <2>2, <2>3, SetGoes
<1>2. CASE s.main = "none"
  <2>1. /\ StreamOK(o) /\ o.main = "new" /\ KeepsKeys(s, o) /\ Entry(o)
        /\ o.last = s.last \/ o.last = NoBatch \/ o.last.n = 1
    BY <1>2, OpenFacts
  <2>2. t = AppSetQuery(o, q)
    OBVIOUS
  <2>. HIDE DEF o
  <2>3. Ready(o)
    BY <2>1, InvReady
  <2>4. CASE Sets(o, t, q) /\ t.text = q /\ t.input = q
    <3>1. StreamOK(t) /\ (t.last = NoBatch \/ t.last.n = 1) /\ t.main = "new" /\ KeepsKeys(s, t)
      BY <2>1, <2>4, KeepsKeysTransitive DEF Sets, Begins
    <3>2. Entry(t) /\ ~Open(t) /\ ~Open(s)
      BY <1>2, <2>4, <3>1, StripFacts DEF Entry, Open
    <3>3. Unique(t)
      BY <3>1 DEF PipelineInv, KeepsKeys
    <3>. QED  BY <3>1, <3>2, <3>3, ShutGoes
  <2>5. CASE o.input = q /\ Alike(o, t) /\ SameKeys(o, t) /\ t.text = q /\ t.input = o.input
    <3>1. StreamOK(t) /\ t.main = "new" /\ t.last = o.last
      BY <2>1, <2>5, AlikeFacts DEF Alike
    <3>2. KeepsKeys(s, t)
      BY <2>1, <2>5, SameKeepsKeys, KeepsKeysTransitive
    <3>3. Entry(t) /\ ~Open(t) /\ ~Open(s) /\ Unique(t)
      BY <1>2, <2>5, <3>1, <3>2, StripFacts DEF Entry, Open, PipelineInv, KeepsKeys
    <3>. QED  BY <2>1, <3>1, <3>3, ShutGoes
  <2>. QED  BY <2>1, <2>2, <2>3, <2>4, <2>5, AppSetQueryFacts
<1>. QED  BY <1>1, <1>2

-----------------------------------------------------------------------------
(* The steps of the timers and of the modes.                                *)

\* The placeholder only comes before the first answer.
LEMMA PlaceholderGoes ==
  ASSUME NEW s, PipelineInv(s), s.loading, NEW append \in BOOLEAN,
         NEW t, t = Render(s, <<Loading>>, append)
  PROVE  Goes(s, t)
<1>1. StreamOK(s) /\ ~s.answered
  BY DEF PipelineInv, StreamOK, LoadInv
<1>2. <<Loading>> \in Seq(Items)
  BY ItemFacts DEF Loading, Kinds
<1>3. /\ StreamOK(t) /\ KeepsPick(s.view, t.view)
      /\ SameTexts(s, t) /\ SameKeys(s, t)
      /\ t.last = s.last /\ ListOf(t) = <<>> /\ ListOf(s) = <<>>
  BY <1>1, <1>2, UnansweredRenders
<1>4. (Open(t) <=> Open(s)) /\ ~(s.main = "new" /\ Open(t))
  BY <1>3 DEF Open, SameTexts
<1>5. Advances(s, t)
  BY <1>3, <1>4 DEF Advances
<1>6. PipelineInv(t)
  BY <1>3 DEF PipelineInv, Entry, Unique, SameTexts, SameKeys
<1>. QED  BY <1>3, <1>4, <1>5, <1>6 DEF Goes

\* A paint that was throttled shows what was announced.
LEMMA PaintGoes ==
  ASSUME NEW s, PipelineInv(s), s.throttle, NEW t, t = Paint(s)
  PROVE  Goes(s, t)
<1>1. s \in Uis /\ Fits(s.view) /\ LoadInv(s) /\ (s.main = "none" => s.view = NoView)
  BY DEF PipelineInv, StreamOK
<1>2. s.buffered /\ s.answered /\ NoLoading(s.buffer) /\ (s.painted => NoLoading(s.view.items))
  BY <1>1 DEF LoadInv
<1>3. /\ StreamOK(t) /\ KeepsPick(s.view, t.view) /\ t.last = s.last
      /\ SameTexts(s, t) /\ SameKeys(s, t)
      /\ ListOf(t) = IF s.main # "ready" THEN <<>> ELSE First(Sum(s))
  BY <1>1, <1>2, PaintLeaves
<1>4. ListOf(t) = ListOf(s)
  BY <1>2, <1>3 DEF ListOf
<1>5. (Open(t) <=> Open(s)) /\ ~(s.main = "new" /\ Open(t))
  BY <1>3 DEF Open, SameTexts
<1>6. Advances(s, t)
  BY <1>3, <1>4, <1>5 DEF Advances
<1>7. PipelineInv(t)
  BY <1>3 DEF PipelineInv, Entry, Unique, SameTexts, SameKeys
<1>. QED  BY <1>3, <1>5, <1>6, <1>7 DEF Goes

\* The last answer to a request takes its callback along.
LEMMA AnsweredGoes ==
  ASSUME NEW s, NEW t, Goes(s, t), NEW u, u = [t EXCEPT !.pending = NoRequest]
  PROVE  Goes(s, u)
<1>1. t \in Uis
  BY DEF Goes, PipelineInv, StreamOK
<1>2. Alike(t, u) /\ SameTexts(t, u) /\ SameKeys(t, u)
  BY <1>1, LastFacts DEF Uis, Alike, SameTexts, SameKeys
<1>3. Entry(u)
  BY <1>2 DEF Goes, PipelineInv, Entry, SameTexts
<1>. QED  BY <1>2, <1>3, GoesAlike

LEMMA ReloadGoes ==
  ASSUME NEW s, PipelineInv(s), NEW t, t = SetQuery(s, s.text)
  PROVE  Goes(s, t)
<1>1. Ready(s) /\ s.text \in Texts
  BY InvReady DEF PipelineInv, StreamOK, Uis
<1>2. Sets(s, t, s.text) /\ t.text = s.text /\ t.input = s.input
  BY <1>1, SetQueryFacts
<1>. QED  BY <1>2, BeginsGoes DEF Sets, Entry, PipelineInv

LEMMA LoadGoes ==
  ASSUME NEW s, PipelineInv(s), NEW force \in BOOLEAN, NEW first \in Claimers,
         NEW t, t = LoadTriggers(s, force, first)
  PROVE  Goes(s, t)
<1>1. /\ t \in Uis /\ t.view = s.view
      /\ SameTexts(s, t) /\ SameStream(s, t) /\ KeepsKeys(s, t)
  BY LoadFacts DEF PipelineInv, StreamOK
<1>2. Alike(s, t)
  BY <1>1 DEF Alike, SameTexts, SameStream
<1>3. Unique(t) /\ Entry(t)
  BY <1>1 DEF PipelineInv, KeepsKeys, Entry, SameTexts
<1>. QED  BY <1>2, <1>3, AlikeGoes

LEMMA OffersGo ==
  ASSUME NEW s, PipelineInv(s), NEW m \in Claimers, NEW offers \in SUBSET Keywords,
         NEW filled \in BOOLEAN,
         NEW t, t = [s EXCEPT !.offers[m] = offers, !.filled = filled]
  PROVE  Goes(s, t)
<1>1. s \in Uis /\ s.offers \in Claims
  BY DEF PipelineInv, StreamOK, Uis
<1>. DEFINE all == [s.offers EXCEPT ![m] = offers]
<1>2. all \in Claims
  BY <1>1 DEF Claims
<1>3. t = [s EXCEPT !.offers = all, !.filled = filled]
  OBVIOUS
<1>. HIDE DEF all
<1>4. Alike(s, t) /\ SameTexts(s, t) /\ t.claims = s.claims
  BY <1>1, <1>2, <1>3 DEF Uis, Alike, SameTexts
<1>5. Unique(t) /\ Entry(t)
  BY <1>4 DEF PipelineInv, Unique, Entry, SameTexts
<1>. QED  BY <1>4, <1>5, AlikeGoes

-----------------------------------------------------------------------------
(* The steps of the app.                                                    *)

LEMMA PipelineStep ==
  ASSUME NEW next, Pipeline(next), Goes(ui, next)
  PROVE  Goes(ui, ui')
BY DEF Pipeline

LEMMA UserGoes ==
  ASSUME PipelineInv(ui),
         \/ \E q \in Typed : Type(q)
         \/ Backspace \/ ActivateKeyword \/ ShowActions \/ Leave
         \/ \E q \in Typed : ActivateQuery(q)
         \/ ShowLauncher \/ CloseLauncher
  PROVE  Goes(ui, ui')
<1>1. StreamOK(ui) /\ ui \in Uis
  BY DEF PipelineInv, StreamOK
<1>2. HasActive => Active \in Items
  BY <1>1, SelectedItem DEF HasActive, Active
<1>3. CASE \E q \in Typed : Type(q)
  BY <1>3, TypeGoes, PipelineStep DEF Type
<1>4. CASE Backspace
  <2>1. Parent[ui.text] \in Texts
    BY <1>4, QueryAssumption DEF Backspace, Texts
  <2>2. Pipeline(AppSetQuery([ui EXCEPT !.query = Parent[ui.text]], Parent[ui.text]))
    BY <1>4 DEF Backspace
  <2>. DEFINE q == Parent[ui.text]
              next == AppSetQuery([ui EXCEPT !.query = q], q)
  <2>3. q \in Texts /\ Pipeline(next)
    BY <2>1, <2>2
  <2>. HIDE DEF q
  <2>4. Goes(ui, next)
    BY <2>3, BackspaceGoes
  <2>. QED  BY <2>3, <2>4, PipelineStep
<1>5. CASE ActivateKeyword
  <2>1. PICK k \in ui.claims[Ext] \cup ui.claims[Short] :
          Pipeline(AppSetQuery(Remember(Reset(ui), Active), Prefix[k]))
    BY <1>5 DEF ActivateKeyword
  <2>2. k \in Keywords
    <3>1. ui.claims \in Claims /\ Ext \in Claimers /\ Short \in Claimers
      BY <1>1 DEF Uis, Claimers
    <3>. QED  BY <2>1, <3>1 DEF Claims
  <2>3. Prefix[k] \in Texts /\ Active \in Items
    BY <1>2, <1>5, <2>2, QueryAssumption DEF Texts, ActivateKeyword
  <2>4. Goes(ui, AppSetQuery(Remember(Reset(ui), Active), Prefix[k]))
    BY <2>3, KeywordGoes
  <2>. QED  BY <2>1, <2>4, PipelineStep
<1>6. CASE ShowActions
  <2>1. PICK no \in BOOLEAN : no = FALSE
    OBVIOUS
  <2>. DEFINE next == Render(Reset(ui), ActionsOf(Active), no)
  <2>2. Pipeline(next) /\ Active \in Items
    BY <1>2, <1>6, <2>1 DEF ShowActions
  <2>3. Goes(ui, next)
    BY <2>2, ActionsGo
  <2>. QED  BY <2>2, <2>3, PipelineStep
<1>7. CASE Leave \/ CloseLauncher
  <2>1. PICK save \in BOOLEAN : Pipeline(CloseMain(ui, save))
    BY <1>7 DEF Leave, CloseLauncher
  <2>2. Goes(ui, CloseMain(ui, save))
    BY LeaveGoes
  <2>. QED  BY <2>1, <2>2, PipelineStep
<1>8. CASE \E q \in Typed : ActivateQuery(q)
  <2>1. PICK q \in Typed : ActivateQuery(q)
    BY <1>8
  <2>2. /\ Stripped[q] \in Texts /\ Pipeline(AppSetQuery(OpenMain(ui), q))
        /\ AppSetQuery(OpenMain(ui), q) = AppSetQuery(OpenMain(ui), Stripped[q])
    BY <2>1, StripsFirst DEF ActivateQuery
  <2>3. Goes(ui, AppSetQuery(OpenMain(ui), q))
    BY <2>2, ActivateQueryGoes
  <2>. QED  BY <2>2, <2>3, PipelineStep
<1>9. CASE ShowLauncher
  BY <1>9, OpenGoes, PipelineStep DEF ShowLauncher
<1>. QED  BY <1>3, <1>4, <1>5, <1>6, <1>7, <1>8, <1>9

\* activate_result: whichever mode the result is mapped to.
LEMMA ActivateGoes ==
  ASSUME PipelineInv(ui), ActivateResult
  PROVE  Goes(ui, ui')
<1>. DEFINE s == Remember(Reset(ui), Active)
            handler == HandlerOf(s, Active)
            valid == IF handler = s.mode THEN handler ELSE None
            request == [on |-> TRUE, valid |-> valid]
<1>1. StreamOK(ui) /\ ui.main # "none" /\ ui.view.items # <<>>
  BY DEF PipelineInv, ActivateResult, HasActive, MainOpen
<1>2. Active \in Items
  BY <1>1, SelectedItem DEF Active
<1>3. Blank(ui, s) /\ SameTexts(ui, s) /\ SameKeys(ui, s)
  BY <1>1, <1>2, RememberBlank
<1>4. \/ Pipeline(s)
      \/ handler = Ext /\ Pipeline([s EXCEPT !.pending = request])
      \/ \E outcome \in Outcomes(handler, Active) : Pipeline(Callback(s, valid, outcome))
  BY Zenon DEF ActivateResult
<1>5. handler = Ext => request \in Requests
  BY DEF Requests
<1>6. s = Remember(Reset(ui), Active)
  OBVIOUS
<1>. HIDE DEF s, handler, valid, request
<1>7. CASE Pipeline(s)
  BY <1>3, <1>7, BlankGoes, PipelineStep
<1>8. CASE handler = Ext /\ Pipeline([s EXCEPT !.pending = request])
  <2>1. Goes(ui, [s EXCEPT !.pending = request])
    BY <1>2, <1>5, <1>6, <1>8, AsksGoes
  <2>. QED  BY <1>8, <2>1, PipelineStep
<1>9. CASE \E outcome \in Outcomes(handler, Active) : Pipeline(Callback(s, valid, outcome))
  <2>1. PICK outcome \in Outcomes(handler, Active) : Pipeline(Callback(s, valid, outcome))
    BY <1>9
  <2>2. EffectOK(outcome)
    BY <2>1, OutcomesOK
  <2>3. Goes(ui, Callback(s, valid, outcome))
    BY <1>1, <1>3, <2>2, CallbackGoes
  <2>. QED  BY <2>1, <2>3, PipelineStep
<1>. QED  BY <1>4, <1>7, <1>8, <1>9

\* An extension answers: any effect, and a batch as long as the bound allows.
LEMMA OneAnswerGoes ==
  ASSUME PipelineInv(ui), NEW e, EffectOK(e), e.type = "render" => ui.last.n <= MaxBatches,
         Answer(e)
  PROVE  Goes(ui, ui')
<1>. DEFINE s == Callback(ui, ui.pending.valid, e)
            u == [s EXCEPT !.pending = NoRequest]
<1>1. Goes(ui, s)
  BY AnswerGoes
<1>2. Pipeline(s) \/ Pipeline(u)
  BY DEF Answer
<1>. HIDE DEF s
<1>3. Goes(ui, u)
  BY <1>1, AnsweredGoes
<1>. QED  BY <1>1, <1>2, <1>3, PipelineStep

LEMMA TwinItems ==
  <<Item("ext", 1), Twin>> \in Seq(Items) /\ NoLoading(<<Item("ext", 1), Twin>>)
<1>1. Item("ext", 1) \in Items /\ Item("ext", 1).kind = "ext"
  BY ItemFacts DEF Kinds
<1>2. Twin \in Items /\ Twin.kind = "ext"
  BY DEF Twin, Item, Items, Kinds, Names
<1>3. Loading.kind = "loading"
  BY DEF Loading, Item
<1>. HIDE DEF Twin, Item, Loading
<1>. QED  BY <1>1, <1>2, <1>3 DEF NoLoading

LEMMA AnswersGo ==
  ASSUME PipelineInv(ui), AnswerBatch \/ AnswerEffect
  PROVE  Goes(ui, ui')
<1>1. ui.last.n \in Nat
  BY DEF PipelineInv, StreamOK, Uis, Lasts
<1>2. CASE AnswerBatch
  <2>1. PICK results \in Batches, append \in BOOLEAN, final \in BOOLEAN :
               Answer(RenderEffect(results, append, final))
    BY <1>2 DEF AnswerBatch
  <2>2. results \in Seq(Items) /\ NoLoading(results)
    <3>1. <<Item("ext", ui.last.n + 1)>> \in Seq(Items)
          /\ NoLoading(<<Item("ext", ui.last.n + 1)>>)
      BY <1>1, OneItem DEF Kinds
    <3>2. <<Item("ext", 1), Twin>> \in Seq(Items) /\ NoLoading(<<Item("ext", 1), Twin>>)
      BY TwinItems
    <3>. QED  BY <2>1, <3>1, <3>2, NoItems DEF Batches
  <2>3. EffectOK(RenderEffect(results, append, final))
    BY <2>2 DEF EffectOK
  <2>4. ui.last.n <= MaxBatches
    BY <1>1, <1>2, LimitAssumption DEF AnswerBatch
  <2>. QED  BY <2>1, <2>3, <2>4, OneAnswerGoes
<1>3. ASSUME NEW e, Answer(e), EffectOK(e), e.type # "render" PROVE Goes(ui, ui')
  BY <1>3, OneAnswerGoes
<1>4. CASE Answer(Nothing) \/ Answer(CloseEffect)
  <2>1. EffectOK(Nothing) /\ EffectOK(CloseEffect)
    BY DEF EffectOK
  <2>2. Nothing.type = "nothing"
    BY DEF Nothing
  <2>3. CloseEffect.type = "close"
    BY DEF CloseEffect
  <2>. QED  BY <1>3, <1>4, <2>1, <2>2, <2>3
<1>5. CASE \E q \in Typed : Answer(SetQueryEffect(q))
  <2>1. PICK q \in Typed : Answer(SetQueryEffect(q))
    BY <1>5
  <2>2. SetQueryEffect(q).type = "set_query"
    BY DEF SetQueryEffect
  <2>3. EffectOK(SetQueryEffect(q))
    BY <2>1 DEF EffectOK
  <2>. QED  BY <1>3, <2>1, <2>2, <2>3
<1>. QED  BY <1>2, <1>4, <1>5 DEF AnswerEffect

LEMMA LoopGoes ==
  ASSUME PipelineInv(ui),
         \/ ShowPlaceholder \/ ThrottledPaint \/ WindowReady \/ ReloadQuery \/ WarmTriggers
         \/ \E m \in Claimers, k \in Keywords : TriggersChange(m, k)
  PROVE  Goes(ui, ui')
<1>1. PICK no \in BOOLEAN : no = FALSE
  OBVIOUS
<1>2. CASE ShowPlaceholder
  <2>1. Pipeline(Render(ui, <<Loading>>, no)) /\ ui.loading
    BY <1>1, <1>2 DEF ShowPlaceholder
  <2>2. Goes(ui, Render(ui, <<Loading>>, no))
    BY <2>1, PlaceholderGoes
  <2>. QED  BY <2>1, <2>2, PipelineStep
<1>3. CASE ThrottledPaint
  BY <1>3, PaintGoes, PipelineStep DEF ThrottledPaint
<1>4. CASE WindowReady
  <2>1. PICK first \in Claimers : Pipeline(BecomeReady(ui, first)) /\ ui.main = "new"
    BY <1>4 DEF WindowReady
  <2>. QED  BY <2>1, ReadyGoes, PipelineStep
<1>5. CASE ReloadQuery
  BY <1>5, ReloadGoes, PipelineStep DEF ReloadQuery
<1>6. CASE WarmTriggers
  <2>1. PICK first \in Claimers :
          ui' = IF MainOpen THEN ui ELSE LoadTriggers(ui, FALSE, first)
    BY <1>6 DEF WarmTriggers
  <2>2. ui' = ui \/ ui' = LoadTriggers(ui, no, first)
    BY <1>1, <2>1
  <2>. QED  BY <2>2, StaysGoes, LoadGoes
<1>7. CASE \E m \in Claimers, k \in Keywords : TriggersChange(m, k)
  <2>1. PICK m \in Claimers, k \in Keywords : TriggersChange(m, k)
    BY <1>7
  <2>. DEFINE offers == IF k \in ui.offers[m] THEN ui.offers[m] \ {k} ELSE ui.offers[m] \cup {k}
              filled == ui.filled /\ m # Ext
              next == [ui EXCEPT !.offers[m] = offers, !.filled = filled]
  <2>2. Pipeline(next)
    BY <2>1 DEF TriggersChange
  <2>3. offers \in SUBSET Keywords /\ filled \in BOOLEAN
    <3>1. ui.offers \in Claims
      BY DEF PipelineInv, StreamOK, Uis
    <3>. QED  BY <2>1, <3>1 DEF Claims
  <2>. HIDE DEF offers, filled
  <2>4. Goes(ui, next)
    BY <2>3, OffersGo
  <2>. QED  BY <2>2, <2>4, PipelineStep
<1>. QED  BY <1>2, <1>3, <1>4, <1>5, <1>6, <1>7

LEMMA ShellGoes ==
  ASSUME PipelineInv(ui),
         \/ \E activate \in BOOLEAN : Start(activate)
         \/ ShowPreferences \/ ClosePreferences
         \/ ToggleHold \/ ToggleTray \/ DelayedQuit \/ QuitNow \/ UNCHANGED vars
  PROVE  Goes(ui, ui')
<1>1. CASE \E activate \in BOOLEAN : Start(activate)
  <2>1. ui' = ui \/ ui' = OpenMain(ui)
    BY <1>1 DEF Start
  <2>. QED  BY <2>1, StaysGoes, OpenGoes
<1>2. CASE ShowPreferences
  <2>1. PICK save \in BOOLEAN : save = TRUE
    OBVIOUS
  <2>2. ui' = CloseMain(ui, save)
    BY <1>2, <2>1 DEF ShowPreferences
  <2>. QED  BY <2>2, LeaveGoes
<1>3. CASE \/ ClosePreferences \/ ToggleHold \/ ToggleTray \/ DelayedQuit \/ QuitNow
           \/ UNCHANGED vars
  <2>1. ui' = ui
    BY <1>3 DEF ClosePreferences, ToggleHold, ToggleTray, DelayedQuit, QuitNow, Quit, vars
  <2>. QED  BY <2>1, StaysGoes
<1>. QED  BY <1>1, <1>2, <1>3

LEMMA StepGoes ==
  ASSUME PipelineInv(ui), [Next]_vars
  PROVE  Steps(ui, ui')
<1>1. CASE \E i \in 1..Limit : Select(i)
  <2>1. PICK i \in 1..Limit : Select(i)
    BY <1>1
  <2>. DEFINE next == [ui EXCEPT !.view.index = i, !.view.picked = TRUE]
  <2>2. ui' = next /\ i \in DOMAIN ui.view.items /\ ui.main # "none"
    BY <2>1 DEF Select, MainOpen, Pipeline
  <2>3. Steps(ui, next)
    BY <2>2, SelectSteps
  <2>. QED  BY <2>2, <2>3
<1>2. Goes(ui, ui') => Steps(ui, ui')
  BY DEF Goes, Steps
<1>. QED  BY <1>1, <1>2, UserGoes, ActivateGoes, AnswersGo, LoopGoes, ShellGoes DEF Next

LEMMA InitPipeline ==
  ASSUME Init
  PROVE  PipelineInv(ui) /\ ui.main = "none" /\ ui.last = NoBatch
<1>1. PICK resume \in BOOLEAN, offers \in [Claimers -> SUBSET Keywords] :
       ui = [main |-> "none", text |-> "", input |-> "", mode |-> None, query |-> "",
             loading |-> FALSE, answered |-> FALSE, pending |-> NoRequest,
             buffered |-> FALSE, buffer |-> <<>>, painted |-> FALSE,
             appending |-> FALSE, throttle |-> FALSE, last |-> NoBatch,
             view |-> NoView, picks |-> [q \in Texts |-> Loading.name],
             claims |-> [m \in Claimers |-> {}], offers |-> offers,
             filled |-> FALSE, enabled |-> FALSE, resume |-> resume]
  BY DEF Init
<1>2. /\ NoBatch \in Lasts /\ NoBatch.n = 0 /\ NoRequest \in Requests
      /\ Fits(NoView) /\ NoView \in Views /\ <<>> \in Seq(Items) /\ "" \in Texts
      /\ "" \in Typed
  BY LastFacts, NoViewFits, EmptySeq, StripFacts DEF Fits, Texts
<1>b. Loading.name \in Names
  <2>1. Loading.name = <<"loading", 0>>
    BY DEF Loading, Item
  <2>. QED  BY <2>1 DEF Names, Kinds
<1>3. [q \in Texts |-> Loading.name] \in [Texts -> Names] /\ [m \in Claimers |-> {}] \in Claims
  BY <1>b DEF Claims
<1>. HIDE DEF NoView, NoBatch, NoRequest
<1>4. ui \in Uis
  BY <1>1, <1>2, <1>3 DEF Uis, Claims
<1>5. /\ ui.main = "none" /\ ui.last = NoBatch /\ ui.view = NoView /\ ui.buffer = <<>>
      /\ ui.loading = FALSE /\ ui.buffered = FALSE /\ ui.painted = FALSE
      /\ ui.throttle = FALSE /\ ui.answered = FALSE
  BY <1>1
<1>6. NoLoading(<<>>)
  BY DEF NoLoading
<1>7. LoadInv(ui)
  BY <1>5, <1>6 DEF LoadInv
<1>8. Unique(ui)
  <2>1. Ext \in Claimers /\ Short \in Claimers
    BY DEF Claimers
  <2>2. ui.claims = [m \in Claimers |-> {}]
    BY <1>1
  <2>. QED  BY <2>1, <2>2 DEF Unique
<1>a. ui.last.n = 0
  BY <1>2, <1>5
<1>9. ui.last.n <= MaxBatches + 1
  BY <1>a, LimitAssumption
<1>. QED  BY <1>2, <1>4, <1>5, <1>7, <1>8, <1>9 DEF PipelineInv, StreamOK, Entry

-----------------------------------------------------------------------------
(* Quits that are under way.                                                *)

QuitTypes ==
  /\ app \in {"off", "on", "quit"} /\ prefs \in BOOLEAN
  /\ persistent \in BOOLEAN /\ tray \in BOOLEAN /\ warm \in BOOLEAN /\ closed \in BOOLEAN
  /\ why \in {"none", "asked", "timer", "refused"}
  /\ events \in 0..MaxEvents /\ quitTimers \in 0..events

\* A window closes in a step of its own, so that every delayed quit has one.
LEMMA PipelineTypes ==
  ASSUME QuitTypes, NEW next, Pipeline(next),
         Event \/ (UNCHANGED events /\ (MainOpen => next.main # "none"))
  PROVE  QuitTypes'
<1>1. events' \in 0..MaxEvents /\ (events' = events \/ events' = events + 1)
  BY EventsAssumption DEF Event, QuitTypes
<1>2. /\ quitTimers' \in 0..events' /\ closed' \in BOOLEAN
  <2>1. CASE MainOpen /\ next.main = "none"
    <3>1. events' = events + 1 /\ closed' = TRUE
      BY <2>1 DEF Pipeline, Destroyed, Event
    <3>2. quitTimers' = quitTimers \/ quitTimers' = quitTimers + 1
      BY <2>1 DEF Pipeline, Destroyed
    <3>. QED  BY <1>1, <3>1, <3>2, EventsAssumption DEF QuitTypes
  <2>2. CASE ~(MainOpen /\ next.main = "none")
    <3>1. quitTimers' = quitTimers /\ closed' = closed
      BY <2>2 DEF Pipeline
    <3>. QED  BY <1>1, <3>1, EventsAssumption DEF QuitTypes
  <2>. QED  BY <2>1, <2>2
<1>3. UNCHANGED <<app, prefs, persistent, tray, warm, why>>
  BY DEF Pipeline
<1>. QED  BY <1>1, <1>2, <1>3 DEF QuitTypes

LEMMA LoopTypes ==
  ASSUME QuitTypes, PipelineInv(ui), ShowPlaceholder \/ ThrottledPaint \/ WindowReady
  PROVE  QuitTypes'
<1>1. StreamOK(ui) /\ ui \in Uis /\ Fits(ui.view) /\ LoadInv(ui)
  BY DEF PipelineInv, StreamOK
<1>2. CASE ShowPlaceholder
  <2>1. PICK no \in BOOLEAN : no = FALSE
    OBVIOUS
  <2>. DEFINE next == Render(ui, <<Loading>>, no)
  <2>2. Pipeline(next) /\ UNCHANGED events
    BY <1>2, <2>1 DEF ShowPlaceholder
  <2>3. <<Loading>> \in Seq(Items)
    BY ItemFacts DEF Loading, Kinds
  <2>4. SameTexts(ui, next)
    BY <1>1, <2>3, RenderFacts
  <2>. HIDE DEF next
  <2>. QED  BY <2>2, <2>4, PipelineTypes DEF SameTexts, MainOpen
<1>3. CASE ThrottledPaint
  <2>. DEFINE next == Paint(ui)
  <2>1. Pipeline(next) /\ UNCHANGED events /\ ui.buffered
    BY <1>1, <1>3 DEF ThrottledPaint, LoadInv
  <2>2. SameTexts(ui, next)
    BY <1>1, <2>1, PaintFacts
  <2>. HIDE DEF next
  <2>. QED  BY <2>1, <2>2, PipelineTypes DEF SameTexts, MainOpen
<1>4. CASE WindowReady
  <2>1. PICK first \in Claimers : Pipeline(BecomeReady(ui, first)) /\ UNCHANGED events
    BY <1>4 DEF WindowReady
  <2>. DEFINE s0 == [ui EXCEPT !.main = "ready"]
              l == LoadTriggers(s0, TRUE, first)
              next == BecomeReady(ui, first)
  <2>2. next = SetQuery(l, ui.text)
    BY DEF BecomeReady
  <2>3. PICK force \in BOOLEAN : force = TRUE
    OBVIOUS
  <2>4. s0 \in Uis /\ s0.main = "ready" /\ s0.view = ui.view /\ ui.text \in Texts
    BY <1>1 DEF Uis
  <2>5. l = LoadTriggers(s0, force, first)
    BY <2>3
  <2>. HIDE DEF l, s0, next
  <2>6. l \in Uis /\ l.view = s0.view /\ SameTexts(s0, l)
    BY <2>4, <2>5, LoadFacts
  <2>7. Ready(l)
    BY <1>1, <2>4, <2>6 DEF Ready, SameTexts
  <2>8. Sets(l, next, ui.text)
    BY <2>2, <2>4, <2>7, SetQueryFacts
  <2>9. next.main = "ready"
    BY <2>4, <2>6, <2>8 DEF Sets, SameTexts
  <2>. QED  BY <2>1, <2>9, PipelineTypes DEF next
<1>. QED  BY <1>2, <1>3, <1>4

LEMMA EventTypes ==
  ASSUME QuitTypes,
         \/ \E q \in Typed : Type(q)
         \/ Backspace \/ ActivateKeyword \/ ShowActions \/ ActivateResult \/ Leave
         \/ \E i \in 1..Limit : Select(i)
         \/ AnswerBatch \/ AnswerEffect \/ ReloadQuery
         \/ \E m \in Claimers, k \in Keywords : TriggersChange(m, k)
         \/ \E q \in Typed : ActivateQuery(q)
         \/ ShowLauncher \/ CloseLauncher
  PROVE  QuitTypes'
<1>1. Event /\ \E next : Pipeline(next)
  BY DEF Type, Backspace, ActivateKeyword, ShowActions, ActivateResult, Leave, Select,
         AnswerBatch, AnswerEffect, Answer, ReloadQuery, TriggersChange, ActivateQuery,
         ShowLauncher, CloseLauncher
<1>. QED  BY <1>1, PipelineTypes

LEMMA ShellTypes ==
  ASSUME QuitTypes,
         \/ WarmTriggers \/ \E activate \in BOOLEAN : Start(activate)
         \/ ShowPreferences \/ ClosePreferences
         \/ ToggleHold \/ ToggleTray \/ DelayedQuit \/ QuitNow \/ UNCHANGED vars
  PROVE  QuitTypes'
<1>1. CASE WarmTriggers
  BY <1>1 DEF WarmTriggers, QuitTypes
<1>2. CASE \E activate \in BOOLEAN : Start(activate)
  <2>1. tray' \in BOOLEAN
    BY <1>2, Zenon DEF Start, TrayIs
  <2>. QED  BY <1>2, <2>1 DEF Start, QuitTypes
<1>3. CASE ShowPreferences \/ ClosePreferences
  <2>1. events' = events + 1 /\ events < MaxEvents /\ quitTimers' \in {quitTimers, quitTimers + 1}
    BY <1>3 DEF ShowPreferences, ClosePreferences, Destroyed, Event
  <2>2. prefs' \in BOOLEAN /\ closed' \in BOOLEAN /\ UNCHANGED <<app, persistent, tray, warm, why>>
    BY <1>3 DEF ShowPreferences, ClosePreferences, Destroyed, QuitTypes
  <2>. QED  BY <2>1, <2>2, EventsAssumption DEF QuitTypes
<1>4. CASE ToggleHold \/ ToggleTray
  <2>1. tray' \in BOOLEAN
    BY <1>4, Zenon DEF ToggleHold, ToggleTray, TrayIs
  <2>2. events' = events + 1 /\ events < MaxEvents /\ persistent' \in BOOLEAN
        /\ UNCHANGED <<app, prefs, warm, quitTimers, closed, why>>
    BY <1>4 DEF ToggleHold, ToggleTray, Event, QuitTypes
  <2>. QED  BY <2>1, <2>2, EventsAssumption DEF QuitTypes
<1>5. CASE DelayedQuit
  BY <1>5, EventsAssumption DEF DelayedQuit, Quit, QuitTypes
<1>6. CASE QuitNow
  BY <1>6 DEF QuitNow, Quit, QuitTypes
<1>7. CASE UNCHANGED vars
  BY <1>7 DEF vars, shell, QuitTypes
<1>. QED  BY <1>1, <1>2, <1>3, <1>4, <1>5, <1>6, <1>7

LEMMA StepTypes ==
  ASSUME QuitTypes, PipelineInv(ui), [Next]_vars
  PROVE  QuitTypes'
BY EventTypes, LoopTypes, ShellTypes DEF Next

AppInv == PipelineInv(ui) /\ QuitTypes

LEMMA InitApp == Init => AppInv
<1>1. ASSUME Init PROVE QuitTypes
  <2>1. /\ app = "off" /\ prefs = FALSE /\ persistent = FALSE /\ tray = FALSE /\ warm = FALSE
        /\ quitTimers = 0 /\ closed = FALSE /\ why = "none" /\ events = 0
    BY <1>1 DEF Init
  <2>2. 0 \in 0..MaxEvents /\ 0 \in 0..0
    BY EventsAssumption
  <2>3. events \in 0..MaxEvents /\ quitTimers \in 0..events
    BY <2>1, <2>2
  <2>. QED  BY <2>1, <2>3 DEF QuitTypes
<1>. QED  BY <1>1, InitPipeline DEF AppInv

LEMMA StepApp == AppInv /\ [Next]_vars => AppInv' /\ Steps(ui, ui')
<1>. SUFFICES ASSUME AppInv, [Next]_vars PROVE AppInv' /\ Steps(ui, ui')
  OBVIOUS
<1>1. Steps(ui, ui')
  BY StepGoes DEF AppInv
<1>2. PipelineInv(ui')
  BY <1>1 DEF Steps
<1>3. QuitTypes'
  BY StepTypes DEF AppInv
<1>. QED  BY <1>1, <1>2, <1>3 DEF AppInv

LEMMA AppAlways == Spec => []AppInv
BY InitApp, StepApp, PTL DEF Spec

-----------------------------------------------------------------------------
(* What that establishes.                                                   *)

\* The texts, lists and requests are what they are said to be, and there are
\* no more delayed quits than windows were closed.
THEOREM AppTypes == Spec => []TypeOK
<1>1. AppInv => TypeOK
  <2>. SUFFICES ASSUME AppInv PROVE TypeOK
    OBVIOUS
  <2>1. ui \in Uis /\ Fits(ui.view) /\ ui.last.n <= MaxBatches + 1
    BY DEF AppInv, PipelineInv, StreamOK
  <2>2. ui.view \in Views /\ ui.pending \in Requests /\ ui.last.n \in Nat
    BY <2>1 DEF Uis, Lasts
  <2>3. ui.last.n \in 0..MaxBatches + 1
    BY <2>1, <2>2, LimitAssumption
  <2>4. /\ ui.view.items \in Seq(Items) /\ Len(ui.view.items) <= Limit
        /\ ui.view.index \in 1..(Len(ui.view.items) + 1) /\ ui.view.picked \in BOOLEAN
        /\ ui.view.items # <<>> => ui.view.index <= Len(ui.view.items)
    BY <2>1, <2>2 DEF Fits, Views
  <2>5. /\ ui.main \in {"none", "new", "ready"}
        /\ ui.text \in Texts /\ ui.input \in Typed /\ ui.query \in Texts
        /\ ui.mode \in Modes \cup {None}
        /\ {ui.loading, ui.buffered, ui.painted, ui.appending, ui.throttle,
            ui.answered, ui.filled, ui.enabled, ui.resume} \subseteq BOOLEAN
        /\ ui.buffer \in Seq(Items) /\ ui.claims \in Claims /\ ui.offers \in Claims
    BY <2>1 DEF Uis
  <2>6. UiTypeOK
    BY <2>2, <2>3, <2>4, <2>5 DEF UiTypeOK, Requests, Claims
  <2>7. quitTimers \in 0..MaxEvents
    BY EventsAssumption DEF AppInv, QuitTypes
  <2>. QED  BY <2>6, <2>7 DEF TypeOK, AppInv, QuitTypes
<1>. QED  BY <1>1, AppAlways, PTL

\* The timers of the placeholder and of the throttled paint never leave
\* "Loading..." in place of an answer.
THEOREM AnswersAreShown == Spec => []LoadingGivesWay
<1>1. AppInv => LoadingGivesWay
  <2>. SUFFICES ASSUME AppInv, ui.answered, ui.view.items = <<Loading>> PROVE ui.throttle
    BY DEF LoadingGivesWay
  <2>1. LoadInv(ui)
    BY DEF AppInv, PipelineInv, StreamOK
  <2>2. Len(<<Loading>>) = 1 /\ <<Loading>>[1] = Loading
    OBVIOUS
  <2>3. ~NoLoading(ui.view.items)
    BY <2>2 DEF NoLoading
  <2>. QED  BY <2>1, <2>3 DEF LoadInv
<1>. QED  BY <1>1, AppAlways, PTL

\* Whoever sets the query, and whatever happens to the window in between, the
\* entry, the app and the core agree on it.
THEOREM QueriesAgree == Spec => []OneQuery
<1>1. AppInv => OneQuery
  BY DEF AppInv, PipelineInv, Entry, OneQuery, MainOpen
<1>. QED  BY <1>1, AppAlways, PTL

\* load_triggers never gives a keyword to two modes, whichever of them are
\* outdated and in whatever order it looks at them.
THEOREM OneModePerKeyword == Spec => []KeywordsUnique
<1>1. AppInv => KeywordsUnique
  BY DEF AppInv, PipelineInv, Unique, KeywordsUnique
<1>. QED  BY <1>1, AppAlways, PTL

\* A window that gets ready has every keyword at hand.
THEOREM ReadyKnowsKeywords == Spec => KeywordsComplete
<1>1. AppInv /\ [Next]_vars =>
        [ui.main = "new" /\ ui'.main = "ready" =>
           ui'.claims[Ext] \cup ui'.claims[Short] = ui'.offers[Ext] \cup ui'.offers[Short]]_vars
  BY StepApp DEF Steps, Open, Works
<1>. QED  BY <1>1, AppAlways, PTL DEF Spec, KeywordsComplete

\* _apply_selection: what the user selected stays selected by name, whatever
\* comes in for the same query.
THEOREM SelectionStays == Spec => PickStays
<1>1. AppInv /\ [Next]_vars =>
        [Unasked /\ (\E i \in DOMAIN ui'.view.items : ui'.view.items[i].name = Active.name) =>
         ui'.view.picked /\ ui'.view.items[ui'.view.index].name = Active.name]_vars
  BY StepApp DEF Steps, Open, KeepsPick, Active, Unasked, Selecting, Selects
<1>. QED  BY <1>1, AppAlways, PTL DEF Spec, PickStays

\* Every step of the launcher is one of ResultList or changes nothing of it:
\* the throttled paints show what the batches add up to.
THEOREM StreamsImplementList == Spec => StreamsAddUp
<1>1. ListOf(ui) = List
  BY DEF ListOf, Sum, List
<1>2. Init => Stream!Init
  <2>1. Stream!NoBatch = NoBatch
    BY DEF Stream!NoBatch, NoBatch
  <2>. QED  BY <1>1, <2>1, InitPipeline DEF Stream!Init, List
<1>3. \A r : Stream!First(r) = First(r)
  BY DEF Stream!First, First
<1>4. AppInv /\ [Next]_vars => [Stream!Next]_<<ui.main = "ready", ui.last, List>>
  <2>. DEFINE open == ui.main = "ready"
  <2>. SUFFICES ASSUME AppInv, [Next]_vars
                PROVE  Stream!Next \/ UNCHANGED <<open, ui.last, List>>
    OBVIOUS
  <2>1. Advances(ui, ui')
    BY StepApp DEF Steps
  <2>2. ListOf(ui') = List' /\ ListOf(ui) = List
    BY DEF ListOf, Sum, List
  <2>3. Open(ui) = open /\ Open(ui') = open' /\ open \in BOOLEAN /\ open' \in BOOLEAN
    BY DEF Open
  <2>4. CASE (Open(ui') <=> Open(ui)) /\ ui'.last = ui.last /\ ListOf(ui') = ListOf(ui)
    BY <2>2, <2>3, <2>4
  <2>5. CASE /\ (Open(ui') <=> Open(ui)) /\ ui'.last.n = ui.last.n + 1
             /\ ListOf(ui') = IF ~Open(ui) THEN <<>>
                              ELSE First(IF ui'.last.append THEN ListOf(ui) \o ui'.last.results
                                         ELSE ui'.last.results)
    BY <1>3, <2>2, <2>3, <2>5 DEF Stream!Next, Stream!Receive
  <2>6. CASE /\ (Open(ui') <=> Open(ui)) /\ (ui'.last = NoBatch \/ ui'.last.n = 1)
             /\ ListOf(ui') = IF ui'.last.n = 1 /\ Open(ui) THEN First(ui'.last.results) ELSE <<>>
    BY <1>3, <2>2, <2>3, <2>6 DEF Stream!Next, Stream!Restart, Stream!NoBatch, NoBatch
  <2>7. CASE /\ (Open(ui') <=> ~Open(ui))
             /\ ListOf(ui') = IF Open(ui') /\ ui'.last.n = 1 THEN First(ui'.last.results) ELSE <<>>
    BY <1>3, <2>2, <2>3, <2>7 DEF Stream!Next, Stream!OpenOrClose
  <2>. QED  BY <2>1, <2>4, <2>5, <2>6, <2>7 DEF Advances
<1>. QED  BY <1>2, <1>4, AppAlways, PTL DEF Spec, StreamsAddUp, Stream!Spec

-----------------------------------------------------------------------------

\* Before the app starts there is no window to close.
LingerInv == NobodyLingers /\ (app = "off" => ~closed)

LEMMA PipelineLingers ==
  ASSUME LingerInv, quitTimers \in Nat, NEW next, Pipeline(next)
  PROVE  LingerInv'
<1>1. app = "on" /\ ui' = next /\ UNCHANGED <<app, prefs, persistent>>
  BY DEF Pipeline
<1>2. CASE MainOpen /\ next.main = "none"
  <2>1. quitTimers' = IF ~prefs /\ ~persistent THEN quitTimers + 1 ELSE quitTimers
    BY <1>2 DEF Pipeline, Destroyed, QuitsLater
  <2>2. NobodyLingers'
    BY <1>1, <2>1 DEF NobodyLingers, MainOpen
  <2>. QED  BY <1>1, <2>2 DEF LingerInv
<1>3. CASE ~(MainOpen /\ next.main = "none")
  <2>1. UNCHANGED <<quitTimers, closed>>
    BY <1>3 DEF Pipeline
  <2>. QED  BY <1>1, <1>3, <2>1 DEF LingerInv, NobodyLingers, MainOpen
<1>. QED  BY <1>2, <1>3

LEMMA StepLingers ==
  ASSUME LingerInv, quitTimers \in Nat, [Next]_vars
  PROVE  LingerInv'
<1>1. CASE \/ \E q \in Typed : Type(q)
           \/ Backspace \/ ActivateKeyword \/ ShowActions \/ ActivateResult \/ Leave
           \/ \E i \in 1..Limit : Select(i)
           \/ \E q \in Typed : ActivateQuery(q)
           \/ ShowLauncher \/ CloseLauncher
  <2>1. \E next : Pipeline(next)
    BY <1>1 DEF Type, Backspace, ActivateKeyword, ShowActions, ActivateResult, Leave, Select,
                ActivateQuery, ShowLauncher, CloseLauncher
  <2>. QED  BY <2>1, PipelineLingers
<1>2. CASE \/ ShowPlaceholder \/ ThrottledPaint \/ AnswerBatch \/ AnswerEffect
           \/ WindowReady \/ ReloadQuery
           \/ \E m \in Claimers, k \in Keywords : TriggersChange(m, k)
  <2>1. \E next : Pipeline(next)
    BY <1>2 DEF ShowPlaceholder, ThrottledPaint, AnswerBatch, AnswerEffect, Answer,
                WindowReady, ReloadQuery, TriggersChange
  <2>. QED  BY <2>1, PipelineLingers
<1>3. CASE WarmTriggers
  <2>1. ui' = ui \/ ~MainOpen
    BY <1>3 DEF WarmTriggers
  <2>. QED  BY <1>3, <2>1 DEF WarmTriggers, LingerInv, NobodyLingers, MainOpen
<1>4. CASE \E activate \in BOOLEAN : Start(activate)
  BY <1>4 DEF Start, LingerInv, NobodyLingers
<1>5. CASE ShowPreferences \/ ToggleHold
  BY <1>5 DEF ShowPreferences, ToggleHold, LingerInv, NobodyLingers
<1>6. CASE ClosePreferences
  <2>1. quitTimers' = IF ~MainOpen /\ ~persistent THEN quitTimers + 1 ELSE quitTimers
    BY <1>6 DEF ClosePreferences, Destroyed, QuitsLater
  <2>2. app = "on" /\ UNCHANGED <<ui, app, persistent>>
    BY <1>6 DEF ClosePreferences
  <2>. QED  BY <2>1, <2>2 DEF LingerInv, NobodyLingers, MainOpen
<1>7. CASE ToggleTray
  BY <1>7 DEF ToggleTray, LingerInv, NobodyLingers, MainOpen
<1>8. CASE DelayedQuit
  <2>1. app = "on" /\ (app' = "quit" \/ ((MainOpen \/ prefs) /\ UNCHANGED <<ui, app, prefs>>))
    BY <1>8 DEF DelayedQuit, Quit, StillUnneeded
  <2>. QED  BY <2>1 DEF LingerInv, NobodyLingers, MainOpen
<1>9. CASE QuitNow
  BY <1>9 DEF QuitNow, Quit, LingerInv, NobodyLingers
<1>10. CASE UNCHANGED vars
  BY <1>10 DEF vars, shell, LingerInv, NobodyLingers, MainOpen
<1>. QED  BY <1>1, <1>2, <1>3, <1>4, <1>5, <1>6, <1>7, <1>8, <1>9, <1>10 DEF Next

\* _on_window_destroyed hears of every window that goes: once they are all
\* gone an app that is not to stay has a quit under way.
THEOREM AppGoesAway == Spec => []NobodyLingers
<1>1. Init => LingerInv
  BY DEF Init, LingerInv, NobodyLingers
<1>2. LingerInv /\ AppInv /\ [Next]_vars => LingerInv'
  <2>1. AppInv => quitTimers \in Nat
    BY EventsAssumption DEF AppInv, QuitTypes
  <2>. QED  BY <2>1, StepLingers
<1>3. LingerInv => NobodyLingers
  BY DEF LingerInv
<1>. QED  BY <1>1, <1>2, <1>3, AppAlways, PTL DEF Spec
=============================================================================
