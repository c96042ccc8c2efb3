----------------------------- MODULE StateFiles -----------------------------
(***************************************************************************)
(* The file-backed configuration of Ulauncher: JsonConf and                *)
(* JsonKeyValueConf instances (data/_file_cache.py), the atomic write      *)
(* (utils/json_utils.py) and what the program builds on them: the state    *)
(* file of an extension, shared by the app and the CLI; shortcuts.json,    *)
(* seeded with defaults and edited in the preferences; and the preferences *)
(* of an extension, which a running extension is told about.               *)
(*                                                                         *)
(* One file is modelled.  Its kind is chosen at the start.  A process      *)
(* holds one instance of the file and saves the whole of it.               *)
(***************************************************************************)
EXTENDS Naturals, Sequences, SequencesExt

CONSTANTS
  App, Cli,     \* the two processes
  Keys,         \* the keys of the file: settings, shortcut ids, preference ids
  Vals,         \* the values a key can hold
  Seeds,        \* the keys of INITIAL_SHORTCUTS
  ClassDefault, \* the value a JsonConf class declares for every key
  MaxSaves, MaxFaults, MaxCrashes, MaxStarts

Unset == "unset"  \* no such key
Empty == "empty"  \* a value of _EMPTY_VALUES: left out of the file

ASSUME KeysAssumption == IsFiniteSet(Keys) /\ Unset \notin Keys
ASSUME DefaultAssumption == ClassDefault \in Vals /\ Seeds \subseteq Keys
ASSUME ValsAssumption == Unset \notin Vals /\ Empty \notin Vals
ASSUME BoundsAssumption == {MaxSaves, MaxFaults, MaxCrashes, MaxStarts} \subseteq Nat

Procs == {App, Cli}
Kinds == {"state", "shortcuts", "prefs"}

VARIABLES
  kind,      \* what the file is
  file,      \* state and data of the file on disk
  readable,  \* whether reading it succeeds
  temp,      \* the temp file of every process
  up,        \* the running processes
  loaded,    \* the processes that have created their instance
  inst,      \* the instance every process holds
  save,      \* the save every process is in the middle of
  form,      \* the form of the shortcut, or of the extension, that is selected
  ext,       \* the running extension: its preferences, and messages to it
  before,    \* old_preferences of save_user_preferences
  own,       \* history: keys a process has set since it last read or wrote
  seen,      \* history: processes whose instance starts from this content
  forms,     \* history: new-shortcut forms opened
  made,      \* history: shortcuts created from a form
  used       \* how much of every bound is used up

vars == <<kind, file, readable, temp, up, loaded, inst, save, form, ext, before,
          own, seen, forms, made, used>>
world == <<kind, readable, forms, made>>

Stored == Vals \cup {Unset}
Held == Vals \cup {Unset, Empty}
Nothing == [k \in Keys |-> Unset]
Idle == [why |-> "none", at |-> "none"]
Closed == [open |-> FALSE, id |-> Unset, dirty |-> FALSE]
FormOf(id) == [open |-> TRUE, id |-> id, dirty |-> FALSE]  \* Save is not sensitive yet
Gone == [running |-> FALSE, prefs |-> Nothing, inbox |-> <<>>]
NoFile == [state |-> "none", data |-> Nothing]

TypeOK ==
  /\ kind \in Kinds
  /\ file \in [state : {"missing", "whole", "partial", "invalid"}, data : [Keys -> Stored]]
  /\ readable \in BOOLEAN
  /\ temp \in [Procs -> [state : {"none", "partial", "whole"}, data : [Keys -> Stored]]]
  /\ up \subseteq Procs /\ loaded \subseteq up /\ seen \subseteq loaded
  /\ inst \in [Procs -> [Keys -> Held]]
  /\ save \in [Procs -> [why : {"none", "edit", "seed"}, at : {"none", "open", "write", "rename"}]]
  /\ form \in [open : BOOLEAN, id : Keys \cup {Unset}, dirty : BOOLEAN]
  /\ ext.running \in BOOLEAN /\ ext.prefs \in [Keys -> Held]
  /\ ext.inbox \in Seq(Keys \X Held)
  /\ before \in [Keys -> Held]
  /\ own \in [Procs -> SUBSET Keys]
  /\ forms \in Nat /\ made \in Nat
  /\ used \in [saves : 0..MaxSaves, faults : 0..MaxFaults,
               crashes : 0..MaxCrashes, starts : 0..MaxStarts]

-----------------------------------------------------------------------------
(* What is read and what is written. *)

\* _apply_class_defaults: only the state file's class declares defaults.
Default == IF kind = "state" THEN ClassDefault ELSE Unset
Defaults == [k \in Keys |-> Default]

\* A file the class has parsed: absent keys have their default.
Parsed(data) == [k \in Keys |-> IF data[k] = Unset THEN Default ELSE data[k]]

\* Mutant: the empty values are written too.
WrittenAll(p) == inst[p]

\* json_stringify with value_blacklist.
Written(p) == [k \in Keys |-> IF inst[p][k] = Empty THEN Unset ELSE inst[p][k]]

\* Per pid, so that the app and the CLI never share a temp file.
TempShared(p) == App  \* mutant: not per pid
TempOf(p) == p

\* Shortcuts.load adds the initial shortcuts when there is no file.
ShouldSeedEmpty(p, f) == kind = "shortcuts" /\ inst[p] = Nothing  \* mutant: no shortcuts
ShouldSeed(p, f) == kind = "shortcuts" /\ f.state = "missing"
Seeded(data) == [k \in Keys |-> IF k \in Seeds THEN ClassDefault ELSE data[k]]

\* ExtensionRecord.preferences: what is not set has the manifest's default.
Preferences(data) == [k \in Keys |-> IF data[k] = Unset THEN ClassDefault ELSE data[k]]

Spend(bound) == used' = [used EXCEPT ![bound] = @ + 1]

Begin(p, why) == save' = [save EXCEPT ![p] = [why |-> why, at |-> "open"]]

\* _populate_from_file.  An unreadable file keeps what the instance holds; an
\* invalid one is moved aside and counts as missing.
ReadFails == file.state # "missing" /\ ~readable
FileAfterRead == IF ReadFails \/ file.state = "whole" THEN file
                 ELSE [state |-> "missing", data |-> Nothing]
DataAfterReset(p) == IF ReadFails THEN Defaults ELSE Parsed(FileAfterRead.data)  \* mutant
DataAfterRead(p) == IF ReadFails THEN inst[p] ELSE Parsed(FileAfterRead.data)
Read(p) ==
  /\ file' = FileAfterRead
  /\ own' = IF ReadFails THEN own ELSE [own EXCEPT ![p] = {}]
  /\ seen' = IF ReadFails THEN seen
             ELSE (IF file' = file THEN seen ELSE {}) \cup {p}

-----------------------------------------------------------------------------
(* Processes come and go; the instance is created by the first load. *)

StartProcess(p) ==
  /\ p \notin up
  /\ p = App \/ kind = "state"
  /\ up' = up \cup {p}
  /\ inst' = [inst EXCEPT ![p] = Defaults]
  /\ own' = [own EXCEPT ![p] = {}]
  /\ UNCHANGED <<file, temp, loaded, save, form, ext, before, seen, used>>
  /\ UNCHANGED world

\* The first load of a process, or (shortcuts) any later one.
Load(p) ==
  /\ p \in up /\ save[p] = Idle
  /\ p \notin loaded \/ kind = "shortcuts"
  /\ loaded' = loaded \cup {p}
  /\ IF p \in loaded THEN UNCHANGED <<file, own, seen>> ELSE Read(p)
  /\ LET data == IF p \in loaded THEN inst[p] ELSE DataAfterRead(p)
     IN IF ShouldSeed(p, file')
          THEN inst' = [inst EXCEPT ![p] = Seeded(data)] /\ Begin(p, "seed")
          ELSE inst' = [inst EXCEPT ![p] = data] /\ UNCHANGED save
  /\ UNCHANGED <<temp, up, form, ext, before, used>>
  /\ UNCHANGED world

\* ExtensionRecord.reload_state: another process may have written the file.
Reload(p) ==
  /\ kind = "state"
  /\ p \in loaded /\ save[p] = Idle
  /\ Read(p)
  /\ inst' = [inst EXCEPT ![p] = DataAfterRead(p)]
  /\ UNCHANGED <<temp, up, loaded, save, form, ext, before, used>>
  /\ UNCHANGED world

Exit(p) ==
  /\ up' = up \ {p} /\ loaded' = loaded \ {p} /\ seen' = seen \ {p}
  /\ save' = [save EXCEPT ![p] = Idle]
  /\ form' = IF p = App THEN Closed ELSE form
  /\ ext' = IF p = App THEN Gone ELSE ext
  /\ UNCHANGED <<file, temp, inst, before, own>>
  /\ UNCHANGED world

Quit(p) ==
  /\ p \in up /\ save[p] = Idle
  /\ Spend("starts") /\ used.starts < MaxStarts
  /\ Exit(p)

\* Killed anywhere; a temp file stays behind under the old process id.
Crash(p) ==
  /\ p \in up /\ save[p] # Idle
  /\ Spend("crashes") /\ used.crashes < MaxCrashes
  /\ Exit(p)

-----------------------------------------------------------------------------
(* A save: the instance is updated first, then written and renamed. *)

Update(p, data) ==
  /\ p \in loaded /\ save[p] = Idle
  /\ used.saves < MaxSaves /\ Spend("saves")
  /\ inst' = [inst EXCEPT ![p] = data]
  /\ own' = [own EXCEPT ![p] = @ \cup {k \in Keys : data[k] # inst[p][k]}]
  /\ Begin(p, "edit")
  /\ UNCHANGED <<file, temp, up, loaded, ext, seen, kind, readable>>

\* state.save(key=value), settings.save({key: value}).
SaveKey(p, k, v) ==
  /\ kind = "state"
  /\ Update(p, [inst[p] EXCEPT ![k] = v])
  /\ UNCHANGED <<form, before, forms, made>>

OpenTemp(p) ==
  /\ save[p].at = "open"
  /\ temp' = [temp EXCEPT ![TempOf(p)] = [state |-> "partial", data |-> Nothing]]
  /\ save' = [save EXCEPT ![p].at = "write"]
  /\ UNCHANGED <<file, up, loaded, inst, form, ext, before, own, seen, used>>
  /\ UNCHANGED world

WriteTemp(p) ==
  /\ save[p].at = "write"
  /\ temp' = [temp EXCEPT ![TempOf(p)] = [state |-> "whole", data |-> Written(p)]]
  /\ save' = [save EXCEPT ![p].at = "rename"]
  /\ UNCHANGED <<file, up, loaded, inst, form, ext, before, own, seen, used>>
  /\ UNCHANGED world

\* save_user_preferences: one message per declared preference that changed.
Changed(old, new) == {k \in Keys : old[k] # new[k]}
Notify(old, new) ==
  ext' = IF ~ext.running THEN ext
         ELSE [ext EXCEPT !.inbox = @ \o
                 SetToSeq({<<k, new[k]>> : k \in Changed(old, new)})]

\* What follows a save, whether or not it was written: the shortcuts view
\* lists the shortcuts again, the extension is told.
AfterSave(p) ==
  /\ temp' = [temp EXCEPT ![TempOf(p)] = NoFile]
  /\ IF save[p].why = "edit" /\ ShouldSeed(p, file')
       THEN inst' = [inst EXCEPT ![p] = Seeded(@)] /\ Begin(p, "seed")
       ELSE save' = [save EXCEPT ![p] = Idle] /\ UNCHANGED inst
  /\ IF kind = "prefs" THEN Notify(before, Preferences(inst[p])) ELSE UNCHANGED ext
  /\ UNCHANGED <<up, loaded, form, before>>
  /\ UNCHANGED world

Rename(p) ==
  /\ save[p].at = "rename"
  /\ temp[TempOf(p)].state # "none"
  /\ file' = temp[TempOf(p)]
  /\ own' = [own EXCEPT ![p] = {}]
  /\ seen' = {p}
  /\ AfterSave(p)
  /\ UNCHANGED used

\* A full disk, a read-only directory: json_save returns False, and nobody
\* looks at what it returns.
SaveFails(p) ==
  /\ save[p] # Idle
  /\ used.faults < MaxFaults /\ Spend("faults")
  /\ UNCHANGED <<file, own, seen>>
  /\ AfterSave(p)

-----------------------------------------------------------------------------
(* The shortcuts view of the preferences. *)

InApp(k) == kind = k /\ App \in loaded /\ save[App] = Idle

OpenForm(id) ==
  /\ InApp("shortcuts")
  /\ forms < MaxSaves
  /\ id # Unset => inst[App][id] # Unset
  /\ form' = FormOf(id)
  /\ forms' = IF id = Unset THEN forms + 1 ELSE forms
  /\ UNCHANGED <<kind, file, readable, temp, up, loaded, inst, save, ext, before,
                 own, seen, made, used>>

\* A field changes: the form can be saved, or (of a shortcut) is not valid.
EditForm ==
  /\ InApp("shortcuts") \/ InApp("prefs")
  /\ form.open
  /\ form' = [form EXCEPT !.dirty = kind = "prefs" \/ ~@]
  /\ UNCHANGED <<file, temp, up, loaded, inst, save, ext, before, own, seen, used>>
  /\ UNCHANGED world

\* A new shortcut gets a fresh id, and the form edits that shortcut from then on.
SavedFormNew(id) == [form EXCEPT !.dirty = FALSE]  \* mutant: it stays a new shortcut
SavedForm(id) == FormOf(id)
Loaded == IF ShouldSeed(App, file) THEN Seeded(inst[App]) ELSE inst[App]

\* _on_save_shortcut, by the button or Ctrl+S.  Ctrl+S still saves the form of
\* a shortcut that was removed with changes in it, as another shortcut.
SaveShortcut(v) ==
  /\ InApp("shortcuts")
  /\ form.dirty
  /\ \E id \in Keys :
       /\ IF form.id = Unset THEN id \notin Seeds /\ inst[App][id] = Unset ELSE id = form.id
       /\ Update(App, [Loaded EXCEPT ![id] = v])
       /\ form' = SavedForm(id)
       /\ made' = IF form.open /\ form.id = Unset THEN made + 1 ELSE made
  /\ UNCHANGED <<before, forms>>

RemoveShortcut ==
  /\ InApp("shortcuts")
  /\ form.open /\ form.id # Unset /\ inst[App][form.id] # Unset
  /\ Update(App, [Loaded EXCEPT ![form.id] = Unset])
  /\ form' = [Closed EXCEPT !.dirty = form.dirty]
  /\ UNCHANGED <<before, forms, made>>

-----------------------------------------------------------------------------
(* The preferences of an extension, and the extension. *)

\* Selecting the extension shows its preferences.  So does every change of the
\* list, reloaded every second: what was edited and not saved is lost.
ShowDetails ==
  /\ InApp("prefs")
  /\ form' = FormOf(Unset) /\ form' # form
  /\ UNCHANGED <<file, temp, up, loaded, inst, save, ext, before, own, seen, used>>
  /\ UNCHANGED world

\* The form has a widget for every preference, and the save replaces all.
FormValues == [Keys -> Vals \cup {Empty}]
SavePreferencesLate(values) ==  \* mutant: the old values are read too late
  /\ InApp("prefs") /\ form.dirty
  /\ before' = Preferences(values)
  /\ Update(App, values)
  /\ form' = [form EXCEPT !.dirty = FALSE]
  /\ UNCHANGED <<forms, made>>
SavePreferences(values) ==
  /\ InApp("prefs") /\ form.dirty
  /\ before' = Preferences(inst[App])
  /\ Update(App, values)
  /\ form' = [form EXCEPT !.dirty = FALSE]
  /\ UNCHANGED <<forms, made>>

StartExtension ==
  /\ InApp("prefs") /\ ~ext.running
  /\ ext' = [running |-> TRUE, prefs |-> Preferences(inst[App]), inbox |-> <<>>]
  /\ UNCHANGED <<file, temp, up, loaded, inst, save, form, before, own, seen, used>>
  /\ UNCHANGED world

ReadPreference ==
  /\ ext.inbox # <<>>
  /\ ext' = [ext EXCEPT !.prefs[Head(ext.inbox)[1]] = Head(ext.inbox)[2],
                        !.inbox = Tail(@)]
  /\ UNCHANGED <<file, temp, up, loaded, inst, save, form, before, own, seen, used>>
  /\ UNCHANGED world

\* It exits by itself, or is stopped.
StopExtension ==
  /\ ext.running
  /\ used.starts < MaxStarts /\ Spend("starts")
  /\ ext' = Gone
  /\ UNCHANGED <<file, temp, up, loaded, inst, save, form, before, own, seen>>
  /\ UNCHANGED world

-----------------------------------------------------------------------------
(* The file changes under the processes: by hand, or by its permissions. *)

Disturb ==
  /\ used.faults < MaxFaults /\ Spend("faults")
  /\ \/ readable' = ~readable /\ UNCHANGED <<file, seen>>
     \/ /\ file.state = "whole"
        /\ \E s \in {"missing", "invalid"} : file' = [state |-> s, data |-> Nothing]
        /\ seen' = {}
        /\ UNCHANGED readable
  /\ UNCHANGED <<kind, temp, up, loaded, inst, save, form, ext, before, own, forms, made>>

-----------------------------------------------------------------------------
Init ==
  /\ kind \in Kinds
  /\ file \in {[state |-> "missing", data |-> Nothing],
               [state |-> "whole", data |-> [k \in Keys |-> ClassDefault]]}
  /\ readable = TRUE
  /\ temp = [p \in Procs |-> NoFile]
  /\ up = {} /\ loaded = {} /\ seen = {}
  /\ inst = [p \in Procs |-> Nothing]
  /\ save = [p \in Procs |-> Idle]
  /\ form = Closed /\ ext = Gone
  /\ before = Nothing
  /\ own = [p \in Procs |-> {}]
  /\ forms = 0 /\ made = 0
  /\ used = [saves |-> 0, faults |-> 0, crashes |-> 0, starts |-> 0]

ProcessStep(p) ==
  \/ StartProcess(p) \/ Load(p) \/ Reload(p) \/ Quit(p) \/ Crash(p)
  \/ \E k \in Keys, v \in Vals \cup {Empty} : SaveKey(p, k, v)
  \/ OpenTemp(p) \/ WriteTemp(p) \/ Rename(p) \/ SaveFails(p)

Next ==
  \/ \E p \in Procs : ProcessStep(p)
  \/ \E id \in Keys \cup {Unset} : OpenForm(id)
  \/ EditForm \/ RemoveShortcut \/ ShowDetails
  \/ \E v \in Vals : SaveShortcut(v)
  \/ \E values \in FormValues : SavePreferences(values)
  \/ StartExtension \/ ReadPreference \/ StopExtension
  \/ Disturb

Spec == Init /\ [][Next]_vars

-----------------------------------------------------------------------------
(* Properties. *)

\* However saves of two processes overlap, and wherever one is killed, the
\* file is never one that somebody is still writing.
WholeFile == file.state # "partial"

\* What a completed save changes on disk is what its process has set, unless
\* the process has not seen the file another process (or the user) wrote:
\* neither a failed read, nor a failed save, nor defaults or emptied values
\* make a save drop or reset a key that is on disk.
NoForeignLoss ==
  [][\A p \in seen : save[p].at = "rename" /\ save'[p].at # "rename" /\ file.state = "whole" =>
       \A k \in Keys \ own[p] : Parsed(file'.data)[k] = Parsed(file.data)[k]]_vars

\* Loading the shortcuts, at the start or again, never brings back what the
\* user removed: as long as there is a file, what appears in the instance
\* comes from the file or from a form.
RemovedStaysRemoved ==
  [][kind = "shortcuts" /\ App \in up /\ file.state = "whole" /\ file'.state = "whole"
       /\ used'.saves = used.saves =>
         \A k \in Keys : inst'[App][k] \in {inst[App][k], file.data[k]}]_vars

\* Saving the form of a new shortcut again and again makes one shortcut.
OneShortcutPerForm == made <= forms

\* A running extension, once it has read its messages, has the preferences the
\* app has: none of the changes is missed, whether or not it was written.
Received(k) ==
  LET news == {i \in DOMAIN ext.inbox : ext.inbox[i][1] = k}
  IN IF news = {} THEN ext.prefs[k] ELSE ext.inbox[Max(news)][2]
ExtensionFollows ==
  ext.running /\ save[App] = Idle =>
    \A k \in Keys : Received(k) = Preferences(inst[App])[k]
=============================================================================
