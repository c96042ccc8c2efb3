--------------------------- MODULE StateFilesProofs ---------------------------
(***************************************************************************)
(* Proofs about StateFiles, for any keys, values and bounds: every         *)
(* property that its run checks.                                           *)
(*                                                                         *)
(* A file that others read is never half written (WholeInv); a form makes  *)
(* one shortcut (FormsInv) and a removed one stays removed; a save changes *)
(* on disk what its process has set (ForeignInv); a running extension is   *)
(* told of every change of its preferences (FollowInv).                    *)
(***************************************************************************)
EXTENDS StateFiles, FiniteSetTheorems, WellFoundedInduction, TLAPS

\* What WholeFile rests on: a process that is about to rename has written its
\* temp file to the end.
SaveSteps == [why : {"none", "edit", "seed"}, at : {"none", "open", "write", "rename"}]
Renamable == \A p \in Procs : save[p].at = "rename" => temp[p].state # "partial"
WholeInv ==
  /\ save \in [Procs -> SaveSteps]
  /\ DOMAIN temp = Procs
  /\ Renamable
  /\ WholeFile

\* Reading a file moves an invalid one aside, and changes nothing else on disk.
LEMMA ReadKeepsWhole ==
  ASSUME NEW p \in Procs, WholeFile, Read(p)
  PROVE  WholeFile'
BY DEF Read, FileAfterRead, WholeFile

\* A process begins a save without a temp file of its own to rename.
LEMMA BeginKeeps ==
  ASSUME NEW p \in Procs, NEW why \in {"none", "edit", "seed"}, WholeInv,
         Begin(p, why), UNCHANGED temp
  PROVE  /\ save' \in [Procs -> SaveSteps]
         /\ DOMAIN temp' = Procs
         /\ Renamable'
BY DEF Begin, WholeInv, SaveSteps, Renamable

\* A process that goes leaves its temp file to nobody.
LEMMA ExitKeeps ==
  ASSUME NEW p \in Procs, WholeInv, Exit(p)
  PROVE  WholeInv'
BY DEF Exit, Idle, WholeInv, SaveSteps, Renamable, WholeFile

\* An edit begins a save; the file is not touched yet.
LEMMA UpdateKeeps ==
  ASSUME WholeInv, NEW p \in Procs, NEW data, Update(p, data)
  PROVE  WholeInv'
<1>1. Begin(p, "edit") /\ UNCHANGED temp /\ UNCHANGED file
  BY DEF Update
<1>. QED  BY <1>1, BeginKeeps DEF WholeInv, WholeFile

\* The end of a save clears the temp file; the file is what the caller says.
LEMMA AfterSaveKeeps ==
  ASSUME NEW p \in Procs, WholeInv, AfterSave(p), WholeFile'
  PROVE  WholeInv'
<1>1. temp' = [temp EXCEPT ![p] = NoFile]
  BY DEF AfterSave, TempOf
<1>2. \/ save' = [save EXCEPT ![p] = [why |-> "seed", at |-> "open"]]
      \/ save' = [save EXCEPT ![p] = Idle]
  BY DEF AfterSave, Begin
<1>3. save' \in [Procs -> SaveSteps]
  BY <1>2 DEF WholeInv, SaveSteps, Idle
<1>4. Renamable'
  BY <1>1, <1>2 DEF WholeInv, SaveSteps, Idle, Renamable, NoFile
<1>. QED  BY <1>1, <1>3, <1>4 DEF WholeInv

LEMMA InitWhole == Init => WholeInv
BY DEF Init, WholeInv, SaveSteps, Renamable, WholeFile, Idle, NoFile

\* The steps that touch neither the disk nor a save.
LEMMA StutterKeeps ==
  ASSUME WholeInv, UNCHANGED <<file, temp, save>>
  PROVE  WholeInv'
BY DEF WholeInv, Renamable, WholeFile

LEMMA StepKeepsWhole ==
  ASSUME WholeInv, [Next]_vars
  PROVE  WholeInv'
<1>1. ASSUME NEW p \in Procs, Load(p) PROVE WholeInv'
  <2>1. WholeFile'
    BY <1>1, ReadKeepsWhole DEF Load, WholeInv, WholeFile
  <2>2. UNCHANGED temp /\ (Begin(p, "seed") \/ UNCHANGED save)
    BY <1>1 DEF Load
  <2>. QED  BY <2>1, <2>2, BeginKeeps DEF WholeInv, Renamable
<1>2. ASSUME NEW p \in Procs, Reload(p) PROVE WholeInv'
  BY <1>2, ReadKeepsWhole DEF Reload, WholeInv, Renamable
<1>3. ASSUME NEW p \in Procs, Quit(p) \/ Crash(p) PROVE WholeInv'
  BY <1>3, ExitKeeps DEF Quit, Crash
<1>4. ASSUME NEW p \in Procs, NEW k, NEW v, SaveKey(p, k, v) PROVE WholeInv'
  BY <1>4, UpdateKeeps DEF SaveKey
<1>5. ASSUME NEW p \in Procs, OpenTemp(p) PROVE WholeInv'
  BY <1>5 DEF OpenTemp, TempOf, WholeInv, SaveSteps, Renamable, WholeFile
<1>6. ASSUME NEW p \in Procs, WriteTemp(p) PROVE WholeInv'
  BY <1>6 DEF WriteTemp, TempOf, WholeInv, SaveSteps, Renamable, WholeFile
<1>7. ASSUME NEW p \in Procs, Rename(p) PROVE WholeInv'
  <2>1. WholeFile'
    BY <1>7 DEF Rename, TempOf, WholeInv, Renamable, WholeFile
  <2>. QED  BY <1>7, <2>1, AfterSaveKeeps DEF Rename
<1>8. ASSUME NEW p \in Procs, SaveFails(p) PROVE WholeInv'
  <2>1. WholeFile'
    BY <1>8 DEF SaveFails, WholeInv, WholeFile
  <2>. QED  BY <1>8, <2>1, AfterSaveKeeps DEF SaveFails
<1>9. CASE \/ \E p \in Procs : StartProcess(p)
           \/ \E id \in Keys \cup {Unset} : OpenForm(id)
           \/ EditForm \/ ShowDetails \/ StartExtension \/ ReadPreference \/ StopExtension
  BY <1>9, StutterKeeps
     DEF StartProcess, OpenForm, EditForm, ShowDetails, StartExtension, ReadPreference,
         StopExtension
<1>10. CASE RemoveShortcut
  BY <1>10, UpdateKeeps DEF RemoveShortcut, Procs
<1>11. ASSUME NEW v, SaveShortcut(v) PROVE WholeInv'
  BY <1>11, UpdateKeeps DEF SaveShortcut, Procs
<1>12. ASSUME NEW values, SavePreferences(values) PROVE WholeInv'
  BY <1>12, UpdateKeeps DEF SavePreferences, Procs
<1>13. CASE Disturb
  BY <1>13 DEF Disturb, WholeInv, Renamable, WholeFile
<1>14. CASE UNCHANGED vars
  BY <1>14, StutterKeeps DEF vars
<1>. QED
  BY <1>1, <1>2, <1>3, <1>4, <1>5, <1>6, <1>7, <1>8, <1>9, <1>10, <1>11, <1>12, <1>13,
     <1>14 DEF Next, ProcessStep

\* The file is never one that somebody is still writing, whichever processes
\* save it and wherever they are killed (json_utils._atomic_write_text).
THEOREM NeverHalfWritten == Spec => []WholeFile
<1>1. WholeInv => WholeFile
  BY DEF WholeInv
<1>. QED  BY <1>1, InitWhole, StepKeepsWhole, PTL DEF Spec

-----------------------------------------------------------------------------
(* Types.                                                                   *)

Data == [Keys -> Stored]
Files == [state : {"missing", "whole", "partial", "invalid"}, data : Data]
Temps == [state : {"none", "partial", "whole"}, data : Data]
Forms == [open : BOOLEAN, id : Keys \cup {Unset}, dirty : BOOLEAN]
Exts == [running : BOOLEAN, prefs : [Keys -> Held], inbox : Seq(Keys \X Held)]
Uses == [saves : 0..MaxSaves, faults : 0..MaxFaults,
         crashes : 0..MaxCrashes, starts : 0..MaxStarts]

Types ==
  /\ kind \in Kinds /\ file \in Files /\ readable \in BOOLEAN
  /\ temp \in [Procs -> Temps]
  /\ up \subseteq Procs /\ loaded \subseteq up /\ seen \subseteq loaded
  /\ inst \in [Procs -> [Keys -> Held]]
  /\ save \in [Procs -> SaveSteps]
  /\ \A p \in Procs : save[p] # Idle => p \in loaded
  /\ form \in Forms /\ ext \in Exts /\ before \in [Keys -> Held]
  /\ own \in [Procs -> SUBSET Keys]
  /\ forms \in Nat /\ made \in Nat /\ used \in Uses

LEMMA DataTypes ==
  /\ Nothing \in Data /\ Default \in Stored /\ Defaults \in Data
  /\ Stored \subseteq Held /\ Data \subseteq [Keys -> Held]
  /\ \A data \in Data : Parsed(data) \in Data
  /\ \A data \in [Keys -> Held] : /\ Seeded(data) \in [Keys -> Held]
                                  /\ Preferences(data) \in [Keys -> Held]
<1>1. Default \in Stored /\ ClassDefault \in Vals /\ Stored \subseteq Held
  BY DefaultAssumption DEF Default, Stored, Held
<1>2. Nothing \in Data /\ Defaults \in Data
  BY <1>1 DEF Nothing, Defaults, Data, Stored
<1>3. Data \subseteq [Keys -> Held]
  BY <1>1 DEF Data
<1>4. \A data \in Data : Parsed(data) \in Data
  BY <1>1 DEF Parsed, Data
<1>5. \A data \in [Keys -> Held] : Seeded(data) \in [Keys -> Held]
  BY <1>1 DEF Seeded, Held
<1>6. \A data \in [Keys -> Held] : Preferences(data) \in [Keys -> Held]
  BY <1>1 DEF Preferences, Held
<1>. QED  BY <1>1, <1>2, <1>3, <1>4, <1>5, <1>6

LEMMA WrittenTypes ==
  ASSUME Types, NEW p \in Procs
  PROVE  Written(p) \in Data
<1>1. inst[p] \in [Keys -> Held]
  BY DEF Types
<1>2. \A k \in Keys : (IF inst[p][k] = Empty THEN Unset ELSE inst[p][k]) \in Stored
  BY <1>1 DEF Held, Stored
<1>. QED  BY <1>2 DEF Written, Data

LEMMA ReadTypes ==
  ASSUME Types, NEW p \in Procs
  PROVE  FileAfterRead \in Files /\ DataAfterRead(p) \in [Keys -> Held]
<1>1. file \in Files /\ inst[p] \in [Keys -> Held]
  BY DEF Types
<1>2. FileAfterRead \in Files
  BY <1>1, DataTypes DEF FileAfterRead, Files
<1>3. FileAfterRead.data \in Data
  BY <1>2 DEF Files
<1>. QED  BY <1>1, <1>2, <1>3, DataTypes DEF DataAfterRead

\* The messages about changed preferences: one for each.
Messages(old, new) == SetToSeq({<<k, new[k]>> : k \in Changed(old, new)})
Tells(msgs, old, new) ==
  /\ \A i \in DOMAIN msgs : msgs[i][1] \in Changed(old, new) /\ msgs[i][2] = new[msgs[i][1]]
  /\ \A k \in Changed(old, new) : \E i \in DOMAIN msgs : msgs[i] = <<k, new[k]>>

LEMMA MessageFacts ==
  ASSUME NEW old \in [Keys -> Held], NEW new \in [Keys -> Held]
  PROVE  /\ Messages(old, new) \in Seq(Keys \X Held)
         /\ Tells(Messages(old, new), old, new)
<1>. DEFINE msgs == Messages(old, new)
            C == Changed(old, new)
            S == {<<k, new[k]>> : k \in C}
            f == [k \in C |-> <<k, new[k]>>]
            n == Cardinality(S)
<1>1. IsFiniteSet(C)
  <2>1. C \in SUBSET Keys
    BY DEF Changed
  <2>. QED  BY <2>1, KeysAssumption, FS_Subset
<1>2. IsFiniteSet(S)
  <2>1. f \in Surjection(C, S)
    BY DEF Surjection
  <2>. QED  BY <1>1, <2>1, FS_Surjection
<1>3. n \in Nat /\ ExistsBijection(1..n, S)
  BY <1>2, FS_CardinalityType
<1>4. \E g \in [1..n -> S] : IsInjective(g)
  <2>. HIDE DEF S, n
  <2>. QED  BY <1>3 DEF ExistsBijection, Bijection, Injection
<1>5. msgs = CHOOSE g \in [1..n -> S] : IsInjective(g)
  BY DEF SetToSeq, Messages
<1>. HIDE DEF msgs
<1>6. msgs \in [1..n -> S] /\ IsInjective(msgs)
  <2>. HIDE DEF S, n
  <2>. QED  BY <1>4, <1>5
<1>7. S \subseteq Keys \X Held
  BY DEF Changed
<1>8. msgs \in Seq(Keys \X Held) /\ DOMAIN msgs = 1..n
  <2>. HIDE DEF S, n
  <2>1. \A i \in 1..n : msgs[i] \in Keys \X Held
    BY <1>6, <1>7
  <2>2. msgs = [i \in 1..n |-> msgs[i]]
    BY <1>6
  <2>. QED  BY <1>3, <1>6, <2>1, <2>2
<1>9. \A i \in DOMAIN msgs : msgs[i][1] \in C /\ msgs[i][2] = new[msgs[i][1]]
  BY <1>6, <1>8
<1>10. \A m \in S : \E i \in 1..n : msgs[i] = m
  <2>. HIDE DEF S, n
  <2>1. msgs \in Injection(1..n, S)
    BY <1>6 DEF Injection
  <2>2. Cardinality(1..n) = Cardinality(S)
    <3>1. Cardinality(1..n) = n
      BY <1>3, FS_Interval
    <3>. QED  BY <3>1 DEF n
  <2>4. msgs \in Surjection(1..n, S)
    BY <1>2, <2>1, <2>2, FS_Injection
  <2>. QED  BY <2>4 DEF Surjection
<1>. QED  BY <1>8, <1>9, <1>10 DEF Tells, msgs

LEMMA SpendTypes ==
  ASSUME used \in Uses
  PROVE  /\ used.saves < MaxSaves /\ Spend("saves") => used' \in Uses
         /\ used.faults < MaxFaults /\ Spend("faults") => used' \in Uses
         /\ used.crashes < MaxCrashes /\ Spend("crashes") => used' \in Uses
         /\ used.starts < MaxStarts /\ Spend("starts") => used' \in Uses
<1>1. MaxSaves \in Nat /\ MaxFaults \in Nat /\ MaxCrashes \in Nat /\ MaxStarts \in Nat
  BY BoundsAssumption
<1>2. ASSUME used.saves < MaxSaves, Spend("saves") PROVE used' \in Uses
  BY <1>1, <1>2 DEF Spend, Uses
<1>3. ASSUME used.faults < MaxFaults, Spend("faults") PROVE used' \in Uses
  BY <1>1, <1>3 DEF Spend, Uses
<1>4. ASSUME used.crashes < MaxCrashes, Spend("crashes") PROVE used' \in Uses
  BY <1>1, <1>4 DEF Spend, Uses
<1>5. ASSUME used.starts < MaxStarts, Spend("starts") PROVE used' \in Uses
  BY <1>1, <1>5 DEF Spend, Uses
<1>. QED  BY <1>2, <1>3, <1>4, <1>5

LEMMA UpdateTypes ==
  ASSUME Types, NEW p \in Procs, NEW data \in [Keys -> Held], Update(p, data),
         form' \in Forms, before' \in [Keys -> Held], forms' \in Nat, made' \in Nat
  PROVE  Types'
<1>1. used' \in Uses
  BY SpendTypes DEF Update, Types
<1>2. inst' \in [Procs -> [Keys -> Held]] /\ own' \in [Procs -> SUBSET Keys]
  BY DEF Update, Types
<1>3. save' \in [Procs -> SaveSteps] /\ \A q \in Procs : save'[q] # Idle => q \in loaded
  BY DEF Update, Begin, Types, SaveSteps
<1>. QED  BY <1>1, <1>2, <1>3 DEF Update, Types

LEMMA ExitTypes ==
  ASSUME Types, NEW p \in Procs, Exit(p), used' \in Uses
  PROVE  Types'
<1>1. form' \in Forms /\ ext' \in Exts
  <2>1. Closed \in Forms /\ Gone \in Exts
    BY DataTypes DEF Closed, Forms, Gone, Exts
  <2>. QED  BY <2>1 DEF Exit, Types
<1>2. save' \in [Procs -> SaveSteps] /\ \A q \in Procs : save'[q] # Idle => q \in loaded'
  BY DEF Exit, Types, Idle, SaveSteps
<1>. QED  BY <1>1, <1>2 DEF Exit, Types, world

LEMMA NotifyTypes ==
  ASSUME ext \in Exts, NEW old \in [Keys -> Held], NEW new \in [Keys -> Held], Notify(old, new)
  PROVE  ext' \in Exts
<1>. DEFINE msgs == Messages(old, new)
<1>1. msgs \in Seq(Keys \X Held)
  BY MessageFacts
<1>2. ext' = IF ~ext.running THEN ext ELSE [ext EXCEPT !.inbox = @ \o msgs]
  BY DEF Notify, Messages
<1>. HIDE DEF msgs
<1>3. ext.inbox \o msgs \in Seq(Keys \X Held)
  BY <1>1 DEF Exts
<1>. QED  BY <1>2, <1>3 DEF Exts

LEMMA AfterSaveTypes ==
  ASSUME Types, NEW p \in Procs, save[p] # Idle, AfterSave(p), file' \in Files,
         own' \in [Procs -> SUBSET Keys], seen' \subseteq loaded, used' \in Uses
  PROVE  Types'
<1>1. temp' \in [Procs -> Temps]
  BY DataTypes DEF AfterSave, TempOf, Types, NoFile, Temps
<1>2. inst[p] \in [Keys -> Held] /\ before \in [Keys -> Held] /\ ext \in Exts
  BY DEF Types
<1>3. inst' \in [Procs -> [Keys -> Held]]
  BY <1>2, DataTypes DEF AfterSave, Types
<1>4. save' \in [Procs -> SaveSteps] /\ \A q \in Procs : save'[q] # Idle => q \in loaded
  BY DEF AfterSave, Begin, Idle, Types, SaveSteps
<1>5. ext' \in Exts
  <2>1. Preferences(inst[p]) \in [Keys -> Held]
    BY <1>2, DataTypes
  <2>. QED  BY <1>2, <2>1, NotifyTypes DEF AfterSave
<1>. QED  BY <1>1, <1>3, <1>4, <1>5 DEF AfterSave, Types, world

LEMMA LoadedTypes ==
  ASSUME Types
  PROVE  App \in Procs /\ Loaded \in [Keys -> Held]
<1>1. App \in Procs /\ inst[App] \in [Keys -> Held]
  BY DEF Types, Procs
<1>. QED  BY <1>1, DataTypes DEF Loaded

LEMMA InitTypes == Init => Types
<1>. SUFFICES ASSUME Init PROVE Types
  OBVIOUS
<1>1. file \in Files
  <2>1. [k \in Keys |-> ClassDefault] \in Data
    BY DefaultAssumption DEF Data, Stored
  <2>. QED  BY <2>1, DataTypes DEF Init, Files
<1>2. temp \in [Procs -> Temps] /\ save \in [Procs -> SaveSteps]
  BY DataTypes DEF Init, NoFile, Temps, Idle, SaveSteps
<1>3. form \in Forms /\ ext \in Exts /\ before \in [Keys -> Held]
      /\ inst \in [Procs -> [Keys -> Held]]
  BY DataTypes DEF Init, Closed, Forms, Gone, Exts
<1>4. used \in Uses
  BY BoundsAssumption DEF Init, Uses
<1>. QED  BY <1>1, <1>2, <1>3, <1>4 DEF Init, Types

\* What reading the file leaves.
LEMMA ReadKeepsTypes ==
  ASSUME Types, NEW p \in Procs, Read(p)
  PROVE  /\ file' \in Files /\ own' \in [Procs -> SUBSET Keys]
         /\ seen' \subseteq seen \cup {p}
<1>1. FileAfterRead \in Files
  BY ReadTypes
<1>. QED  BY <1>1 DEF Read, Types

LEMMA ProcessTypes ==
  ASSUME Types, NEW p \in Procs, ProcessStep(p)
  PROVE  Types'
<1>1. ASSUME StartProcess(p) PROVE Types'
  BY <1>1, DataTypes DEF StartProcess, Types, world
<1>2. ASSUME Load(p) PROVE Types'
  <2>. DEFINE data == IF p \in loaded THEN inst[p] ELSE DataAfterRead(p)
  <2>1. /\ p \in up /\ loaded' = loaded \cup {p}
        /\ IF p \in loaded THEN UNCHANGED <<file, own, seen>> ELSE Read(p)
        /\ UNCHANGED <<temp, up, form, ext, before, used>> /\ UNCHANGED world
        /\ IF ShouldSeed(p, file')
             THEN inst' = [inst EXCEPT ![p] = Seeded(data)] /\ Begin(p, "seed")
             ELSE inst' = [inst EXCEPT ![p] = data] /\ UNCHANGED save
    BY <1>2 DEF Load
  <2>2. data \in [Keys -> Held]
    BY ReadTypes DEF Types
  <2>. HIDE DEF data
  <2>3. inst' \in [Procs -> [Keys -> Held]]
    BY <2>1, <2>2, DataTypes DEF Types
  <2>4. save' \in [Procs -> SaveSteps] /\ \A q \in Procs : save'[q] # Idle => q \in loaded'
    BY <2>1 DEF Begin, Types, SaveSteps
  <2>5. file' \in Files /\ own' \in [Procs -> SUBSET Keys] /\ seen' \subseteq loaded'
    BY <2>1, ReadKeepsTypes DEF Types
  <2>. QED  BY <2>1, <2>3, <2>4, <2>5 DEF Types, world
<1>3. ASSUME Reload(p) PROVE Types'
  <2>1. p \in loaded /\ Read(p) /\ inst' = [inst EXCEPT ![p] = DataAfterRead(p)]
        /\ UNCHANGED <<temp, up, loaded, save, form, ext, before, used>> /\ UNCHANGED world
    BY <1>3 DEF Reload
  <2>2. inst' \in [Procs -> [Keys -> Held]]
    BY <2>1, ReadTypes DEF Types
  <2>3. file' \in Files /\ own' \in [Procs -> SUBSET Keys] /\ seen' \subseteq loaded
    BY <2>1, ReadKeepsTypes DEF Types
  <2>. QED  BY <2>1, <2>2, <2>3 DEF Types, world
<1>4. ASSUME Quit(p) \/ Crash(p) PROVE Types'
  <2>1. Exit(p) /\ used' \in Uses
    BY <1>4, SpendTypes DEF Quit, Crash, Types
  <2>. QED  BY <2>1, ExitTypes
<1>5. ASSUME NEW k \in Keys, NEW v \in Vals \cup {Empty}, SaveKey(p, k, v) PROVE Types'
  <2>1. [inst[p] EXCEPT ![k] = v] \in [Keys -> Held]
    BY DEF Types, Held
  <2>2. form' \in Forms /\ before' \in [Keys -> Held] /\ forms' \in Nat /\ made' \in Nat
    BY <1>5 DEF SaveKey, Types
  <2>. QED  BY <1>5, <2>1, <2>2, UpdateTypes DEF SaveKey
<1>6. ASSUME OpenTemp(p) \/ WriteTemp(p) PROVE Types'
  <2>1. [state |-> "partial", data |-> Nothing] \in Temps
        /\ [state |-> "whole", data |-> Written(p)] \in Temps
    BY DataTypes, WrittenTypes DEF Temps
  <2>2. temp' \in [Procs -> Temps]
    BY <1>6, <2>1 DEF OpenTemp, WriteTemp, TempOf, Types
  <2>3. p \in loaded
    BY <1>6 DEF OpenTemp, WriteTemp, Types, Idle
  <2>4. save' \in [Procs -> SaveSteps] /\ \A q \in Procs : save'[q] # Idle => q \in loaded
    <3>1. PICK s \in SaveSteps : save' = [save EXCEPT ![p] = s]
      <4>1. save[p] \in SaveSteps
        BY DEF Types
      <4>2. [save[p] EXCEPT !.at = "write"] \in SaveSteps
            /\ [save[p] EXCEPT !.at = "rename"] \in SaveSteps
        BY <4>1 DEF SaveSteps
      <4>. QED  BY <1>6, <4>2 DEF OpenTemp, WriteTemp
    <3>. QED  BY <2>3, <3>1 DEF Types
  <2>. QED  BY <1>6, <2>2, <2>4 DEF OpenTemp, WriteTemp, Types, world
<1>7. ASSUME Rename(p) PROVE Types'
  <2>1. save[p] # Idle /\ p \in loaded
    BY <1>7 DEF Rename, Types, Idle
  <2>2. file' \in Files
    BY <1>7 DEF Rename, TempOf, Types, Temps, Files
  <2>3. own' \in [Procs -> SUBSET Keys] /\ seen' \subseteq loaded /\ used' \in Uses
    BY <1>7, <2>1 DEF Rename, Types
  <2>. QED  BY <1>7, <2>1, <2>2, <2>3, AfterSaveTypes DEF Rename
<1>8. ASSUME SaveFails(p) PROVE Types'
  <2>1. file' \in Files /\ own' \in [Procs -> SUBSET Keys] /\ seen' \subseteq loaded
        /\ used' \in Uses
    BY <1>8, SpendTypes DEF SaveFails, Types
  <2>. QED  BY <1>8, <2>1, AfterSaveTypes DEF SaveFails
<1>. QED  BY <1>1, <1>2, <1>3, <1>4, <1>5, <1>6, <1>7, <1>8 DEF ProcessStep

LEMMA AppTypes ==
  /\ Types
  /\ \/ \E id \in Keys \cup {Unset} : OpenForm(id)
     \/ EditForm \/ RemoveShortcut \/ ShowDetails
     \/ \E v \in Vals : SaveShortcut(v)
     \/ \E values \in FormValues : SavePreferences(values)
  => Types'
<1>. SUFFICES ASSUME Types
              PROVE  (\/ \E id \in Keys \cup {Unset} : OpenForm(id)
                      \/ EditForm \/ RemoveShortcut \/ ShowDetails
                      \/ \E v \in Vals : SaveShortcut(v)
                      \/ \E values \in FormValues : SavePreferences(values)) => Types'
  OBVIOUS
<1>1. ASSUME NEW id \in Keys \cup {Unset}, OpenForm(id) PROVE Types'
  BY <1>1 DEF OpenForm, FormOf, Forms, Types
<1>2. ASSUME EditForm PROVE Types'
  BY <1>2 DEF EditForm, Forms, Types, world
<1>3. ASSUME ShowDetails PROVE Types'
  BY <1>3 DEF ShowDetails, FormOf, Forms, Types, world
<1>4. ASSUME RemoveShortcut PROVE Types'
  <2>1. form \in Forms /\ form.id \in Keys
    BY <1>4 DEF RemoveShortcut, Types, Forms
  <2>2. [Loaded EXCEPT ![form.id] = Unset] \in [Keys -> Held]
    BY LoadedTypes DEF Held
  <2>3. form' \in Forms /\ before' \in [Keys -> Held] /\ forms' \in Nat /\ made' \in Nat
    BY <1>4, <2>1 DEF RemoveShortcut, Closed, Forms, Types
  <2>. QED  BY <1>4, <2>2, <2>3, LoadedTypes, UpdateTypes DEF RemoveShortcut
<1>5. ASSUME NEW v \in Vals, SaveShortcut(v) PROVE Types'
  <2>1. PICK id \in Keys : /\ Update(App, [Loaded EXCEPT ![id] = v])
                           /\ form' = SavedForm(id)
                           /\ made' = IF form.open /\ form.id = Unset THEN made + 1 ELSE made
    BY <1>5 DEF SaveShortcut
  <2>2. [Loaded EXCEPT ![id] = v] \in [Keys -> Held]
    BY LoadedTypes DEF Held
  <2>3. form' \in Forms /\ before' \in [Keys -> Held] /\ forms' \in Nat /\ made' \in Nat
    BY <1>5, <2>1 DEF SaveShortcut, SavedForm, FormOf, Forms, Types
  <2>. QED  BY <2>1, <2>2, <2>3, LoadedTypes, UpdateTypes
<1>6. ASSUME NEW values \in FormValues, SavePreferences(values) PROVE Types'
  <2>1. values \in [Keys -> Held]
    BY DEF FormValues, Held
  <2>2. before' \in [Keys -> Held]
    BY <1>6, LoadedTypes, DataTypes DEF SavePreferences, Types
  <2>3. form' \in Forms /\ forms' \in Nat /\ made' \in Nat
    BY <1>6 DEF SavePreferences, Forms, Types
  <2>. QED  BY <1>6, <2>1, <2>2, <2>3, LoadedTypes, UpdateTypes DEF SavePreferences
<1>. QED  BY <1>1, <1>2, <1>3, <1>4, <1>5, <1>6

LEMMA ExtTypes ==
  /\ Types
  /\ StartExtension \/ ReadPreference \/ StopExtension \/ Disturb \/ UNCHANGED vars
  => Types'
<1>. SUFFICES ASSUME Types
              PROVE  StartExtension \/ ReadPreference \/ StopExtension \/ Disturb
                       \/ UNCHANGED vars => Types'
  OBVIOUS
<1>1. ASSUME StartExtension PROVE Types'
  <2>1. Preferences(inst[App]) \in [Keys -> Held]
    BY LoadedTypes, DataTypes DEF Types
  <2>. QED  BY <1>1, <2>1 DEF StartExtension, Exts, Types, world
<1>2. ASSUME ReadPreference PROVE Types'
  <2>. DEFINE m == Head(ext.inbox)
  <2>1. ext \in Exts /\ ext.inbox # <<>>
    BY <1>2 DEF ReadPreference, Types
  <2>2. m \in Keys \X Held /\ Tail(ext.inbox) \in Seq(Keys \X Held)
    BY <2>1 DEF Exts
  <2>3. m[1] \in Keys /\ m[2] \in Held
    BY <2>2
  <2>4. ext' = [ext EXCEPT !.prefs = [ext.prefs EXCEPT ![m[1]] = m[2]],
                           !.inbox = Tail(ext.inbox)]
    BY <1>2, <2>1 DEF ReadPreference, Exts
  <2>. HIDE DEF m
  <2>5. ext' \in Exts
    BY <2>1, <2>2, <2>3, <2>4 DEF Exts
  <2>. QED  BY <1>2, <2>5 DEF ReadPreference, Types, world
<1>3. ASSUME StopExtension PROVE Types'
  <2>1. used' \in Uses
    BY <1>3, SpendTypes DEF StopExtension, Types
  <2>. QED  BY <1>3, <2>1, DataTypes DEF StopExtension, Gone, Exts, Types, world
<1>4. ASSUME Disturb PROVE Types'
  <2>1. used' \in Uses
    BY <1>4, SpendTypes DEF Disturb, Types
  <2>2. file' \in Files /\ readable' \in BOOLEAN /\ seen' \subseteq loaded
    <3>1. \A st \in {"missing", "invalid"} : [state |-> st, data |-> Nothing] \in Files
      BY DataTypes DEF Files
    <3>2. CASE UNCHANGED <<file, seen>> /\ readable' = ~readable
      BY <3>2 DEF Types
    <3>3. CASE /\ \E st \in {"missing", "invalid"} : file' = [state |-> st, data |-> Nothing]
               /\ seen' = {} /\ UNCHANGED readable
      BY <3>1, <3>3 DEF Types
    <3>. QED  BY <1>4, <3>2, <3>3 DEF Disturb
  <2>. QED  BY <1>4, <2>1, <2>2 DEF Disturb, Types
<1>5. ASSUME UNCHANGED vars PROVE Types'
  BY <1>5 DEF vars, Types
<1>. QED  BY <1>1, <1>2, <1>3, <1>4, <1>5

LEMMA StepTypes == Types /\ [Next]_vars => Types'
BY ProcessTypes, AppTypes, ExtTypes DEF Next

\* Every variable keeps its type.
THEOREM FileTypes == Spec => []TypeOK
<1>1. Types => TypeOK
  BY DEF Types, TypeOK, Files, Data, Temps, SaveSteps, Forms, Exts, Uses
<1>. QED  BY <1>1, InitTypes, StepTypes, PTL DEF Spec

-----------------------------------------------------------------------------
(* The shortcuts.                                                           *)

\* What OneShortcutPerForm rests on: a form that has not made its shortcut
\* yet is counted, and the shortcut it makes gives it an id.
Unmade == IF kind = "shortcuts" /\ form.open /\ form.id = Unset THEN 1 ELSE 0
FormsInv == Types /\ made + Unmade <= forms

LEMMA StepKeepsForms ==
  ASSUME FormsInv, [Next]_vars
  PROVE  FormsInv'
<1>1. Types'
  BY StepTypes DEF FormsInv
<1>2. form \in Forms /\ forms \in Nat /\ made \in Nat /\ Unmade \in 0..1
  BY DEF FormsInv, Types, Unmade
<1>3. ASSUME UNCHANGED <<kind, form, forms, made>> PROVE FormsInv'
  BY <1>1, <1>3 DEF FormsInv, Unmade
<1>4. ASSUME NEW p \in Procs, Exit(p) PROVE FormsInv'
  <2>1. (form' = Closed \/ form' = form) /\ UNCHANGED <<kind, forms, made>>
    BY <1>4 DEF Exit, world
  <2>. QED  BY <1>1, <1>2, <2>1 DEF FormsInv, Unmade, Closed
<1>5. ASSUME NEW p \in Procs, AfterSave(p) PROVE FormsInv'
  BY <1>3, <1>5 DEF AfterSave, world
<1>6. ASSUME NEW p \in Procs, ProcessStep(p) PROVE FormsInv'
  <2>1. CASE Quit(p) \/ Crash(p)
    BY <1>4, <2>1 DEF Quit, Crash
  <2>2. CASE Rename(p) \/ SaveFails(p)
    BY <1>5, <2>2 DEF Rename, SaveFails
  <2>3. CASE StartProcess(p) \/ Load(p) \/ Reload(p) \/ OpenTemp(p) \/ WriteTemp(p)
    BY <1>3, <2>3 DEF StartProcess, Load, Reload, OpenTemp, WriteTemp, world
  <2>4. CASE \E k \in Keys, v \in Vals \cup {Empty} : SaveKey(p, k, v)
    BY <1>3, <2>4 DEF SaveKey, Update
  <2>. QED  BY <1>6, <2>1, <2>2, <2>3, <2>4 DEF ProcessStep
<1>7. ASSUME NEW id \in Keys \cup {Unset}, OpenForm(id) PROVE FormsInv'
  <2>1. form' = FormOf(id) /\ forms' = (IF id = Unset THEN forms + 1 ELSE forms)
        /\ UNCHANGED <<kind, made>>
    BY <1>7 DEF OpenForm
  <2>2. Unmade' = (IF kind = "shortcuts" /\ id = Unset THEN 1 ELSE 0)
    BY <2>1 DEF Unmade, FormOf
  <2>. QED  BY <1>1, <1>2, <2>1, <2>2 DEF FormsInv
<1>8. ASSUME EditForm PROVE FormsInv'
  <2>1. form'.open = form.open /\ form'.id = form.id /\ UNCHANGED <<kind, forms, made>>
    BY <1>2, <1>8 DEF EditForm, Forms, world
  <2>. QED  BY <1>1, <2>1 DEF FormsInv, Unmade
<1>9. ASSUME RemoveShortcut PROVE FormsInv'
  <2>1. form'.open = FALSE /\ UNCHANGED <<forms, made>>
    BY <1>9 DEF RemoveShortcut, Closed
  <2>. QED  BY <1>1, <1>2, <2>1 DEF FormsInv, Unmade
<1>10. ASSUME ShowDetails PROVE FormsInv'
  <2>1. kind' = "prefs" /\ UNCHANGED <<forms, made>>
    BY <1>10 DEF ShowDetails, InApp, world
  <2>. QED  BY <1>1, <1>2, <2>1 DEF FormsInv, Unmade
<1>11. ASSUME NEW v \in Vals, SaveShortcut(v) PROVE FormsInv'
  <2>1. PICK id \in Keys : form' = FormOf(id)
    BY <1>11 DEF SaveShortcut, SavedForm
  <2>2. Unmade' = 0
    BY <2>1, KeysAssumption DEF Unmade, FormOf
  <2>3. made' = (IF form.open /\ form.id = Unset THEN made + 1 ELSE made)
        /\ UNCHANGED forms /\ kind = "shortcuts"
    BY <1>11 DEF SaveShortcut, InApp
  <2>. QED  BY <1>1, <1>2, <2>2, <2>3 DEF FormsInv, Unmade
<1>12. ASSUME NEW values \in FormValues, SavePreferences(values) PROVE FormsInv'
  <2>1. form'.open = form.open /\ form'.id = form.id /\ UNCHANGED <<kind, forms, made>>
    BY <1>2, <1>12 DEF SavePreferences, Update, Forms
  <2>. QED  BY <1>1, <2>1 DEF FormsInv, Unmade
<1>13. ASSUME StartExtension \/ ReadPreference \/ StopExtension \/ Disturb PROVE FormsInv'
  BY <1>3, <1>13 DEF StartExtension, ReadPreference, StopExtension, Disturb, world
<1>14. ASSUME UNCHANGED vars PROVE FormsInv'
  BY <1>3, <1>14 DEF vars
<1>. QED
  BY <1>6, <1>7, <1>8, <1>9, <1>10, <1>11, <1>12, <1>13, <1>14 DEF Next

\* A form of a new shortcut makes one shortcut, however often it is saved
\* (ShortcutsView._on_save_shortcut hands the new id to the form).
THEOREM OneFormOneShortcut == Spec => []OneShortcutPerForm
<1>1. Init => FormsInv
  BY InitTypes DEF Init, FormsInv, Unmade, Closed
<1>2. FormsInv => OneShortcutPerForm
  BY DEF FormsInv, Types, Unmade, OneShortcutPerForm
<1>. QED  BY <1>1, <1>2, StepKeepsForms, PTL DEF Spec

\* A step that is no edit puts into the app's shortcuts what is on disk, or
\* nothing: there is a file before and after it, so nothing is seeded.
LEMMA StepRemovesForGood ==
  ASSUME Types, Next, kind = "shortcuts", App \in up, file.state = "whole",
         file'.state = "whole", used'.saves = used.saves, NEW k \in Keys
  PROVE  inst'[App][k] \in {inst[App][k], file.data[k]}
<1>1. App \in Procs /\ used.saves \in Nat /\ used \in Uses /\ inst \in [Procs -> [Keys -> Held]]
  BY BoundsAssumption DEF Types, Procs, Uses
<1>2. ASSUME UNCHANGED inst PROVE inst'[App][k] = inst[App][k]
  BY <1>2
<1>3. ASSUME NEW p, NEW data, Update(p, data) PROVE FALSE
  <2>1. used'.saves = used.saves + 1
    BY <1>1, <1>3 DEF Update, Spend, Uses
  <2>. QED  BY <1>1, <2>1
<1>4. ASSUME NEW p \in Procs, AfterSave(p) PROVE UNCHANGED inst
  BY <1>4 DEF AfterSave, ShouldSeed
<1>5. ASSUME NEW p \in Procs, Load(p)
      PROVE  inst'[App][k] \in {inst[App][k], file.data[k]}
  <2>1. FileAfterRead = file /\ Parsed(file.data)[k] = file.data[k]
    BY DEF FileAfterRead, Parsed, Default
  <2>2. DataAfterRead(p)[k] \in {inst[p][k], file.data[k]}
    BY <2>1 DEF DataAfterRead
  <2>3. inst' = [inst EXCEPT ![p] = IF p \in loaded THEN inst[p] ELSE DataAfterRead(p)]
    BY <1>5 DEF Load, ShouldSeed
  <2>. QED  BY <1>1, <2>2, <2>3
<1>6. ASSUME NEW p \in Procs, ProcessStep(p)
      PROVE  inst'[App][k] \in {inst[App][k], file.data[k]}
  <2>1. CASE StartProcess(p)
    BY <1>1, <2>1 DEF StartProcess
  <2>2. CASE Load(p)
    BY <1>5, <2>2
  <2>3. CASE Reload(p)
    BY <2>3 DEF Reload
  <2>4. CASE Quit(p) \/ Crash(p) \/ OpenTemp(p) \/ WriteTemp(p)
    BY <2>4 DEF Quit, Crash, Exit, OpenTemp, WriteTemp
  <2>5. CASE Rename(p) \/ SaveFails(p)
    BY <1>4, <2>5 DEF Rename, SaveFails
  <2>6. CASE \E id \in Keys, v \in Vals \cup {Empty} : SaveKey(p, id, v)
    BY <2>6 DEF SaveKey
  <2>. QED  BY <1>6, <2>1, <2>2, <2>3, <2>4, <2>5, <2>6 DEF ProcessStep
<1>7. CASE \/ \E v \in Vals : SaveShortcut(v)
           \/ \E values \in FormValues : SavePreferences(values)
           \/ RemoveShortcut
  BY <1>3, <1>7 DEF SaveShortcut, SavePreferences, RemoveShortcut
<1>8. CASE \/ \E id \in Keys \cup {Unset} : OpenForm(id)
           \/ EditForm \/ ShowDetails \/ StartExtension \/ ReadPreference \/ StopExtension
           \/ Disturb
  BY <1>8 DEF OpenForm, EditForm, ShowDetails, StartExtension, ReadPreference,
              StopExtension, Disturb
<1>. QED  BY <1>6, <1>7, <1>8 DEF Next

\* Loading the shortcuts again, at whatever moment, brings back no shortcut
\* that was removed (Shortcuts.load).
THEOREM RemovedIsGone == Spec => RemovedStaysRemoved
<1>. DEFINE Step == kind = "shortcuts" /\ App \in up /\ file.state = "whole" /\ file'.state = "whole"
                      /\ used'.saves = used.saves =>
                        \A k \in Keys : inst'[App][k] \in {inst[App][k], file.data[k]}
<1>1. Types /\ Next => Step
  BY StepRemovesForGood
<1>2. UNCHANGED vars => Step
  BY DEF vars
<1>3. Types /\ [Next]_vars => [Step]_vars
  BY <1>1, <1>2
<1>. QED  BY <1>3, InitTypes, StepTypes, PTL DEF Spec, RemovedStaysRemoved

-----------------------------------------------------------------------------
(* What a save changes on disk.                                             *)

\* What NoForeignLoss rests on: the temp file of a process that is about to
\* rename holds its instance, and an instance that starts from the content of
\* the file differs from it only in the keys its process has set.
Complete(p) == temp[p] = [state |-> "whole", data |-> Written(p)]
Agrees(p) == \A k \in Keys \ own[p] : Parsed(Written(p))[k] = Parsed(file.data)[k]
ForeignInv ==
  /\ Types
  /\ \A p \in Procs : save[p].at = "rename" => Complete(p)
  /\ \A p \in seen : file.state = "whole" => Agrees(p)

\* What is read from a file is what would be written to it.
LEMMA ReadIsWritten ==
  ASSUME NEW data \in Data, NEW k \in Keys
  PROVE  LET read == Parsed(data)[k]
             write == IF read = Empty THEN Unset ELSE read
         IN  (IF write = Unset THEN Default ELSE write) = read
<1>1. data[k] \in Stored /\ Default \in Stored /\ Default \in Vals \cup {Unset}
  BY DataTypes DEF Data, Stored
<1>2. Empty \notin Stored
  BY ValsAssumption DEF Stored, Empty, Unset
<1>. QED  BY <1>1, <1>2 DEF Parsed

\* A step that leaves a process's instance and its temp file alone, and begins
\* no rename.
LEMMA CompleteStays ==
  ASSUME NEW p \in Procs, Complete(p), inst'[p] = inst[p], temp'[p] = temp[p]
  PROVE  Complete(p)'
BY DEF Complete, Written

LEMMA AgreesStays ==
  ASSUME NEW p \in Procs, Agrees(p), inst'[p] = inst[p], own'[p] = own[p], UNCHANGED <<kind, file>>
  PROVE  Agrees(p)'
BY DEF Agrees, Written, Parsed, Default

\* Steps that change no instance and no temp file of a process about to rename.
LEMMA SameKeepsForeign ==
  ASSUME ForeignInv, Types', UNCHANGED <<kind, inst, own>>,
         \A p \in Procs : save'[p].at = "rename" => save[p].at = "rename" /\ temp'[p] = temp[p],
         \/ UNCHANGED file /\ seen' \subseteq seen
         \/ seen' = {}
  PROVE  ForeignInv'
<1>1. \A p \in Procs : save'[p].at = "rename" => Complete(p)'
  BY CompleteStays DEF ForeignInv
<1>2. seen \subseteq Procs
  BY DEF ForeignInv, Types
<1>3. \A p \in seen' : file'.state = "whole" => Agrees(p)'
  BY <1>2, AgreesStays DEF ForeignInv
<1>. QED  BY <1>1, <1>3 DEF ForeignInv

LEMMA UpdateKeepsForeign ==
  ASSUME ForeignInv, Types', NEW p \in Procs, NEW data \in [Keys -> Held], Update(p, data)
  PROVE  ForeignInv'
<1>1. /\ save[p] = Idle /\ inst' = [inst EXCEPT ![p] = data]
      /\ own' = [own EXCEPT ![p] = @ \cup {k \in Keys : data[k] # inst[p][k]}]
      /\ save' = [save EXCEPT ![p] = [why |-> "edit", at |-> "open"]]
      /\ UNCHANGED <<file, temp, seen, kind>>
  BY DEF Update, Begin
<1>2. /\ inst \in [Procs -> [Keys -> Held]] /\ own \in [Procs -> SUBSET Keys]
      /\ save \in [Procs -> SaveSteps] /\ seen \subseteq Procs
  BY DEF ForeignInv, Types
<1>3. ASSUME NEW q \in Procs, save'[q].at = "rename" PROVE Complete(q)'
  <2>1. q # p
    BY <1>1, <1>2, <1>3
  <2>. QED  BY <1>1, <1>2, <1>3, <2>1, CompleteStays DEF ForeignInv
<1>4. ASSUME NEW q \in seen, file.state = "whole" PROVE Agrees(q)'
  <2>1. Agrees(q) /\ q \in Procs
    BY <1>2, <1>4 DEF ForeignInv
  <2>2. CASE q # p
    BY <1>1, <1>2, <2>1, <2>2, AgreesStays
  <2>3. CASE q = p
    <3>1. \A k \in Keys \ own'[p] : k \in Keys \ own[p] /\ inst'[p][k] = inst[p][k]
      BY <1>1, <1>2
    <3>. QED  BY <1>1, <2>1, <2>3, <3>1 DEF Agrees, Written, Parsed, Default
  <2>. QED  BY <2>2, <2>3
<1>. QED  BY <1>1, <1>3, <1>4 DEF ForeignInv

\* A read makes the instance what the file holds.
LEMMA ReadAgrees ==
  ASSUME Types, Types', NEW p \in Procs, Read(p), UNCHANGED kind, ~ReadFails,
         inst' = [inst EXCEPT ![p] = DataAfterRead(p)], file'.state = "whole"
  PROVE  Agrees(p)'
<1>1. file' = file /\ file.data \in Data /\ DataAfterRead(p) = Parsed(file.data)
  BY DEF Read, FileAfterRead, DataAfterRead, Types, Files
<1>2. inst'[p] = Parsed(file.data)
  BY <1>1 DEF Types
<1>3. \A k \in Keys : LET read == Parsed(file.data)[k]
                          write == IF read = Empty THEN Unset ELSE read
                      IN  (IF write = Unset THEN Default ELSE write) = read
  BY <1>1, ReadIsWritten
<1>4. Default' = Default
  BY DEF Default
<1>5. \A k \in Keys : Parsed(Written(p))'[k] = Parsed(file.data)[k]
  <2>. TAKE k \in Keys
  <2>. DEFINE read == Parsed(file.data)[k]
              write == IF read = Empty THEN Unset ELSE read
  <2>1. Written(p)'[k] = write
    BY <1>2 DEF Written
  <2>2. Parsed(Written(p))'[k] = (IF write = Unset THEN Default ELSE write)
    BY <1>4, <2>1 DEF Parsed
  <2>. QED  BY <1>3, <2>2
<1>6. \A k \in Keys : Parsed(file.data)'[k] = Parsed(file.data)[k]
  BY <1>1, <1>4 DEF Parsed
<1>. QED  BY <1>5, <1>6 DEF Agrees

\* Loading and reloading: the process saves nothing at the time.
LEMMA ReadingKeepsForeign ==
  ASSUME ForeignInv, Types', NEW p \in Procs, Read(p), UNCHANGED <<kind, temp>>,
         save[p] = Idle, \A q \in Procs \ {p} : save'[q] = save[q] /\ inst'[q] = inst[q],
         save'[p].at # "rename",
         file'.state = "whole" => inst' = [inst EXCEPT ![p] = DataAfterRead(p)]
  PROVE  ForeignInv'
<1>1. ASSUME NEW q \in Procs, save'[q].at = "rename" PROVE Complete(q)'
  BY <1>1, CompleteStays DEF ForeignInv
<1>2. ASSUME NEW q \in seen', file'.state = "whole" PROVE Agrees(q)'
  <2>1. q \in Procs /\ inst' = [inst EXCEPT ![p] = DataAfterRead(p)] /\ own \in [Procs -> SUBSET Keys]
        /\ inst \in [Procs -> [Keys -> Held]]
    BY <1>2 DEF ForeignInv, Types
  <2>2. CASE ReadFails
    <3>1. inst'[q] = inst[q] /\ own' = own /\ seen' = seen /\ file' = file
      BY <2>1, <2>2 DEF Read, FileAfterRead, DataAfterRead
    <3>. QED  BY <1>2, <2>1, <3>1, AgreesStays DEF ForeignInv
  <2>3. CASE ~ReadFails /\ q = p
    BY <1>2, <2>1, <2>3, ReadAgrees DEF ForeignInv
  <2>4. CASE ~ReadFails /\ q # p
    <3>1. own'[q] = own[q] /\ inst'[q] = inst[q] /\ file' = file /\ q \in seen
      BY <1>2, <2>1, <2>4 DEF Read
    <3>. QED  BY <1>2, <2>1, <3>1, AgreesStays DEF ForeignInv
  <2>. QED  BY <2>2, <2>3, <2>4
<1>. QED  BY <1>1, <1>2 DEF ForeignInv

LEMMA AfterSaveSteps ==
  ASSUME Types, NEW p \in Procs, AfterSave(p)
  PROVE  /\ UNCHANGED kind
         /\ \A q \in Procs \ {p} : /\ save'[q] = save[q] /\ temp'[q] = temp[q]
                                   /\ inst'[q] = inst[q]
         /\ save'[p].at # "rename"
         /\ file'.state = "whole" => UNCHANGED inst
BY DEF AfterSave, TempOf, Begin, Idle, ShouldSeed, Types, world

LEMMA ProcessKeepsForeign ==
  ASSUME ForeignInv, Types', NEW p \in Procs, ProcessStep(p)
  PROVE  ForeignInv'
<1>1. /\ inst \in [Procs -> [Keys -> Held]] /\ own \in [Procs -> SUBSET Keys]
      /\ save \in [Procs -> SaveSteps] /\ temp \in [Procs -> Temps] /\ seen \subseteq Procs
      /\ seen \subseteq loaded /\ loaded \subseteq up
      /\ \A q \in Procs : save[q] # Idle => q \in loaded
  BY DEF ForeignInv, Types
<1>2. ASSUME StartProcess(p) PROVE ForeignInv'
  <2>1. /\ p \notin up /\ inst' = [inst EXCEPT ![p] = Defaults]
        /\ own' = [own EXCEPT ![p] = {}] /\ UNCHANGED <<kind, file, temp, save, seen>>
    BY <1>2 DEF StartProcess, world
  <2>2. ASSUME NEW q \in Procs, save'[q].at = "rename" PROVE Complete(q)'
    <3>1. q # p /\ save[q].at = "rename"
      BY <1>1, <2>1, <2>2 DEF Idle
    <3>. QED  BY <1>1, <2>1, <3>1, CompleteStays DEF ForeignInv
  <2>3. ASSUME NEW q \in seen', file'.state = "whole" PROVE Agrees(q)'
    <3>1. q # p /\ q \in seen /\ q \in Procs
      BY <1>1, <2>1, <2>3
    <3>. QED  BY <1>1, <2>1, <2>3, <3>1, AgreesStays DEF ForeignInv
  <2>. QED  BY <2>2, <2>3 DEF ForeignInv
<1>3. ASSUME Load(p) PROVE ForeignInv'
  <2>1. /\ save[p] = Idle /\ UNCHANGED <<kind, temp>>
        /\ \A q \in Procs \ {p} : save'[q] = save[q] /\ inst'[q] = inst[q]
        /\ save'[p].at # "rename"
    BY <1>1, <1>3 DEF Load, Begin, Idle, world
  <2>2. CASE p \notin loaded
    <3>1. Read(p) /\ (file'.state = "whole" => inst' = [inst EXCEPT ![p] = DataAfterRead(p)])
      BY <1>3, <2>2 DEF Load, ShouldSeed
    <3>. QED  BY <2>1, <3>1, ReadingKeepsForeign
  <2>3. CASE p \in loaded
    <3>1. UNCHANGED <<file, own, seen>> /\ (file'.state = "whole" => inst'[p] = inst[p])
      BY <1>1, <1>3, <2>3 DEF Load, ShouldSeed
    <3>2. ASSUME NEW q \in Procs, save'[q].at = "rename" PROVE Complete(q)'
      BY <2>1, <3>2, CompleteStays DEF ForeignInv
    <3>3. ASSUME NEW q \in seen, file.state = "whole" PROVE Agrees(q)'
      <4>1. inst'[q] = inst[q] /\ q \in Procs
        BY <1>1, <2>1, <3>1, <3>3
      <4>. QED  BY <2>1, <3>1, <3>3, <4>1, AgreesStays DEF ForeignInv
    <3>. QED  BY <3>1, <3>2, <3>3 DEF ForeignInv
  <2>. QED  BY <2>2, <2>3
<1>4. ASSUME Reload(p) PROVE ForeignInv'
  <2>1. /\ Read(p) /\ UNCHANGED <<kind, temp, save>> /\ save[p] = Idle
        /\ inst' = [inst EXCEPT ![p] = DataAfterRead(p)]
    BY <1>4 DEF Reload, world
  <2>2. /\ \A q \in Procs \ {p} : save'[q] = save[q] /\ inst'[q] = inst[q]
        /\ save'[p].at # "rename"
    BY <1>1, <2>1 DEF Idle
  <2>. QED  BY <2>1, <2>2, ReadingKeepsForeign
<1>5. ASSUME Quit(p) \/ Crash(p) PROVE ForeignInv'
  <2>1. /\ UNCHANGED <<kind, file, temp, inst, own>> /\ seen' \subseteq seen
        /\ save' = [save EXCEPT ![p] = Idle]
    BY <1>5 DEF Quit, Crash, Exit, world
  <2>2. \A q \in Procs : save'[q].at = "rename" => save[q].at = "rename" /\ temp'[q] = temp[q]
    BY <1>1, <2>1 DEF Idle
  <2>. QED  BY <2>1, <2>2, SameKeepsForeign
<1>6. ASSUME NEW k \in Keys, NEW v \in Vals \cup {Empty}, SaveKey(p, k, v) PROVE ForeignInv'
  <2>1. [inst[p] EXCEPT ![k] = v] \in [Keys -> Held]
    BY <1>1 DEF Held
  <2>. QED  BY <1>6, <2>1, UpdateKeepsForeign DEF SaveKey
<1>7. ASSUME OpenTemp(p) PROVE ForeignInv'
  <2>1. /\ UNCHANGED <<kind, file, inst, own, seen>> /\ save' = [save EXCEPT ![p].at = "write"]
        /\ \A q \in Procs \ {p} : temp'[q] = temp[q]
    BY <1>1, <1>7 DEF OpenTemp, TempOf, world
  <2>2. save[p] \in SaveSteps
    BY <1>1
  <2>3. \A q \in Procs : save'[q].at = "rename" => save[q].at = "rename" /\ temp'[q] = temp[q]
    BY <1>1, <2>1, <2>2 DEF SaveSteps
  <2>. QED  BY <2>1, <2>3, SameKeepsForeign
<1>8. ASSUME WriteTemp(p) PROVE ForeignInv'
  <2>1. /\ UNCHANGED <<kind, file, inst, own, seen>> /\ save' = [save EXCEPT ![p].at = "rename"]
        /\ temp' = [temp EXCEPT ![p] = [state |-> "whole", data |-> Written(p)]]
    BY <1>8 DEF WriteTemp, TempOf, world
  <2>2. ASSUME NEW q \in Procs, save'[q].at = "rename" PROVE Complete(q)'
    <3>1. CASE q = p
      BY <1>1, <2>1, <3>1 DEF Complete, Written
    <3>2. CASE q # p
      <4>1. save'[q] = save[q] /\ temp'[q] = temp[q] /\ inst'[q] = inst[q]
        BY <1>1, <2>1, <3>2
      <4>. QED  BY <2>2, <4>1, CompleteStays DEF ForeignInv
    <3>. QED  BY <3>1, <3>2
  <2>3. \A q \in seen' : file'.state = "whole" => Agrees(q)'
    BY <1>1, <2>1, AgreesStays DEF ForeignInv
  <2>. QED  BY <2>2, <2>3 DEF ForeignInv
<1>9. ASSUME AfterSave(p), Rename(p) \/ SaveFails(p),
             \A q \in seen' : file'.state = "whole" => Agrees(q)'
      PROVE  ForeignInv'
  <2>1. \A q \in Procs : save'[q].at = "rename" => Complete(q)'
    BY <1>9, AfterSaveSteps, CompleteStays DEF ForeignInv
  <2>. QED  BY <1>9, <2>1 DEF ForeignInv
<1>10. ASSUME Rename(p) PROVE ForeignInv'
  <2>1. AfterSave(p) /\ seen' = {p} /\ file' = temp[p] /\ save[p].at = "rename"
    BY <1>10 DEF Rename, TempOf
  <2>2. file'.state = "whole" /\ file'.data = Written(p)
    <3>1. Complete(p)
      BY <2>1 DEF ForeignInv
    <3>. QED  BY <2>1, <3>1 DEF Complete
  <2>3. inst'[p] = inst[p] /\ kind' = kind
    BY <2>1, <2>2, AfterSaveSteps DEF ForeignInv
  <2>4. Written(p)' = file'.data
    BY <2>2, <2>3 DEF Written
  <2>5. Agrees(p)'
    BY <2>4 DEF Agrees
  <2>. QED  BY <1>9, <1>10, <2>1, <2>5
<1>11. ASSUME SaveFails(p) PROVE ForeignInv'
  <2>1. AfterSave(p) /\ UNCHANGED <<file, own, seen>>
    BY <1>11 DEF SaveFails
  <2>2. \A q \in seen' : file'.state = "whole" => Agrees(q)'
    BY <1>1, <2>1, AfterSaveSteps, AgreesStays DEF ForeignInv
  <2>. QED  BY <1>9, <1>11, <2>1, <2>2
<1>. QED  BY <1>2, <1>3, <1>4, <1>5, <1>6, <1>7, <1>8, <1>10, <1>11 DEF ProcessStep

LEMMA StepKeepsForeign ==
  ASSUME ForeignInv, [Next]_vars
  PROVE  ForeignInv'
<1>1. Types' /\ App \in Procs /\ Loaded \in [Keys -> Held] /\ Types
  BY StepTypes, LoadedTypes DEF ForeignInv
<1>2. CASE \/ \E id \in Keys \cup {Unset} : OpenForm(id)
           \/ EditForm \/ ShowDetails \/ StartExtension \/ ReadPreference \/ StopExtension
           \/ UNCHANGED vars
  <2>1. UNCHANGED <<kind, file, temp, inst, save, own, seen>>
    BY <1>2 DEF OpenForm, EditForm, ShowDetails, StartExtension, ReadPreference,
                StopExtension, vars, world
  <2>. QED  BY <1>1, <2>1, SameKeepsForeign
<1>3. ASSUME Disturb PROVE ForeignInv'
  <2>1. UNCHANGED <<kind, temp, inst, save, own>>
    BY <1>3 DEF Disturb
  <2>2. \/ UNCHANGED file /\ seen' \subseteq seen
        \/ seen' = {}
    BY <1>3 DEF Disturb
  <2>. QED  BY <1>1, <2>1, <2>2, SameKeepsForeign
<1>4. ASSUME RemoveShortcut PROVE ForeignInv'
  <2>1. form.id \in Keys
    BY <1>1, <1>4 DEF RemoveShortcut, Types, Forms
  <2>2. [Loaded EXCEPT ![form.id] = Unset] \in [Keys -> Held]
    BY <1>1 DEF Held
  <2>. QED  BY <1>1, <1>4, <2>2, UpdateKeepsForeign DEF RemoveShortcut
<1>5. ASSUME NEW v \in Vals, SaveShortcut(v) PROVE ForeignInv'
  <2>1. PICK id \in Keys : Update(App, [Loaded EXCEPT ![id] = v])
    BY <1>5 DEF SaveShortcut
  <2>2. [Loaded EXCEPT ![id] = v] \in [Keys -> Held]
    BY <1>1 DEF Held
  <2>. QED  BY <1>1, <2>1, <2>2, UpdateKeepsForeign
<1>6. ASSUME NEW values \in FormValues, SavePreferences(values) PROVE ForeignInv'
  <2>1. values \in [Keys -> Held]
    BY DEF FormValues, Held
  <2>. QED  BY <1>1, <1>6, <2>1, UpdateKeepsForeign DEF SavePreferences
<1>. QED
  BY <1>1, <1>2, <1>3, <1>4, <1>5, <1>6, ProcessKeepsForeign DEF Next

\* The save that leaves "rename" has renamed, failed or was killed; only the
\* first changes the file.
LEMMA StepLosesNothing ==
  ASSUME ForeignInv, Next, NEW p \in seen, save[p].at = "rename", save'[p].at # "rename",
         file.state = "whole", NEW k \in Keys \ own[p]
  PROVE  Parsed(file'.data)[k] = Parsed(file.data)[k]
<1>1. /\ p \in Procs /\ App \in Procs /\ save[p] # Idle /\ save \in [Procs -> SaveSteps]
      /\ Parsed(Written(p))[k] = Parsed(file.data)[k] /\ Complete(p)
  BY DEF ForeignInv, Types, Agrees, Idle, Procs
<1>2. ASSUME NEW q \in Procs, NEW data, Update(q, data) PROVE FALSE
  BY <1>1, <1>2 DEF Update, Begin
<1>3. ASSUME NEW q \in Procs, ProcessStep(q)
      PROVE  file' = file \/ file'.data = Written(p)
  <2>1. CASE q # p
    <3>1. CASE StartProcess(q) \/ Quit(q) \/ Crash(q) \/ OpenTemp(q) \/ WriteTemp(q) \/ SaveFails(q)
      BY <3>1 DEF StartProcess, Quit, Crash, Exit, OpenTemp, WriteTemp, SaveFails
    <3>2. CASE Load(q) \/ Reload(q)
      BY <1>1, <2>1, <3>2 DEF Load, Begin, Reload
    <3>3. CASE \E id \in Keys, v \in Vals \cup {Empty} : SaveKey(q, id, v)
      BY <1>2, <3>3 DEF SaveKey
    <3>4. CASE Rename(q)
      <4>1. save'[p] = save[p]
        BY <1>1, <2>1, <3>4, AfterSaveSteps DEF Rename, ForeignInv
      <4>. QED  BY <4>1
    <3>. QED  BY <1>3, <3>1, <3>2, <3>3, <3>4 DEF ProcessStep
  <2>2. CASE q = p
    <3>1. CASE StartProcess(p) \/ Quit(p) \/ Crash(p) \/ OpenTemp(p) \/ WriteTemp(p) \/ SaveFails(p)
      BY <3>1 DEF StartProcess, Quit, Crash, Exit, OpenTemp, WriteTemp, SaveFails
    <3>2. CASE Load(p) \/ Reload(p)
      BY <1>1, <3>2 DEF Load, Reload
    <3>3. CASE \E id \in Keys, v \in Vals \cup {Empty} : SaveKey(p, id, v)
      BY <1>2, <2>2, <3>3 DEF SaveKey
    <3>4. CASE Rename(p)
      BY <1>1, <3>4 DEF Rename, TempOf, Complete
    <3>. QED  BY <1>3, <2>2, <3>1, <3>2, <3>3, <3>4 DEF ProcessStep
  <2>. QED  BY <2>1, <2>2
<1>4. CASE \/ \E v \in Vals : SaveShortcut(v)
           \/ \E values \in FormValues : SavePreferences(values)
           \/ RemoveShortcut
  BY <1>1, <1>2, <1>4 DEF SaveShortcut, SavePreferences, RemoveShortcut
<1>5. CASE \/ \E id \in Keys \cup {Unset} : OpenForm(id)
           \/ EditForm \/ ShowDetails \/ StartExtension \/ ReadPreference \/ StopExtension
           \/ Disturb
  BY <1>1, <1>5 DEF OpenForm, EditForm, ShowDetails, StartExtension, ReadPreference,
                    StopExtension, Disturb
<1>6. kind' = kind
  <2>1. ASSUME NEW q \in Procs, ProcessStep(q) PROVE kind' = kind
    BY <2>1 DEF ProcessStep, StartProcess, Load, Reload, Quit, Crash, Exit, SaveKey, Update,
                OpenTemp, WriteTemp, Rename, SaveFails, AfterSave, world
  <2>. QED
    BY <1>2, <2>1, <1>4, <1>5 DEF Next, OpenForm, EditForm, ShowDetails, StartExtension,
       ReadPreference, StopExtension, Disturb, world, SaveShortcut, SavePreferences,
       RemoveShortcut, Update
<1>7. CASE \E q \in Procs : ProcessStep(q)
  BY <1>1, <1>3, <1>6, <1>7 DEF Parsed, Default
<1>. QED  BY <1>4, <1>5, <1>7 DEF Next

\* A completed save changes on disk only what its process has set since it saw
\* the file: neither a failed read nor a failed save, nor defaults or emptied
\* values, make it drop or reset a key (BaseFileConf.load and save).
THEOREM SavesKeepTheRest == Spec => NoForeignLoss
<1>. DEFINE Step == \A p \in seen : save[p].at = "rename" /\ save'[p].at # "rename" /\ file.state = "whole" =>
                      \A k \in Keys \ own[p] : Parsed(file'.data)[k] = Parsed(file.data)[k]
<1>1. Init => ForeignInv
  BY InitTypes DEF Init, ForeignInv, Idle
<1>2. ForeignInv /\ Next => Step
  BY StepLosesNothing
<1>3. UNCHANGED vars => Step
  <2>. SUFFICES ASSUME UNCHANGED vars PROVE Step
    OBVIOUS
  <2>1. save' = save
    BY DEF vars
  <2>. QED  BY <2>1
<1>4. ForeignInv /\ [Next]_vars => [Step]_vars
  BY <1>2, <1>3
<1>. QED  BY <1>1, <1>4, StepKeepsForeign, PTL DEF Spec, NoForeignLoss

-----------------------------------------------------------------------------
(* What a running extension is told.                                        *)

LEMMA LeastOfSome ==
  ASSUME NEW S \in SUBSET Nat, S # {}
  PROVE  \E i \in S : \A j \in S : i <= j
<1>. DEFINE R == OpToRel(<, Nat)
<1>1. IsWellFoundedOn(R, Nat)
  BY NatLessThanWellFounded
<1>2. \A x, y \in Nat : x < y => <<x, y>> \in R
  BY DEF OpToRel
<1>. HIDE DEF R
<1>3. PICK i \in S : \A j \in S : ~(<<j, i>> \in R)
  BY <1>1, WFMin
<1>4. \A j \in S : ~(j < i)
  BY <1>2, <1>3
<1>. QED  BY <1>4

\* What an extension has for a preference once it has read the messages.
Boxes == Seq(Keys \X Held)
News(box, k) == {i \in DOMAIN box : box[i][1] = k}
Latest(prefs, box, k) ==
  IF News(box, k) = {} THEN prefs[k] ELSE box[Max(News(box, k))][2]

LEMMA LatestIs ==
  ASSUME NEW box \in Boxes, NEW prefs, NEW k, NEW i \in News(box, k),
         \A j \in News(box, k) : j <= i
  PROVE  Latest(prefs, box, k) = box[i][2]
<1>. DEFINE S == News(box, k)
<1>1. S \subseteq Nat /\ i \in S /\ \A j \in S : j <= i
  BY DEF News, Boxes
<1>. HIDE DEF S
<1>2. Max(S) = i
  <2>1. \A x \in S : (\A y \in S : x >= y) => x = i
    BY <1>1
  <2>2. \A y \in S : i >= y
    BY <1>1
  <2>. QED  BY <1>1, <2>1, <2>2 DEF Max
<1>. QED  BY <1>1, <1>2 DEF Latest, S

LEMMA LatestExists ==
  ASSUME NEW box \in Boxes, NEW k, News(box, k) # {}
  PROVE  \E i \in News(box, k) : \A j \in News(box, k) : j <= i
<1>. DEFINE S == News(box, k)
            T == {Len(box) - i : i \in S}
<1>1. S \subseteq 1..Len(box) /\ Len(box) \in Nat
  BY DEF News, Boxes
<1>2. T \in SUBSET Nat /\ T # {}
  BY <1>1
<1>3. PICK t \in T : \A u \in T : t <= u
  BY <1>2, LeastOfSome
<1>4. PICK i \in S : t = Len(box) - i
  BY <1>3
<1>5. \A j \in S : j <= i
  <2>. TAKE j \in S
  <2>1. t <= Len(box) - j
    BY <1>3
  <2>. QED  BY <1>1, <1>4, <2>1
<1>. QED  BY <1>5

\* Reading the first message changes nothing in the end.
LEMMA ReadKeepsLatest ==
  ASSUME NEW prefs \in [Keys -> Held], NEW box \in Boxes, box # <<>>, NEW k \in Keys
  PROVE  Latest([prefs EXCEPT ![Head(box)[1]] = Head(box)[2]], Tail(box), k)
           = Latest(prefs, box, k)
<1>. DEFINE rest == Tail(box)
            prefs2 == [prefs EXCEPT ![Head(box)[1]] = Head(box)[2]]
<1>1. /\ rest \in Boxes /\ Head(box) = box[1] /\ Len(rest) = Len(box) - 1 /\ Len(box) \in Nat
      /\ 1 \in DOMAIN box /\ DOMAIN box = 1..Len(box) /\ DOMAIN rest = 1..Len(rest)
      /\ \A i \in 1..Len(rest) : rest[i] = box[i + 1]
  BY DEF Boxes
<1>. HIDE DEF rest
<1>2. CASE News(rest, k) # {}
  <2>1. PICK i \in News(rest, k) : \A j \in News(rest, k) : j <= i
    BY <1>1, <1>2, LatestExists
  <2>2. i + 1 \in News(box, k) /\ rest[i] = box[i + 1]
    BY <1>1 DEF News
  <2>3. \A j \in News(box, k) : j <= i + 1
    <3>. TAKE j \in News(box, k)
    <3>1. CASE j = 1
      BY <1>1, <3>1 DEF News
    <3>2. CASE j # 1
      <4>1. j - 1 \in News(rest, k)
        BY <1>1, <3>2 DEF News
      <4>. QED  BY <1>1, <2>1, <4>1 DEF News
    <3>. QED  BY <3>1, <3>2
  <2>4. Latest(prefs2, rest, k) = rest[i][2]
    BY <1>1, <2>1, LatestIs
  <2>5. Latest(prefs, box, k) = box[i + 1][2]
    BY <2>2, <2>3, LatestIs
  <2>. QED  BY <2>2, <2>4, <2>5 DEF rest
<1>3. CASE News(rest, k) = {}
  <2>1. Latest(prefs2, rest, k) = prefs2[k]
    BY <1>3 DEF Latest
  <2>2. \A j \in News(box, k) : j = 1
    <3>. SUFFICES ASSUME NEW j \in News(box, k), j # 1 PROVE FALSE
      OBVIOUS
    <3>1. j - 1 \in News(rest, k)
      BY <1>1 DEF News
    <3>. QED  BY <1>3, <3>1
  <2>3. CASE box[1][1] = k
    <3>1. 1 \in News(box, k)
      BY <1>1, <2>3 DEF News
    <3>2. Latest(prefs, box, k) = box[1][2]
      BY <2>2, <3>1, LatestIs
    <3>. QED  BY <1>1, <2>1, <2>3, <3>2 DEF rest
  <2>4. CASE box[1][1] # k
    <3>1. News(box, k) = {}
      BY <2>2, <2>4 DEF News
    <3>. QED  BY <1>1, <2>1, <2>4, <3>1 DEF Latest, rest
  <2>. QED  BY <2>3, <2>4
<1>. QED  BY <1>2, <1>3

\* The messages of a save bring the preferences that have changed.
LEMMA NotifyLatest ==
  ASSUME NEW old \in [Keys -> Held], NEW new \in [Keys -> Held], NEW prefs \in [Keys -> Held],
         NEW box \in Boxes, \A k \in Keys : Latest(prefs, box, k) = old[k], NEW key \in Keys
  PROVE  Latest(prefs, box \o Messages(old, new), key) = new[key]
<1>. DEFINE msgs == Messages(old, new)
<1>1. /\ msgs \in Boxes
      /\ \A i \in DOMAIN msgs : msgs[i][1] \in Changed(old, new) /\ msgs[i][2] = new[msgs[i][1]]
      /\ \A c \in Changed(old, new) : \E i \in DOMAIN msgs : msgs[i] = <<c, new[c]>>
  BY MessageFacts DEF Boxes, Tells
<1>. HIDE DEF msgs
<1>. DEFINE all == box \o msgs
            n == Len(box)
<1>2. /\ all \in Boxes /\ n \in Nat /\ Len(msgs) \in Nat /\ DOMAIN all = 1..(n + Len(msgs))
      /\ DOMAIN box = 1..n /\ DOMAIN msgs = 1..Len(msgs)
      /\ \A i \in 1..n : all[i] = box[i]
      /\ \A i \in 1..Len(msgs) : all[n + i] = msgs[i]
  BY <1>1 DEF Boxes
<1>. HIDE DEF all, n
<1>3. CASE key \in Changed(old, new)
  <2>1. News(msgs, key) # {}
    BY <1>1, <1>3 DEF News
  <2>2. PICK i \in News(msgs, key) : \A j \in News(msgs, key) : j <= i
    BY <1>1, <2>1, LatestExists
  <2>3. n + i \in News(all, key) /\ all[n + i][2] = new[key]
    BY <1>1, <1>2, <2>2 DEF News
  <2>4. \A j \in News(all, key) : j <= n + i
    <3>. SUFFICES ASSUME NEW j \in News(all, key), j > n + i PROVE FALSE
      BY <1>2, <2>2 DEF News
    <3>1. i \in 1..Len(msgs) /\ j \in 1..(n + Len(msgs))
      BY <1>2, <2>2 DEF News
    <3>2. j - n \in 1..Len(msgs) /\ n + (j - n) = j
      BY <1>2, <3>1
    <3>3. j - n \in News(msgs, key)
      BY <1>2, <3>2 DEF News
    <3>4. j - n <= i
      BY <2>2, <3>3
    <3>. QED  BY <1>2, <3>1, <3>4
  <2>5. Latest(prefs, all, key) = all[n + i][2]
    BY <1>2, <2>3, <2>4, LatestIs
  <2>. QED  BY <2>3, <2>5 DEF all, msgs
<1>4. CASE key \notin Changed(old, new)
  <2>1. new[key] = old[key]
    BY <1>4 DEF Changed
  <2>2. \A j \in News(all, key) : j \in News(box, key)
    <3>. SUFFICES ASSUME NEW j \in News(all, key), j > n PROVE FALSE
      BY <1>2 DEF News
    <3>1. j - n \in 1..Len(msgs) /\ n + (j - n) = j
      BY <1>2 DEF News
    <3>2. all[j] = msgs[j - n] /\ all[j][1] = key
      BY <1>2, <3>1 DEF News
    <3>. QED  BY <1>1, <1>2, <1>4, <3>1, <3>2
  <2>3. \A j \in News(box, key) : j \in News(all, key) /\ all[j] = box[j]
    BY <1>2 DEF News
  <2>4. CASE News(box, key) = {}
    <3>1. News(all, key) = {}
      BY <2>2, <2>4
    <3>. QED  BY <2>1, <2>4, <3>1 DEF Latest, all, msgs
  <2>5. CASE News(box, key) # {}
    <3>1. PICK i \in News(box, key) : \A j \in News(box, key) : j <= i
      BY <2>5, LatestExists
    <3>2. Latest(prefs, box, key) = box[i][2]
      BY <3>1, LatestIs
    <3>3. i \in News(all, key) /\ (\A j \in News(all, key) : j <= i) /\ all[i] = box[i]
      BY <2>2, <2>3, <3>1
    <3>4. Latest(prefs, all, key) = all[i][2]
      BY <1>2, <3>3, LatestIs
    <3>. QED  BY <2>1, <3>2, <3>3, <3>4 DEF all, msgs
  <2>. QED  BY <2>4, <2>5
<1>. QED  BY <1>3, <1>4

\* What ExtensionFollows rests on: only the app has files other than state
\* files, an extension runs while the app holds its preferences, and what it
\* has been told is what the app has, or had before the save under way.
Told(k) == IF save[App] = Idle THEN Preferences(inst[App])[k] ELSE before[k]
FollowInv ==
  /\ Types
  /\ kind # "state" => up \subseteq {App}
  /\ ext.running => /\ kind = "prefs" /\ App \in loaded
                    /\ \A k \in Keys : Latest(ext.prefs, ext.inbox, k) = Told(k)

LEMMA ReceivedIsLatest == \A k : Received(k) = Latest(ext.prefs, ext.inbox, k)
BY DEF Received, Latest, News

\* A step that tells the extension nothing and does not change what it was told.
LEMMA SameKeepsFollow ==
  ASSUME FollowInv, Types', kind' = kind, up' \subseteq up, ext' = ext,
         ext.running => App \in loaded' /\ \A k \in Keys : Told(k)' = Told(k)
  PROVE  FollowInv'
BY DEF FollowInv

\* A step that leaves no extension running.
LEMMA GoneKeepsFollow ==
  ASSUME FollowInv, Types', kind' = kind, up' \subseteq up, ext'.running = FALSE
  PROVE  FollowInv'
BY DEF FollowInv

LEMMA ExitKeepsFollow ==
  ASSUME FollowInv, Types', NEW p \in Procs, p \in up, Exit(p)
  PROVE  FollowInv'
<1>1. kind' = kind /\ up' \subseteq up
  BY DEF Exit, world
<1>2. CASE p = App
  <2>1. ext'.running = FALSE
    BY <1>2 DEF Exit, Gone
  <2>. QED  BY <1>1, <2>1, GoneKeepsFollow
<1>3. CASE p # App
  <2>1. kind = "state" /\ ~ext.running
    BY <1>3 DEF FollowInv
  <2>2. ext'.running = FALSE
    <3>1. ext.running \in BOOLEAN /\ ext' = ext
      BY <1>3 DEF Exit, FollowInv, Types, Exts
    <3>. QED  BY <2>1, <3>1
  <2>. QED  BY <1>1, <2>2, GoneKeepsFollow
<1>. QED  BY <1>2, <1>3

\* The end of a save tells what the save has changed.
LEMMA AfterSaveKeepsFollow ==
  ASSUME FollowInv, Types', NEW p \in Procs, p \in loaded, save[p] # Idle, AfterSave(p)
  PROVE  FollowInv'
<1>1. /\ kind' = kind /\ up' = up /\ loaded' = loaded /\ Types
      /\ inst \in [Procs -> [Keys -> Held]] /\ save \in [Procs -> SaveSteps] /\ p \in up
  BY DEF AfterSave, world, FollowInv, Types
<1>2. ext \in Exts /\ before \in [Keys -> Held] /\ inst[p] \in [Keys -> Held]
  BY <1>1 DEF Types
<1>. DEFINE old == before
            new == Preferences(inst[p])
<1>3. new \in [Keys -> Held]
  BY <1>2, DataTypes
<1>4. CASE kind # "prefs"
  <2>1. ~ext.running /\ ext' = ext
    BY <1>4 DEF FollowInv, AfterSave
  <2>. QED  BY <1>1, <2>1, SameKeepsFollow
<1>5. CASE kind = "prefs" /\ ~ext.running
  <2>1. ext' = ext
    BY <1>5 DEF AfterSave, Notify
  <2>. QED  BY <1>1, <1>5, <2>1, SameKeepsFollow
<1>6. CASE kind = "prefs" /\ ext.running
  <2>1. p = App /\ App \in loaded /\ \A k \in Keys : Latest(ext.prefs, ext.inbox, k) = old[k]
    BY <1>1, <1>6 DEF FollowInv, Told
  <2>2. inst' = inst /\ save'[App] = Idle
    BY <1>1, <1>6, <2>1 DEF AfterSave, ShouldSeed
  <2>3. ext' = [ext EXCEPT !.inbox = @ \o Messages(old, new)]
    BY <1>6 DEF AfterSave, Notify, Messages
  <2>4. ext'.prefs = ext.prefs /\ ext'.inbox = ext.inbox \o Messages(old, new)
    BY <1>2, <2>3 DEF Exts
  <2>5. ext.prefs \in [Keys -> Held] /\ ext.inbox \in Boxes
    BY <1>2 DEF Exts, Boxes
  <2>6. \A k \in Keys : Latest(ext.prefs, ext.inbox \o Messages(old, new), k) = new[k]
    <3>. HIDE DEF old, new
    <3>1. old \in [Keys -> Held] /\ new \in [Keys -> Held]
      BY <1>2, <1>3 DEF old
    <3>. QED  BY <2>1, <2>5, <3>1, NotifyLatest
  <2>7. \A k \in Keys : Told(k)' = new[k]
    BY <2>1, <2>2 DEF Told, Preferences
  <2>. QED  BY <1>1, <1>6, <2>1, <2>4, <2>6, <2>7 DEF FollowInv
<1>. QED  BY <1>4, <1>5, <1>6

LEMMA ProcessKeepsFollow ==
  ASSUME FollowInv, Types', NEW p \in Procs, ProcessStep(p)
  PROVE  FollowInv'
<1>1. /\ save \in [Procs -> SaveSteps] /\ inst \in [Procs -> [Keys -> Held]]
      /\ loaded \subseteq up /\ App \in Procs /\ Types
      /\ \A q \in Procs : save[q] # Idle => q \in loaded
  BY DEF FollowInv, Types, Procs
<1>2. ASSUME StartProcess(p) PROVE FollowInv'
  <2>1. ~ext.running
    BY <1>1, <1>2 DEF StartProcess, FollowInv
  <2>2. kind' = kind /\ ext' = ext /\ (kind' # "state" => up' \subseteq {App})
    BY <1>2 DEF StartProcess, FollowInv, world
  <2>. QED  BY <2>1, <2>2 DEF FollowInv
<1>3. ASSUME Load(p) \/ Reload(p) PROVE FollowInv'
  <2>1. ~ext.running
    <3>. SUFFICES ASSUME ext.running PROVE FALSE
      OBVIOUS
    <3>1. kind = "prefs" /\ App \in loaded /\ up \subseteq {App}
      BY DEF FollowInv
    <3>2. p \in up /\ (p \notin loaded \/ kind # "prefs")
      BY <1>1, <1>3 DEF Load, Reload
    <3>. QED  BY <3>1, <3>2
  <2>2. kind' = kind /\ up' = up /\ ext' = ext
    BY <1>3 DEF Load, Reload, world
  <2>. QED  BY <2>1, <2>2, SameKeepsFollow
<1>4. ASSUME Quit(p) \/ Crash(p) PROVE FollowInv'
  BY <1>4, ExitKeepsFollow DEF Quit, Crash
<1>5. ASSUME NEW k \in Keys, NEW v \in Vals \cup {Empty}, SaveKey(p, k, v) PROVE FollowInv'
  <2>1. ~ext.running /\ kind' = kind /\ up' = up /\ ext' = ext
    BY <1>5 DEF SaveKey, Update, FollowInv
  <2>. QED  BY <2>1, SameKeepsFollow
<1>6. ASSUME OpenTemp(p) \/ WriteTemp(p) PROVE FollowInv'
  <2>1. UNCHANGED <<kind, up, loaded, inst, ext, before>>
    BY <1>6 DEF OpenTemp, WriteTemp, world
  <2>2. PICK at \in {"write", "rename"} : save' = [save EXCEPT ![p].at = at]
    BY <1>6 DEF OpenTemp, WriteTemp
  <2>3. save[p].at # "none" /\ save[p] \in SaveSteps
    BY <1>1, <1>6 DEF OpenTemp, WriteTemp
  <2>4. save'[App] = Idle <=> save[App] = Idle
    BY <1>1, <2>2, <2>3 DEF Idle, SaveSteps
  <2>5. \A k \in Keys : Told(k)' = Told(k)
    BY <2>1, <2>4 DEF Told, Preferences
  <2>6. ext.running => App \in loaded'
    BY <2>1 DEF FollowInv
  <2>. QED  BY <2>1, <2>5, <2>6, SameKeepsFollow
<1>7. ASSUME Rename(p) \/ SaveFails(p) PROVE FollowInv'
  <2>1. AfterSave(p) /\ save[p] # Idle
    BY <1>1, <1>7 DEF Rename, SaveFails, Idle
  <2>. QED  BY <1>1, <2>1, AfterSaveKeepsFollow
<1>. QED  BY <1>2, <1>3, <1>4, <1>5, <1>6, <1>7 DEF ProcessStep

LEMMA StepKeepsFollow ==
  ASSUME FollowInv, [Next]_vars
  PROVE  FollowInv'
<1>1. Types' /\ App \in Procs /\ Types
      /\ save \in [Procs -> SaveSteps] /\ inst \in [Procs -> [Keys -> Held]] /\ ext \in Exts
      /\ loaded \subseteq up
  BY StepTypes, LoadedTypes DEF FollowInv, Types
<1>2. CASE \/ \E id \in Keys \cup {Unset} : OpenForm(id)
           \/ EditForm \/ ShowDetails \/ Disturb \/ UNCHANGED vars
  <2>1. UNCHANGED <<kind, up, loaded, inst, save, ext, before>>
    BY <1>2 DEF OpenForm, EditForm, ShowDetails, Disturb, vars, world
  <2>2. \A k \in Keys : Told(k)' = Told(k)
    BY <2>1 DEF Told, Preferences
  <2>3. ext.running => App \in loaded'
    BY <2>1 DEF FollowInv
  <2>. QED  BY <1>1, <2>1, <2>2, <2>3, SameKeepsFollow
<1>3. ASSUME RemoveShortcut \/ (\E v \in Vals : SaveShortcut(v)) PROVE FollowInv'
  <2>1. ~ext.running /\ kind' = kind /\ up' = up /\ ext' = ext
    BY <1>3 DEF RemoveShortcut, SaveShortcut, Update, InApp, FollowInv
  <2>. QED  BY <1>1, <2>1, SameKeepsFollow
<1>4. ASSUME NEW values \in FormValues, SavePreferences(values) PROVE FollowInv'
  <2>1. /\ save[App] = Idle /\ before' = Preferences(inst[App])
        /\ save' = [save EXCEPT ![App] = [why |-> "edit", at |-> "open"]]
        /\ UNCHANGED <<kind, up, loaded, ext>>
    BY <1>4 DEF SavePreferences, InApp, Update, Begin
  <2>2. save'[App] # Idle
    BY <1>1, <2>1 DEF Idle
  <2>3. \A k \in Keys : Told(k)' = Told(k)
    BY <2>1, <2>2 DEF Told
  <2>4. ext.running => App \in loaded'
    BY <2>1 DEF FollowInv
  <2>. QED  BY <1>1, <2>1, <2>3, <2>4, SameKeepsFollow
<1>5. ASSUME StartExtension PROVE FollowInv'
  <2>1. /\ kind = "prefs" /\ App \in loaded /\ save[App] = Idle
        /\ ext' = [running |-> TRUE, prefs |-> Preferences(inst[App]), inbox |-> <<>>]
        /\ UNCHANGED <<kind, up, loaded, inst, save>>
    BY <1>5 DEF StartExtension, InApp, world
  <2>2. \A k \in Keys : Told(k)' = Preferences(inst[App])[k]
    BY <2>1 DEF Told, Preferences
  <2>3. \A k \in Keys : Latest(ext'.prefs, ext'.inbox, k) = Preferences(inst[App])[k]
    <3>1. \A k \in Keys : News(<<>>, k) = {}
      BY DEF News
    <3>2. ext'.inbox = <<>> /\ ext'.prefs = Preferences(inst[App])
      BY <2>1
    <3>. QED  BY <3>1, <3>2 DEF Latest
  <2>. QED  BY <1>1, <2>1, <2>2, <2>3 DEF FollowInv
<1>6. ASSUME ReadPreference PROVE FollowInv'
  <2>. DEFINE box == ext.inbox
              prefs2 == [ext.prefs EXCEPT ![Head(box)[1]] = Head(box)[2]]
  <2>1. /\ box # <<>> /\ UNCHANGED <<kind, up, loaded, inst, save, before>>
        /\ ext.prefs \in [Keys -> Held] /\ box \in Boxes
    BY <1>1, <1>6 DEF ReadPreference, Exts, Boxes, world
  <2>2. ext' = [ext EXCEPT !.prefs = prefs2, !.inbox = Tail(box)]
    BY <1>1, <1>6 DEF ReadPreference, Exts
  <2>3. ext'.prefs = prefs2 /\ ext'.inbox = Tail(box) /\ ext'.running = ext.running
    <3>. HIDE DEF prefs2, box
    <3>. QED  BY <1>1, <2>2 DEF Exts
  <2>4. \A k \in Keys : Latest(ext'.prefs, ext'.inbox, k) = Latest(ext.prefs, ext.inbox, k)
    BY <2>1, <2>3, ReadKeepsLatest
  <2>5. \A k \in Keys : Told(k)' = Told(k)
    BY <2>1 DEF Told, Preferences
  <2>. QED  BY <1>1, <2>1, <2>3, <2>4, <2>5 DEF FollowInv
<1>7. ASSUME StopExtension PROVE FollowInv'
  <2>1. kind' = kind /\ up' = up /\ ext'.running = FALSE
    BY <1>7 DEF StopExtension, Gone, world
  <2>. QED  BY <1>1, <2>1, GoneKeepsFollow
<1>. QED
  BY <1>1, <1>2, <1>3, <1>4, <1>5, <1>6, <1>7, ProcessKeepsFollow DEF Next

\* A running extension is told of every change of its preferences, whether or
\* not the change reaches the disk (ExtensionRecord.save_user_preferences and
\* the preferences view that calls it).
THEOREM ExtensionIsTold == Spec => []ExtensionFollows
<1>1. Init => FollowInv
  BY InitTypes DEF Init, FollowInv, Gone
<1>2. FollowInv => ExtensionFollows
  BY ReceivedIsLatest DEF FollowInv, Told, ExtensionFollows
<1>. QED  BY <1>1, <1>2, StepKeepsFollow, PTL DEF Spec
=============================================================================
