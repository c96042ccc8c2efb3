---------------------------- MODULE ProcessSlots ----------------------------
(***************************************************************************)
(* What the extension lifecycle promises to everyone else, with no queue,  *)
(* callback or call stack left: an extension id is a slot that holds at    *)
(* most one process, and the app replaces the id's user directory only     *)
(* while the slot holds no process of the installed copy.  Other programs  *)
(* (`foreign`) may change the directories whenever they like.              *)
(***************************************************************************)
CONSTANTS Ids, Pids, Versions, None

VARIABLES
  slot,     \* per id: the set of processes, each with the kind of copy it runs from
  dir,      \* per id: the content of the user directory, or None
  foreign   \* the state of the other programs

vars == <<slot, dir, foreign>>

Kinds == {"installed", "dev"}

Init ==
  /\ slot = [i \in Ids |-> {}]
  /\ dir \in [Ids -> Versions \cup {None}]

Start(id, p, kind) ==
  /\ slot[id] = {}
  /\ slot' = [slot EXCEPT ![id] = {[pid |-> p, kind |-> kind]}]
  /\ UNCHANGED <<dir, foreign>>

Exit(id) ==
  /\ slot[id] # {}
  /\ slot' = [slot EXCEPT ![id] = {}]
  /\ UNCHANGED <<dir, foreign>>

Replace(id) ==
  /\ \A s \in slot[id] : s.kind # "installed"
  /\ \E v \in Versions \cup {None} : dir' = [dir EXCEPT ![id] = v]
  /\ UNCHANGED <<slot, foreign>>

Shutdown ==
  /\ slot' = [i \in Ids |-> {}]
  /\ UNCHANGED <<dir, foreign>>

Foreign ==
  /\ foreign' # foreign
  /\ dir' \in [Ids -> Versions \cup {None}]
  /\ UNCHANGED slot

Next ==
  \/ \E id \in Ids : \/ \E p \in Pids, kind \in Kinds : Start(id, p, kind)
                     \/ Exit(id)
                     \/ Replace(id)
  \/ Shutdown
  \/ Foreign

Spec == Init /\ [][Next]_vars
=============================================================================
