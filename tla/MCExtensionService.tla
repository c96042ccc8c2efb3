------------------------ MODULE MCExtensionService ------------------------
(* Small instances of ExtensionService for TLC. *)
EXTENDS ExtensionService, TLC

\* The process slots are interchangeable.
ProcSymmetry == Permutations(Pids)
=============================================================================
