---------------------------- MODULE MCStateFiles ----------------------------
(* StateFiles with three keys, one of them a seed, and two values. *)
EXTENDS StateFiles
MCKeys == {"k1", "k2", "k3"}
MCSeeds == {"k1"}
MCVals == {"v1", "v2"}
=============================================================================
