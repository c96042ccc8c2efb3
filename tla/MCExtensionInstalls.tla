------------------------- MODULE MCExtensionInstalls -------------------------
(* Instances of ExtensionInstalls for TLC.                                  *)
EXTENDS ExtensionInstalls

CONSTANTS w1, w2

MCWorkers == {w1, w2}
=============================================================================
