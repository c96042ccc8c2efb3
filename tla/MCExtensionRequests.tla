------------------------- MODULE MCExtensionRequests -------------------------
(* Instances of ExtensionRequests for TLC.                                  *)
EXTENDS ExtensionRequests

CONSTANTS e1, e2

MCOne == {e1}
MCTwo == {e1, e2}
\* The first has every handler, the second is launched only.
MCHandles == [e \in Exts |-> IF e = e1 THEN Kinds ELSE {"launch"}]
MCStarts == [e \in Exts |-> IF e = e1 THEN 2 ELSE 0]
=============================================================================
