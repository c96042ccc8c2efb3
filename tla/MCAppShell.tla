----------------------------- MODULE MCAppShell -----------------------------
(* AppShell with one keyword and a query of it, a search that matches a     *)
(* trigger, also typed after a space, and a file whose parent is a          *)
(* directory.                                                               *)
EXTENDS AppShell
MCKeywords == {"k"}
MCQueries == {"k ", "t", "/", "/d"}
MCTyped == MCQueries \cup {"", " t"}
MCStripped == [q \in MCTyped |-> IF q = " t" THEN "t" ELSE q]
MCKeywordOf == [q \in MCQueries |-> IF q = "k " THEN "k" ELSE None]
MCPrefix == [k \in MCKeywords |-> "k "]
MCFileQueries == {"/", "/d"}
MCParent == [q \in MCFileQueries |-> IF q = "/d" THEN "/" ELSE None]
MCMatching == {"t"}
=============================================================================
