----------------------------- MODULE ResultList -----------------------------
(***************************************************************************)
(* What the launcher promises about a stream of result batches: whatever   *)
(* the throttling between batches and paints, the list a user gets to see  *)
(* is the one all batches so far add up to, one after the other.           *)
(***************************************************************************)
EXTENDS Naturals, Sequences

CONSTANT Limit  \* the number of results the launcher shows

VARIABLES
  open,  \* whether there is a window, ready to show them
  last,  \* the last batch of the stream: its number, append and results
  list   \* the results of the stream, shown or about to be

NoBatch == [n |-> 0, append |-> FALSE, results |-> <<>>]
First(seq) == SubSeq(seq, 1, IF Len(seq) < Limit THEN Len(seq) ELSE Limit)

Init == open = FALSE /\ last = NoBatch /\ list = <<>>

\* A batch extends the list or replaces it.  Nobody sees it without a window.
Receive ==
  /\ last'.n = last.n + 1
  /\ list' = IF ~open THEN <<>>
             ELSE First(IF last'.append THEN list \o last'.results ELSE last'.results)
  /\ UNCHANGED open

\* A new query, or an activation, starts with nothing.  It may bring its
\* first batch at once.
Restart ==
  /\ list' = IF last'.n = 1 /\ open THEN First(last'.results) ELSE <<>>
  /\ last' = NoBatch \/ last'.n = 1
  /\ UNCHANGED open

OpenOrClose ==
  /\ open' = ~open
  /\ list' = IF open' /\ last'.n = 1 THEN First(last'.results) ELSE <<>>

Next == Receive \/ Restart \/ OpenOrClose
Spec == Init /\ [][Next]_<<open, last, list>>
=============================================================================
