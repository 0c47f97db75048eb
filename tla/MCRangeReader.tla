--------------------------- MODULE MCRangeReader ---------------------------
(***************************************************************************)
(* Constants of RangeReader for TLC.                                       *)
(***************************************************************************)
EXTENDS RangeReader

\* A file that stays, shrinks, grows, is empty, is removed and published again.
SomeHistories == { <<3>>, <<3, 1>>, <<1, 3>>, <<0, 2>>, <<2, Unknown, 2>> }

Kind(a, s, h, p, l) ==
  [advertises |-> a, sized |-> s, honours |-> h, partial |-> p, lenient |-> l]

\* A conforming server; one that answers a range at the end; one that sends
\* ranges in parts; one that advertises ranges and ignores them; one without.
SomeServers ==
  { Kind(TRUE, TRUE, TRUE, FALSE, FALSE), Kind(TRUE, TRUE, TRUE, FALSE, TRUE),
    Kind(TRUE, TRUE, TRUE, TRUE, TRUE), Kind(TRUE, TRUE, FALSE, FALSE, FALSE),
    Kind(FALSE, FALSE, FALSE, FALSE, FALSE), Kind(TRUE, FALSE, TRUE, FALSE, TRUE) }

SomeLengths == {Unknown, 1}
=============================================================================
