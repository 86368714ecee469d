------------------------------- MODULE MCCache -------------------------------
(* What a double that was never set may hold.                                 *)
EXTENDS Cache

\* Below, inside and above the range of arc_p, and no number at all.
Garbage == {-3, 0, 9, 30, NaN}
==============================================================================
