------------------------------- MODULE MCHeads -------------------------------
(* The clients of Heads as model values.                                      *)
EXTENDS Heads

CONSTANTS c1, c2
==============================================================================
