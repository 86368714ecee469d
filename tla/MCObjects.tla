------------------------------ MODULE MCObjects ------------------------------
(* Values for the constants of Objects that a configuration cannot write.     *)
EXTENDS Objects, TLC

\* Some clients keep only empty entries in the omap, some keep all of them.
MixedSizes == {1, -1}

ClientSymmetry == Permutations(Clients)
==============================================================================
