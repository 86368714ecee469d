------------------------------- MODULE MCZLog --------------------------------
(* Values for the constants of ZLog that a configuration cannot write down.   *)
EXTENDS ZLogInv, TLC

CONSTANTS c1, c2

\* One finisher thread for every client; two for the client that takes over.
OneEach == {<<c1, 1>>, <<c2, 1>>}
TwoAndOne == {<<c1, 1>>, <<c1, 2>>, <<c2, 1>>}

FirstOnly == {<<c1, 1>>}

ClientSymmetry == Permutations(Clients)
==============================================================================
