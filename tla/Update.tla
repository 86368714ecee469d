------------------------------- MODULE Update --------------------------------
(***************************************************************************)
(* Maps that grow: the key spaces and hash maps of the storage backends    *)
(* are functions on the keys that are present.                             *)
(***************************************************************************)

\* The map with k set to v, whether k was in it or not
With(map, k, v) == [j \in DOMAIN map \cup {k} |-> IF j = k THEN v ELSE map[j]]

\* The map of one key
Single(k, v) == [j \in {k} |-> v]
==============================================================================
