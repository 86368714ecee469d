------------------------------ MODULE MCMapping ------------------------------
(* Model values for Mapping *)
EXTENDS Mapping

\* The map with MultiStripes of the given <<width, slots, instances>> side by side
SideBySide[layouts \in Seq(Nat \X Nat \X Nat)] ==
    IF layouts = <<>> THEN EmptyMap
    ELSE LET map == SideBySide[Front(layouts)]
             l == Last(layouts)
             min == IF Keys(map) = {} THEN 0 ELSE map.stripes[last_key(map)].max_position + 1
             m == MultiStripe(map.next_stripe_id, l[1], l[2], min, l[3],
                              min + l[1] * l[2] * l[3] - 1)
         IN  NewMap(map.next_stripe_id + l[3], (min :> m) @@ map.stripes, 0)

\* Maps of two and three MultiStripes, as in object_map_test.cc; the third one's
\* last MultiStripe starts at 2, no multiple of its width of 3, like some of
\* those of the test Range.
Stored ==
    {SideBySide[l] : l \in {<<<<2, 2, 1>>, <<1, 3, 2>>>>,
                            <<<<1, 2, 1>>, <<2, 1, 2>>, <<3, 1, 1>>>>,
                            <<<<1, 2, 1>>, <<3, 2, 1>>>>}}
==============================================================================
