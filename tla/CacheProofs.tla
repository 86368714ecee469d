----------------------------- MODULE CacheProofs -----------------------------
(***************************************************************************)
(* The lists of the two eviction policies stay within the cache's size and *)
(* agree with their hash maps, for every cache size and any positions.     *)
(***************************************************************************)
EXTENDS Cache, FiniteSetTheorems, SequenceTheorems, TLAPS

-----------------------------------------------------------------------------
(* Lists and hash maps *)

\* The list holds the keys of the map, each once.
ListOk(q, m) ==
    /\ q \in Seq(Positions)
    /\ m = {q[i] : i \in 1 .. Len(q)}
    /\ \A i, j \in 1 .. Len(q) : q[i] = q[j] => i = j
    /\ IsFiniteSet(m) /\ Cardinality(m) = Len(q)

\* An empty list and an empty map
LEMMA EmptyOk == ListOk(<<>>, {})
BY FS_EmptySet DEF ListOk

\* What a list is to its map
LEMMA ListFacts ==
    ASSUME NEW q, NEW m, ListOk(q, m)
    PROVE  /\ q \in Seq(Positions) /\ Len(q) \in Nat
           /\ \A y : y \in m <=> \E i \in 1 .. Len(q) : y = q[i]
           /\ \A i, j \in 1 .. Len(q) : q[i] = q[j] => i = j
           /\ IsFiniteSet(m) /\ Cardinality(m) = Len(q)
           /\ m \subseteq Positions
           /\ q = <<>> <=> m = {}
<1>1. q \in Seq(Positions)
  BY Zenon DEF ListOk
<1>2. Len(q) \in Nat /\ \A i \in 1 .. Len(q) : q[i] \in Positions
  BY <1>1, LenProperties, ElementOfSeq
<1>3. \A y : y \in m <=> \E i \in 1 .. Len(q) : y = q[i]
  BY Zenon DEF ListOk
<1>4. m \subseteq Positions
  BY <1>2, <1>3
<1>5. q # <<>> => Len(q) \in Nat \ {0}
  BY <1>1, EmptySeq
<1>6. q # <<>> => m # {}
  <2> SUFFICES ASSUME q # <<>> PROVE q[1] \in m
    OBVIOUS
  <2>1. 1 \in 1 .. Len(q)
    BY <1>5
  <2> QED BY <1>3, <2>1
<1>7. q = <<>> => m = {}
  BY <1>3
<1> QED BY <1>1, <1>2, <1>3, <1>4, <1>6, <1>7, Zenon DEF ListOk

\* What is pushed in front of a list
LEMMA PushOk ==
    ASSUME NEW q, NEW m, ListOk(q, m), NEW x \in Positions, x \notin m
    PROVE  /\ ListOk(<<x>> \o q, m \cup {x})
           /\ Len(<<x>> \o q) = Len(q) + 1
<1> DEFINE r == <<x>> \o q
<1>1. q \in Seq(Positions) /\ Len(q) \in Nat
  BY ListFacts
<1>2. /\ r \in Seq(Positions) /\ Len(r) = Len(q) + 1
      /\ \A i \in 1 .. Len(r) : r[i] = IF i = 1 THEN x ELSE q[i - 1]
  BY <1>1
<1>3. \A y : y \in m <=> \E i \in 1 .. Len(q) : y = q[i]
  BY DEF ListOk
<1> HIDE DEF r
<1>4. \A y : y \in m \cup {x} <=> \E i \in 1 .. Len(r) : y = r[i]
  <2> TAKE y
  <2>1. ASSUME y \in m PROVE \E i \in 1 .. Len(r) : y = r[i]
    <3>1. PICK i \in 1 .. Len(q) : y = q[i]
      BY <1>3, <2>1
    <3>2. i + 1 \in 1 .. Len(r) /\ r[i + 1] = y
      BY <1>1, <1>2, <3>1
    <3> QED BY <3>2
  <2>2. ASSUME y = x PROVE \E i \in 1 .. Len(r) : y = r[i]
    BY <1>1, <1>2, <2>2
  <2>3. ASSUME NEW i \in 1 .. Len(r), y = r[i] PROVE y \in m \cup {x}
    BY <1>1, <1>2, <1>3, <2>3
  <2> QED BY <2>1, <2>2, <2>3
<1>5. \A i, j \in 1 .. Len(r) : r[i] = r[j] => i = j
  <2> SUFFICES ASSUME NEW i \in 1 .. Len(r), NEW j \in 1 .. Len(r), r[i] = r[j] PROVE i = j
    OBVIOUS
  <2>1. \A k \in 1 .. Len(q) : q[k] # x
    BY <1>3
  <2>2. \A k, l \in 1 .. Len(q) : q[k] = q[l] => k = l
    BY DEF ListOk
  <2> QED BY <1>1, <1>2, <2>1, <2>2
<1>6. IsFiniteSet(m \cup {x}) /\ Cardinality(m \cup {x}) = Cardinality(m) + 1
  BY FS_AddElement DEF ListOk
<1>7. m \cup {x} = {r[i] : i \in 1 .. Len(r)}
  BY <1>4
<1> QED BY <1>1, <1>2, <1>5, <1>6, <1>7 DEF ListOk, r

\* A list without the element at position n
LEMMA CutOk ==
    ASSUME NEW q, NEW m, ListOk(q, m), NEW n \in 1 .. Len(q), NEW r,
           r \in Seq(Positions), Len(r) = Len(q) - 1,
           \A i \in 1 .. Len(r) : r[i] = IF i < n THEN q[i] ELSE q[i + 1]
    PROVE  ListOk(r, m \ {q[n]}) /\ q[n] \in m
<1>1. q \in Seq(Positions) /\ Len(q) \in Nat
  BY ListFacts
<1>2. \A y : y \in m <=> \E i \in 1 .. Len(q) : y = q[i]
  BY ListFacts
<1>3. \A k, l \in 1 .. Len(q) : q[k] = q[l] => k = l
  BY ListFacts
<1>4. \A y : y \in m \ {q[n]} <=> \E i \in 1 .. Len(r) : y = r[i]
  <2> TAKE y
  <2>1. ASSUME y \in m, y # q[n] PROVE \E i \in 1 .. Len(r) : y = r[i]
    <3>1. PICK i \in 1 .. Len(q) : y = q[i]
      BY <1>2, <2>1
    <3>2. CASE i < n
      <4>1. i \in 1 .. Len(r) /\ r[i] = y
        BY <1>1, <3>1, <3>2
      <4> QED BY <4>1
    <3>3. CASE i > n
      <4>1. i - 1 \in 1 .. Len(r) /\ r[i - 1] = y
        BY <1>1, <3>1, <3>3
      <4> QED BY <4>1
    <3> QED BY <1>1, <2>1, <3>1, <3>2, <3>3
  <2>2. ASSUME NEW i \in 1 .. Len(r), y = r[i] PROVE y \in m \ {q[n]}
    <3>1. CASE i < n
      <4>1. i \in 1 .. Len(q) /\ y = q[i] /\ i # n
        BY <1>1, <2>2, <3>1
      <4> QED BY <1>2, <1>3, <4>1
    <3>2. CASE ~(i < n)
      <4>1. i + 1 \in 1 .. Len(q) /\ y = q[i + 1] /\ i + 1 # n
        BY <1>1, <2>2, <3>2
      <4> QED BY <1>2, <1>3, <4>1
    <3> QED BY <3>1, <3>2
  <2> QED BY <2>1, <2>2
<1>5. \A i, j \in 1 .. Len(r) : r[i] = r[j] => i = j
  <2> SUFFICES ASSUME NEW i \in 1 .. Len(r), NEW j \in 1 .. Len(r), r[i] = r[j] PROVE i = j
    OBVIOUS
  <2>1. /\ i \in 1 .. Len(q) /\ i + 1 \in 1 .. Len(q)
        /\ j \in 1 .. Len(q) /\ j + 1 \in 1 .. Len(q)
    BY <1>1
  <2>2. r[i] = IF i < n THEN q[i] ELSE q[i + 1]
    OBVIOUS
  <2>3. r[j] = IF j < n THEN q[j] ELSE q[j + 1]
    OBVIOUS
  <2> DEFINE at(k) == IF k < n THEN k ELSE k + 1
  <2>4. at(i) \in 1 .. Len(q) /\ at(j) \in 1 .. Len(q)
    BY <2>1
  <2>5. q[at(i)] = q[at(j)]
    BY <2>2, <2>3
  <2>6. at(i) = at(j)
    BY <1>3, <2>4, <2>5
  <2>7. i = j
    BY <2>6
  <2> QED BY <2>7
<1>6. q[n] \in m
  BY <1>2
<1>7. /\ IsFiniteSet(m \ {q[n]})
      /\ Cardinality(m \ {q[n]}) = Cardinality(m) - 1
  BY <1>6, FS_RemoveElement DEF ListOk
<1>8. m \ {q[n]} = {r[i] : i \in 1 .. Len(r)}
  BY <1>4
<1> QED BY <1>1, <1>5, <1>6, <1>7, <1>8 DEF ListOk

\* The list without its last element, as pop_back leaves it
LEMMA PopOk ==
    ASSUME NEW q, NEW m, ListOk(q, m), q # <<>>
    PROVE  /\ ListOk(Front(q), m \ {Last(q)})
           /\ Last(q) \in m
           /\ Len(Front(q)) = Len(q) - 1
<1>1. q \in Seq(Positions) /\ Len(q) \in Nat \ {0}
  BY ListFacts, EmptySeq
<1>2. /\ Front(q) \in Seq(Positions) /\ Len(Front(q)) = Len(q) - 1
      /\ \A i \in 1 .. Len(Front(q)) : Front(q)[i] = q[i]
  <2>1. \A i \in 1 .. Len(q) - 1 : q[i] \in Positions
    BY <1>1, ElementOfSeq
  <2>2. Front(q) = SubSeq(q, 1, Len(q) - 1)
    BY DEF Front
  <2>3. Len(q) - 1 \in Nat
    BY <1>1
  <2> DEFINE n == Len(q) - 1
             f == SubSeq(q, 1, n)
  <2>4. /\ f \in Seq(Positions)
        /\ Len(f) = IF 1 <= n THEN n - 1 + 1 ELSE 0
        /\ \A i \in 1 .. n - 1 + 1 : f[i] = q[1 + i - 1]
    BY <2>1, <2>3, SubSeqProperties
  <2> HIDE DEF f
  <2>5. Len(f) = n
    <3>1. \A k \in Nat \ {0} :
            /\ k - 1 \in Nat /\ k - 1 - 1 + 1 = k - 1 /\ ((1 <= k - 1) \/ k - 1 = 0)
      OBVIOUS
    <3>2. n \in Nat /\ n - 1 + 1 = n /\ (1 <= n \/ n = 0)
      BY <1>1, <3>1
    <3> HIDE DEF n
    <3> QED BY <2>4, <3>2
  <2> HIDE DEF n
  <2>6. \A i \in 1 .. n : f[i] = q[i]
    <3> SUFFICES ASSUME NEW i \in 1 .. n PROVE f[i] = q[i]
      OBVIOUS
    <3>1. i \in 1 .. n - 1 + 1 /\ 1 + i - 1 = i
      BY <1>1, <2>3 DEF n
    <3> QED BY <2>4, <3>1
  <2>7. Front(q) = f
    BY <2>2 DEF f, n
  <2>8. Len(f) = Len(q) - 1
    BY <2>5 DEF n
  <2> QED BY <2>4, <2>5, <2>6, <2>7, <2>8
<1>3. \A i \in 1 .. Len(Front(q)) : Front(q)[i] = IF i < Len(q) THEN q[i] ELSE q[i + 1]
  BY <1>1, <1>2
<1>4. Len(q) \in 1 .. Len(q)
  BY <1>1
<1>5. ListOk(Front(q), m \ {q[Len(q)]}) /\ q[Len(q)] \in m
  BY <1>2, <1>3, <1>4, CutOk
<1> QED BY <1>2, <1>5 DEF Last

\* RemoveFirst takes out the element and closes the gap, if it is there.
LEMMA RemoveFirstIs ==
    ASSUME NEW q \in Seq(Positions), NEW x
    PROVE  /\ (\A i \in 1 .. Len(q) : q[i] # x) => RemoveFirst(q, x) = q
           /\ \A n \in 1 .. Len(q) :
                q[n] = x /\ (\A i \in 1 .. Len(q) : q[i] = x => i = n) =>
                  /\ RemoveFirst(q, x) \in Seq(Positions)
                  /\ Len(RemoveFirst(q, x)) = Len(q) - 1
                  /\ \A i \in 1 .. Len(q) - 1 :
                       RemoveFirst(q, x)[i] = IF i < n THEN q[i] ELSE q[i + 1]
<1>1. ASSUME \A i \in 1 .. Len(q) : q[i] # x PROVE RemoveFirst(q, x) = q
  BY <1>1 DEF RemoveFirst
<1>2. ASSUME NEW n \in 1 .. Len(q), q[n] = x, \A i \in 1 .. Len(q) : q[i] = x => i = n
      PROVE  /\ RemoveFirst(q, x) \in Seq(Positions)
             /\ Len(RemoveFirst(q, x)) = Len(q) - 1
             /\ \A i \in 1 .. Len(q) - 1 :
                  RemoveFirst(q, x)[i] = IF i < n THEN q[i] ELSE q[i + 1]
  <2>1. {i \in 1 .. Len(q) : q[i] = x} = {n}
    BY <1>2
  <2>2. Min({n}) = n
    BY DEF Min
  <2>3. RemoveFirst(q, x) = RemoveAt(q, n)
    BY <1>2, <2>1, <2>2 DEF RemoveFirst, SelectInSeq
  <2>4. RemoveAt(q, n) = SubSeq(q, 1, n - 1) \o SubSeq(q, n + 1, Len(q))
    BY DEF RemoveAt
  <2> DEFINE a == SubSeq(q, 1, n - 1)
             b == SubSeq(q, n + 1, Len(q))
  <2>5. /\ a \in Seq(Positions) /\ Len(a) = n - 1
        /\ \A i \in 1 .. n - 1 : a[i] = q[i]
    OBVIOUS
  <2>6. /\ b \in Seq(Positions) /\ Len(b) = Len(q) - n
        /\ \A i \in 1 .. Len(q) - n : b[i] = q[i + n]
    OBVIOUS
  <2> HIDE DEF a, b
  <2>7. /\ a \o b \in Seq(Positions) /\ Len(a \o b) = Len(q) - 1
        /\ \A i \in 1 .. Len(q) - 1 :
             (a \o b)[i] = IF i < n THEN a[i] ELSE b[i - n + 1]
    <3>1. /\ a \o b \in Seq(Positions) /\ Len(a \o b) = Len(a) + Len(b)
          /\ \A i \in 1 .. Len(a) + Len(b) :
               (a \o b)[i] = IF i <= Len(a) THEN a[i] ELSE b[i - Len(a)]
      BY <2>5, <2>6, ConcatProperties
    <3>2. Len(q) \in Nat /\ n \in Nat /\ Len(a) + Len(b) = Len(q) - 1
      BY <2>5, <2>6
    <3>3. ASSUME NEW i \in 1 .. Len(q) - 1
          PROVE  (a \o b)[i] = IF i < n THEN a[i] ELSE b[i - n + 1]
      <4>1. (a \o b)[i] = IF i <= n - 1 THEN a[i] ELSE b[i - (n - 1)]
        BY <2>5, <3>1, <3>2
      <4>2. (i <= n - 1 <=> i < n) /\ i - (n - 1) = i - n + 1
        BY <3>2
      <4> QED BY <4>1, <4>2
    <3> QED BY <3>1, <3>2, <3>3
  <2>8. \A i \in 1 .. Len(q) - 1 : (a \o b)[i] = IF i < n THEN q[i] ELSE q[i + 1]
    BY <2>5, <2>6, <2>7
  <2> QED BY <2>3, <2>4, <2>7, <2>8 DEF a, b
<1> QED BY <1>1, <1>2

\* The list without x, as splice leaves it
LEMMA UnlinkOk ==
    ASSUME NEW q, NEW m, ListOk(q, m), NEW x \in m
    PROVE  /\ ListOk(RemoveFirst(q, x), m \ {x})
           /\ Len(RemoveFirst(q, x)) = Len(q) - 1
<1>1. q \in Seq(Positions)
  BY DEF ListOk
<1>2. PICK n \in 1 .. Len(q) : q[n] = x
  BY DEF ListOk
<1>3. \A i \in 1 .. Len(q) : q[i] = x => i = n
  BY <1>2 DEF ListOk
<1>4. /\ RemoveFirst(q, x) \in Seq(Positions)
      /\ Len(RemoveFirst(q, x)) = Len(q) - 1
      /\ \A i \in 1 .. Len(q) - 1 :
           RemoveFirst(q, x)[i] = IF i < n THEN q[i] ELSE q[i + 1]
  BY <1>1, <1>2, <1>3, RemoveFirstIs
<1> QED BY <1>2, <1>4, CutOk

-----------------------------------------------------------------------------
(* The state a policy's functions pass on *)

PolicyState ==
    [lists : [Names -> Seq(Positions)], maps : [Names -> SUBSET Positions],
     cached : SUBSET Positions, p : Int \cup {NaN}, popped : BOOLEAN]

\* Lists and maps agree and no position is in two lists.
Wf(s) ==
    /\ s \in PolicyState
    /\ \A l \in Names : ListOk(s.lists[l], s.maps[l])
    /\ \A l, m \in Names : l # m => s.maps[l] \cap s.maps[m] = {}

\* The state with these fields
Made(q, m, c, p, b) == [lists |-> q, maps |-> m, cached |-> c, p |-> p, popped |-> b]

\* The fields of a policy's state
LEMMA StateFields ==
    ASSUME NEW s \in PolicyState
    PROVE  /\ DOMAIN s = {"lists", "maps", "cached", "p", "popped"}
           /\ s.lists \in [Names -> Seq(Positions)]
           /\ s.maps \in [Names -> SUBSET Positions]
           /\ s.cached \in SUBSET Positions
           /\ s.p \in Int \cup {NaN}
           /\ s.popped \in BOOLEAN
<1>1. DOMAIN s = {"lists", "maps", "cached", "p", "popped"}
  BY DEF PolicyState
<1> QED BY <1>1 DEF PolicyState

\* and of the states a policy's functions make of it
LEMMA ExceptLists ==
    ASSUME NEW s \in PolicyState, NEW l \in Names, NEW q, NEW m
    PROVE  [s EXCEPT !.lists[l] = q, !.maps[l] = m] =
             Made([s.lists EXCEPT ![l] = q], [s.maps EXCEPT ![l] = m],
                  s.cached, s.p, s.popped)
<1>1. DOMAIN s = {"lists", "maps", "cached", "p", "popped"}
  BY StateFields
<1> DEFINE A == [s.lists EXCEPT ![l] = q]
           B == [s.maps EXCEPT ![l] = m]
<1>2. [s EXCEPT !.lists[l] = q, !.maps[l] = m] = [s EXCEPT !.lists = A, !.maps = B]
  OBVIOUS
<1> HIDE DEF A, B
<1>3. [s EXCEPT !.lists = A, !.maps = B] = Made(A, B, s.cached, s.p, s.popped)
  <2> DEFINE t == [s EXCEPT !.lists = A, !.maps = B]
  <2>1. DOMAIN t = {"lists", "maps", "cached", "p", "popped"}
    BY <1>1
  <2>2. /\ t["lists"] = A /\ t["maps"] = B
        /\ t["cached"] = s.cached /\ t["p"] = s.p /\ t["popped"] = s.popped
    BY <1>1
  <2>3. t = [f \in {"lists", "maps", "cached", "p", "popped"} |-> t[f]]
    BY <1>1
  <2> HIDE DEF t
  <2>4. t = Made(A, B, s.cached, s.p, s.popped)
    BY <2>2, <2>3 DEF Made
  <2> QED BY <2>4 DEF t
<1> QED BY <1>2, <1>3 DEF A, B

\* (Uncache)
LEMMA ExceptCached ==
    ASSUME NEW s \in PolicyState, NEW c
    PROVE  [s EXCEPT !.cached = c] = Made(s.lists, s.maps, c, s.p, s.popped)
BY StateFields DEF Made

\* (arc_p)
LEMMA ExceptP ==
    ASSUME NEW s \in PolicyState, NEW p
    PROVE  [s EXCEPT !.p = p] = Made(s.lists, s.maps, s.cached, p, s.popped)
BY StateFields DEF Made

\* (an empty list is popped)
LEMMA ExceptPopped ==
    ASSUME NEW s \in PolicyState, NEW b
    PROVE  [s EXCEPT !.popped = b] = Made(s.lists, s.maps, s.cached, s.p, b)
BY StateFields DEF Made

\* One list of a state replaced
Replaced(s, l, q, m) ==
    Made([s.lists EXCEPT ![l] = q], [s.maps EXCEPT ![l] = m], s.cached, s.p, s.popped)

\* t is s with list l holding q, and the keys m.
Relisted(s, t, l, q, m) ==
    /\ Wf(t)
    /\ t.lists = [s.lists EXCEPT ![l] = q]
    /\ t.maps = [s.maps EXCEPT ![l] = m]
    /\ t.cached = s.cached /\ t.p = s.p /\ t.popped = s.popped

\* A list may be replaced by one with positions of no other list.
LEMMA ReplacedWf ==
    ASSUME NEW s, Wf(s), NEW l \in Names, NEW q, NEW m, ListOk(q, m),
           \A k \in Names \ {l} : m \cap s.maps[k] = {}
    PROVE  Relisted(s, Replaced(s, l, q, m), l, q, m)
<1> DEFINE t == Replaced(s, l, q, m)
<1>1. s \in PolicyState
  BY DEF Wf
<1>2. /\ s.lists \in [Names -> Seq(Positions)] /\ s.maps \in [Names -> SUBSET Positions]
      /\ s.cached \in SUBSET Positions /\ s.p \in Int \cup {NaN} /\ s.popped \in BOOLEAN
  BY <1>1, StateFields
<1>3. q \in Seq(Positions) /\ m \in SUBSET Positions
  BY ListFacts
<1>4. /\ t.lists = [s.lists EXCEPT ![l] = q] /\ t.maps = [s.maps EXCEPT ![l] = m]
      /\ t.cached = s.cached /\ t.p = s.p /\ t.popped = s.popped
  BY DEF Replaced, Made
<1>5. /\ t.lists \in [Names -> Seq(Positions)] /\ t.maps \in [Names -> SUBSET Positions]
  BY <1>2, <1>3, <1>4
<1>6. t \in PolicyState
  BY <1>2, <1>4, <1>5 DEF PolicyState, Replaced, Made
<1> HIDE DEF t
<1>7. ASSUME NEW k \in Names PROVE ListOk(t.lists[k], t.maps[k])
  <2>1. CASE k = l
    <3>1. t.lists[k] = q /\ t.maps[k] = m
      BY <1>2, <1>4, <2>1
    <3> QED BY <3>1
  <2>2. CASE k # l
    <3>1. t.lists[k] = s.lists[k] /\ t.maps[k] = s.maps[k]
      BY <1>2, <1>4, <2>2
    <3> QED BY <3>1 DEF Wf
  <2> QED BY <2>1, <2>2
<1>8. ASSUME NEW j \in Names, NEW k \in Names, j # k PROVE t.maps[j] \cap t.maps[k] = {}
  <2>1. /\ t.maps[j] = IF j = l THEN m ELSE s.maps[j]
        /\ t.maps[k] = IF k = l THEN m ELSE s.maps[k]
    BY <1>2, <1>4
  <2>2. s.maps[j] \cap s.maps[k] = {}
    BY <1>8 DEF Wf
  <2>3. /\ k # l => m \cap s.maps[k] = {}
        /\ j # l => m \cap s.maps[j] = {}
    OBVIOUS
  <2> QED BY <1>8, <2>1, <2>2, <2>3
<1>9. Wf(t)
  BY <1>6, <1>7, <1>8 DEF Wf
<1> QED BY <1>4, <1>9 DEF Relisted, t

\* The position is in none of the lists.
Unlisted(s, x) == \A l \in Names : x \notin s.maps[l]

\* Sizes after a change to one list
LEMMA RelistedSizes ==
    ASSUME NEW s, Wf(s), NEW t, NEW l \in Names, NEW q, NEW m, ListOk(q, m),
           Relisted(s, t, l, q, m)
    PROVE  /\ \A k \in Names : Size(s, k) \in Nat /\ Size(t, k) \in Nat
           /\ Size(t, l) = Len(q) /\ Size(s, l) = Len(s.lists[l])
           /\ \A k \in Names \ {l} : Size(t, k) = Size(s, k)
<1>1. s.lists \in [Names -> Seq(Positions)] /\ s.maps \in [Names -> SUBSET Positions]
  BY StateFields DEF Wf
<1>2. \A k \in Names : Size(s, k) \in Nat /\ Size(s, k) = Len(s.lists[k])
  BY ListFacts DEF Wf, Size
<1>3. \A k \in Names : Size(t, k) \in Nat /\ Size(t, k) = Len(t.lists[k])
  BY ListFacts DEF Wf, Size, Relisted
<1>4. t.lists[l] = q
  BY <1>1 DEF Relisted
<1>5. \A k \in Names \ {l} : t.maps[k] = s.maps[k]
  BY <1>1 DEF Relisted
<1> QED BY <1>2, <1>3, <1>4, <1>5 DEF Size

\* PushFront
LEMMA PushFrontIs ==
    ASSUME NEW s, Wf(s), NEW l \in Names, NEW x \in Positions, Unlisted(s, x)
    PROVE  LET t == PushFront(s, l, x) IN
           /\ Relisted(s, t, l, <<x>> \o s.lists[l], s.maps[l] \cup {x})
           /\ \A k \in Names : Size(s, k) \in Nat /\ Size(t, k) \in Nat
           /\ Size(t, l) = Size(s, l) + 1
           /\ \A k \in Names \ {l} : Size(t, k) = Size(s, k)
<1> DEFINE q == <<x>> \o s.lists[l]
           m == s.maps[l] \cup {x}
           t == PushFront(s, l, x)
<1>1. s \in PolicyState /\ ListOk(s.lists[l], s.maps[l])
  BY DEF Wf
<1>2. ListOk(q, m) /\ Len(q) = Len(s.lists[l]) + 1
  BY <1>1, PushOk DEF Unlisted
<1>3. \A k \in Names \ {l} : m \cap s.maps[k] = {}
  BY DEF Wf, Unlisted
<1> HIDE DEF q, m
<1>4. t = Replaced(s, l, q, m)
  <2>1. t = [s EXCEPT !.lists[l] = q, !.maps[l] = m]
    BY DEF PushFront, q, m
  <2> QED BY <1>1, <2>1, ExceptLists, Zenon DEF Replaced
<1>5. Relisted(s, t, l, q, m)
  BY <1>2, <1>3, <1>4, ReplacedWf
<1> HIDE DEF t
<1>6. /\ \A k \in Names : Size(s, k) \in Nat /\ Size(t, k) \in Nat
      /\ Size(t, l) = Len(q) /\ Size(s, l) = Len(s.lists[l])
      /\ \A k \in Names \ {l} : Size(t, k) = Size(s, k)
  <2>1. ListOk(q, m) /\ Wf(s) /\ l \in Names
    BY <1>2
  <2> QED BY ONLY <2>1, <1>5, RelistedSizes
<1> QED BY <1>2, <1>5, <1>6 DEF t, q, m

\* PopBack of a list that is not empty
LEMMA PopBackIs ==
    ASSUME NEW s, Wf(s), NEW l \in Names, s.lists[l] # <<>>
    PROVE  LET t == PopBack(s, l)
               r == Last(s.lists[l])
           IN
           /\ r \in s.maps[l] /\ r \in Positions
           /\ Relisted(s, t, l, Front(s.lists[l]), s.maps[l] \ {r})
           /\ \A k \in Names : Size(s, k) \in Nat /\ Size(t, k) \in Nat
           /\ Size(t, l) = Size(s, l) - 1
           /\ \A k \in Names \ {l} : Size(t, k) = Size(s, k)
<1> DEFINE q == Front(s.lists[l])
           r == Last(s.lists[l])
           m == s.maps[l] \ {r}
           t == PopBack(s, l)
<1>1. s \in PolicyState /\ ListOk(s.lists[l], s.maps[l])
  BY DEF Wf
<1>2. ListOk(q, m) /\ Len(q) = Len(s.lists[l]) - 1 /\ r \in s.maps[l]
  BY <1>1, PopOk
<1>3. \A k \in Names \ {l} : m \cap s.maps[k] = {}
  BY DEF Wf
<1>4. r \in Positions
  BY <1>1, <1>2, ListFacts
<1> HIDE DEF q, m, r
<1>5. t = Replaced(s, l, q, m)
  <2>1. t = [s EXCEPT !.lists[l] = q, !.maps[l] = m]
    BY DEF PopBack, q, m, r
  <2> QED BY <1>1, <2>1, ExceptLists, Zenon DEF Replaced
<1>6. Relisted(s, t, l, q, m)
  BY <1>2, <1>3, <1>5, ReplacedWf
<1> HIDE DEF t
<1> QED BY <1>2, <1>4, <1>6, RelistedSizes DEF t, q, m, r

\* Uncache and what else changes no list
LEMMA UncacheIs ==
    ASSUME NEW s, Wf(s), NEW r
    PROVE  LET t == Uncache(s, r) IN
           /\ Wf(t)
           /\ t.lists = s.lists /\ t.maps = s.maps /\ t.cached = s.cached \ {r}
           /\ t.p = s.p /\ t.popped = s.popped
           /\ \A k \in Names : Size(t, k) = Size(s, k)
<1> DEFINE t == Uncache(s, r)
<1>1. s \in PolicyState
  BY DEF Wf
<1>2. t = Made(s.lists, s.maps, s.cached \ {r}, s.p, s.popped)
  BY <1>1, ExceptCached DEF Uncache
<1>3. /\ t.lists = s.lists /\ t.maps = s.maps /\ t.cached = s.cached \ {r}
      /\ t.p = s.p /\ t.popped = s.popped
  BY <1>2 DEF Made
<1>4. t \in PolicyState
  BY <1>1, <1>2, StateFields DEF PolicyState, Made
<1> QED BY <1>3, <1>4 DEF Wf, Size

\* The same for a new value of arc_p
LEMMA SetPIs ==
    ASSUME NEW s, Wf(s), NEW p \in Int \cup {NaN}
    PROVE  LET t == [s EXCEPT !.p = p] IN
           /\ Wf(t)
           /\ t.lists = s.lists /\ t.maps = s.maps /\ t.cached = s.cached
           /\ t.p = p /\ t.popped = s.popped
           /\ \A k \in Names : Size(t, k) = Size(s, k)
<1> DEFINE t == [s EXCEPT !.p = p]
<1>1. s \in PolicyState
  BY DEF Wf
<1>2. t = Made(s.lists, s.maps, s.cached, p, s.popped)
  BY <1>1, ExceptP
<1>3. /\ t.lists = s.lists /\ t.maps = s.maps /\ t.cached = s.cached
      /\ t.p = p /\ t.popped = s.popped
  BY <1>2 DEF Made
<1>4. t \in PolicyState
  BY <1>1, <1>2, StateFields DEF PolicyState, Made
<1> HIDE DEF t
<1>5. Wf(t) /\ \A k \in Names : Size(t, k) = Size(s, k)
  BY <1>3, <1>4 DEF Wf, Size
<1> QED BY <1>3, <1>5 DEF t

\* t is s with x at the front of list m, and no longer in l.
Spliced(s, t, l, m, x) ==
    /\ Wf(t)
    /\ t.maps = [[s.maps EXCEPT ![l] = @ \ {x}] EXCEPT ![m] = @ \cup {x}]
    /\ t.lists = [[s.lists EXCEPT ![l] = RemoveFirst(@, x)] EXCEPT ![m] = <<x>> \o @]
    /\ t.cached = s.cached /\ t.p = s.p /\ t.popped = s.popped
    /\ \A k \in Names : Size(s, k) \in Nat /\ Size(t, k) \in Nat
    /\ l # m => Size(t, l) = Size(s, l) - 1 /\ Size(t, m) = Size(s, m) + 1
    /\ l = m => Size(t, l) = Size(s, l)
    /\ \A k \in Names \ {l, m} : Size(t, k) = Size(s, k)

\* Splice moves a position to the front of a list, the same or another.
LEMMA SpliceIs ==
    ASSUME NEW s, Wf(s), NEW l \in Names, NEW m \in Names, NEW x \in s.maps[l]
    PROVE  Spliced(s, Splice(s, l, m, x), l, m, x)
<1> DEFINE q == RemoveFirst(s.lists[l], x)
           n == s.maps[l] \ {x}
           u == [s EXCEPT !.lists[l] = q, !.maps[l] = n]
           t == PushFront(u, m, x)
<1>1. s \in PolicyState /\ ListOk(s.lists[l], s.maps[l])
  BY DEF Wf
<1>2. s.lists \in [Names -> Seq(Positions)] /\ s.maps \in [Names -> SUBSET Positions]
  BY <1>1, StateFields
<1>3. ListOk(q, n) /\ Len(q) = Len(s.lists[l]) - 1
  BY <1>1, UnlinkOk
<1>4. \A k \in Names \ {l} : n \cap s.maps[k] = {} /\ x \notin s.maps[k]
  BY DEF Wf
<1>5. x \in Positions /\ x \notin n
  BY <1>2
<1>6. Splice(s, l, m, x) = t
  BY DEF Splice
<1> HIDE DEF q, n
<1>7. u = Replaced(s, l, q, n)
  BY <1>1, ExceptLists, Zenon DEF Replaced
<1>8. Relisted(s, u, l, q, n)
  BY <1>3, <1>4, <1>7, ReplacedWf
<1> HIDE DEF u
<1>9. /\ \A k \in Names : Size(s, k) \in Nat /\ Size(u, k) \in Nat
      /\ Size(u, l) = Len(q) /\ Size(s, l) = Len(s.lists[l])
      /\ \A k \in Names \ {l} : Size(u, k) = Size(s, k)
  BY <1>3, <1>8, RelistedSizes
<1>10. Unlisted(u, x)
  <2> SUFFICES ASSUME NEW k \in Names PROVE x \notin u.maps[k]
    BY DEF Unlisted
  <2>1. u.maps[k] = IF k = l THEN n ELSE s.maps[k]
    BY <1>2, <1>8 DEF Relisted
  <2> QED BY <1>4, <1>5, <2>1
<1>11. Wf(u)
  BY <1>8 DEF Relisted
<1>12. /\ Relisted(u, t, m, <<x>> \o u.lists[m], u.maps[m] \cup {x})
       /\ \A k \in Names : Size(u, k) \in Nat /\ Size(t, k) \in Nat
       /\ Size(t, m) = Size(u, m) + 1
       /\ \A k \in Names \ {m} : Size(t, k) = Size(u, k)
  BY <1>5, <1>10, <1>11, PushFrontIs
<1> HIDE DEF t
<1>13. /\ t.maps = [[s.maps EXCEPT ![l] = n] EXCEPT ![m] = @ \cup {x}]
       /\ t.lists = [[s.lists EXCEPT ![l] = q] EXCEPT ![m] = <<x>> \o @]
       /\ t.cached = s.cached /\ t.p = s.p /\ t.popped = s.popped
       /\ Wf(t)
  <2>1. /\ t.maps = [u.maps EXCEPT ![m] = u.maps[m] \cup {x}]
        /\ t.lists = [u.lists EXCEPT ![m] = <<x>> \o u.lists[m]]
        /\ t.cached = u.cached /\ t.p = u.p /\ t.popped = u.popped /\ Wf(t)
    BY <1>12 DEF Relisted
  <2>2. /\ u.maps = [s.maps EXCEPT ![l] = n] /\ u.lists = [s.lists EXCEPT ![l] = q]
        /\ u.cached = s.cached /\ u.p = s.p /\ u.popped = s.popped
    BY <1>8 DEF Relisted
  <2> QED BY <2>1, <2>2
<1>14. /\ \A k \in Names : Size(t, k) \in Nat
       /\ l # m => Size(t, l) = Size(s, l) - 1 /\ Size(t, m) = Size(s, m) + 1
       /\ l = m => Size(t, l) = Size(s, l)
       /\ \A k \in Names \ {l, m} : Size(t, k) = Size(s, k)
  <2>1. Size(u, l) = Size(s, l) - 1 /\ Size(s, l) \in Nat
    BY <1>3, <1>9
  <2>2. l # m => Size(t, l) = Size(s, l) - 1 /\ Size(t, m) = Size(s, m) + 1
    BY <1>9, <1>12, <2>1
  <2>3. l = m => Size(t, l) = Size(s, l)
    BY <1>9, <1>12, <2>1
  <2> QED BY <1>9, <1>12, <2>2, <2>3
<1> QED BY <1>6, <1>9, <1>13, <1>14 DEF q, n, Spliced

-----------------------------------------------------------------------------
(* ARC *)

\* A list of entries and the list of its ghosts
Pairs == {<<"t1", "b1">>, <<"t2", "b2">>}

\* t is s with position r of the first list now a ghost.
Demoted(s, t, a, r) ==
    /\ r \in s.maps[a[1]] /\ r \in Positions
    /\ t.maps = [[s.maps EXCEPT ![a[1]] = @ \ {r}] EXCEPT ![a[2]] = @ \cup {r}]
    /\ t.cached = s.cached \ {r}
    /\ t.popped = s.popped
    /\ Size(t, a[1]) = Size(s, a[1]) - 1 /\ Size(t, a[2]) = Size(s, a[2]) + 1
    /\ \A k \in Names \ {a[1], a[2]} : Size(t, k) = Size(s, k)

\* The sizes of a state are numbers, and zero for the empty list.
LEMMA SizesNat ==
    ASSUME NEW s, Wf(s), NEW l \in Names
    PROVE  /\ Size(s, l) \in Nat /\ Size(s, l) = Len(s.lists[l])
           /\ Size(s, l) = 0 <=> s.lists[l] = <<>>
           /\ Size(s, l) = 0 <=> s.maps[l] = {}
<1>1. ListOk(s.lists[l], s.maps[l])
  BY DEF Wf
<1>2. /\ s.lists[l] \in Seq(Positions) /\ Len(s.lists[l]) \in Nat
      /\ Cardinality(s.maps[l]) = Len(s.lists[l])
      /\ s.lists[l] = <<>> <=> s.maps[l] = {}
  BY <1>1, ListFacts
<1>3. s.lists[l] # <<>> => Len(s.lists[l]) \in Nat \ {0}
  BY <1>2, EmptySeq
<1>4. s.lists[l] = <<>> => Len(s.lists[l]) = 0
  OBVIOUS
<1> QED BY <1>2, <1>3, <1>4 DEF Size

\* Demote of a list that is not empty
LEMMA DemoteIs ==
    ASSUME NEW s, Wf(s), NEW a \in Pairs, s.lists[a[1]] # <<>>
    PROVE  LET t == Demote(s, a[1], a[2]) IN
           Wf(t) /\ t.p = s.p /\ \E r : Demoted(s, t, a, r)
<1> DEFINE l == a[1]
           g == a[2]
           r == Last(s.lists[l])
           u == PopBack(s, l)
           v == Uncache(u, r)
           t == PushFront(v, g, r)
<1>1. l \in Names /\ g \in Names /\ l # g
  BY DEF Pairs, Names
<1>2. s.lists \in [Names -> Seq(Positions)] /\ s.maps \in [Names -> SUBSET Positions]
  BY StateFields DEF Wf
<1>3. Demote(s, l, g) = t
  BY DEF Demote
<1> HIDE DEF l, g
<1>4. /\ r \in s.maps[l] /\ r \in Positions
      /\ Relisted(s, u, l, Front(s.lists[l]), s.maps[l] \ {r})
      /\ \A k \in Names : Size(s, k) \in Nat /\ Size(u, k) \in Nat
      /\ Size(u, l) = Size(s, l) - 1
      /\ \A k \in Names \ {l} : Size(u, k) = Size(s, k)
  BY <1>1, PopBackIs DEF l
<1> HIDE DEF u, r
<1>5. /\ Wf(u) /\ u.maps = [s.maps EXCEPT ![l] = @ \ {r}]
      /\ u.cached = s.cached /\ u.p = s.p /\ u.popped = s.popped
  BY <1>4 DEF Relisted
<1>6. /\ Wf(v) /\ v.maps = u.maps /\ v.cached = u.cached \ {r}
      /\ v.p = u.p /\ v.popped = u.popped
      /\ \A k \in Names : Size(v, k) = Size(u, k)
  BY <1>5, UncacheIs
<1> HIDE DEF v
<1>7. Unlisted(v, r)
  <2> SUFFICES ASSUME NEW k \in Names PROVE r \notin v.maps[k]
    BY DEF Unlisted
  <2>1. v.maps[k] = IF k = l THEN s.maps[k] \ {r} ELSE s.maps[k]
    BY <1>2, <1>5, <1>6
  <2>2. k # l => r \notin s.maps[k]
    BY <1>1, <1>4 DEF Wf
  <2> QED BY <2>1, <2>2
<1>8. /\ Relisted(v, t, g, <<r>> \o v.lists[g], v.maps[g] \cup {r})
      /\ \A k \in Names : Size(v, k) \in Nat /\ Size(t, k) \in Nat
      /\ Size(t, g) = Size(v, g) + 1
      /\ \A k \in Names \ {g} : Size(t, k) = Size(v, k)
  BY <1>1, <1>4, <1>6, <1>7, PushFrontIs
<1> HIDE DEF t
<1>9. /\ Wf(t) /\ t.maps = [v.maps EXCEPT ![g] = @ \cup {r}]
      /\ t.cached = v.cached /\ t.p = v.p /\ t.popped = v.popped
  BY <1>8 DEF Relisted
<1>10. t.maps = [[s.maps EXCEPT ![l] = @ \ {r}] EXCEPT ![g] = @ \cup {r}]
  BY <1>5, <1>6, <1>9
<1>11. /\ Size(t, l) = Size(s, l) - 1 /\ Size(t, g) = Size(s, g) + 1
       /\ \A k \in Names \ {l, g} : Size(t, k) = Size(s, k)
  BY <1>1, <1>4, <1>6, <1>8
<1>12. Demoted(s, t, a, r)
  BY <1>4, <1>5, <1>6, <1>9, <1>10, <1>11 DEF Demoted, l, g
<1> QED BY <1>3, <1>5, <1>6, <1>9, <1>12 DEF l, g

\* Nothing happens to the lists when an empty one is popped.
LEMMA PopEmptyIs ==
    ASSUME NEW s, Wf(s), NEW l \in Names, s.lists[l] = <<>>
    PROVE  LET t == PopBack(s, l) IN
           /\ Wf(t) /\ t.maps = s.maps /\ t.lists = s.lists
           /\ t.p = s.p /\ t.popped
<1> DEFINE t == PopBack(s, l)
<1>1. s \in PolicyState
  BY DEF Wf
<1>2. t = Made(s.lists, s.maps, s.cached, s.p, TRUE)
  BY <1>1, ExceptPopped DEF PopBack
<1>3. /\ t.lists = s.lists /\ t.maps = s.maps /\ t.cached = s.cached
      /\ t.p = s.p /\ t.popped
  BY <1>2 DEF Made
<1>4. t \in PolicyState
  BY <1>1, <1>2, StateFields DEF PolicyState, Made
<1> HIDE DEF t
<1>5. Wf(t)
  BY <1>3, <1>4 DEF Wf
<1> QED BY <1>3, <1>5 DEF t

\* replace turns an entry into a ghost, unless arc_p is no number and the second
\* list is empty.
LEMMA ReplaceIs ==
    ASSUME NEW s, Wf(s), NEW x, cache_size \in Nat,
           s.p # NaN => Size(s, "t2") > 0 \/ (Size(s, "t1") > 0 /\ Has(s, "b2", x))
    PROVE  LET t == replace(s, x) IN
           /\ Wf(t) /\ t.p = s.p
           /\ \/ t.popped /\ t.p = NaN /\ t.maps = s.maps
              \/ \E a \in Pairs : \E r : Demoted(s, t, a, r)
<1> DEFINE one == Size(s, "t1") > 0 /\ (AboveP(s) \/ (Has(s, "b2", x) /\ NotAboveP(s)))
<1>1. /\ Size(s, "t1") \in Nat /\ Size(s, "t2") \in Nat
      /\ Size(s, "t1") = 0 <=> s.lists["t1"] = <<>>
      /\ Size(s, "t2") = 0 <=> s.lists["t2"] = <<>>
  BY SizesNat DEF Names
<1>2. s.p # NaN => AboveP(s) \/ NotAboveP(s)
  <2>1. s.p # NaN => s.p \in Int
    BY StateFields DEF Wf
  <2>2. Size(s, "t1") * Scale \in Int
    BY <1>1, CacheAssumption
  <2> QED BY <2>1, <2>2 DEF AboveP, NotAboveP
<1>3. CASE one
  <2>1. replace(s, x) = Demote(s, "t1", "b1") /\ s.lists["t1"] # <<>>
    BY <1>1, <1>3 DEF replace
  <2> DEFINE a == <<"t1", "b1">>
  <2>2. a \in Pairs /\ s.lists[a[1]] # <<>>
    BY <2>1 DEF Pairs
  <2>3. Demote(s, a[1], a[2]) = Demote(s, "t1", "b1")
    OBVIOUS
  <2> HIDE DEF a
  <2>4. Wf(Demote(s, a[1], a[2])) /\ Demote(s, a[1], a[2]).p = s.p
        /\ \E r : Demoted(s, Demote(s, a[1], a[2]), a, r)
    BY <2>2, DemoteIs
  <2> QED BY <2>1, <2>2, <2>3, <2>4
<1>4. CASE ~one
  <2>1. replace(s, x) = Demote(s, "t2", "b2")
    BY <1>4 DEF replace
  <2>2. CASE s.lists["t2"] = <<>>
    <3>1. Demote(s, "t2", "b2") = PopBack(s, "t2")
      BY <2>2 DEF Demote
    <3>2. s.p = NaN
      BY <1>1, <1>2, <1>4, <2>2
    <3>3. LET t == PopBack(s, "t2") IN
          /\ Wf(t) /\ t.maps = s.maps /\ t.lists = s.lists
          /\ t.p = s.p /\ t.popped
      BY <2>2, PopEmptyIs DEF Names
    <3> QED BY <2>1, <3>1, <3>2, <3>3
  <2>3. CASE s.lists["t2"] # <<>>
    <3> DEFINE a == <<"t2", "b2">>
    <3>2. a \in Pairs /\ s.lists[a[1]] # <<>>
      BY <2>3 DEF Pairs
    <3>3. Demote(s, a[1], a[2]) = Demote(s, "t2", "b2")
      OBVIOUS
    <3> HIDE DEF a
    <3>4. Wf(Demote(s, a[1], a[2])) /\ Demote(s, a[1], a[2]).p = s.p
          /\ \E r : Demoted(s, Demote(s, a[1], a[2]), a, r)
      BY <3>2, DemoteIs
    <3> QED BY <2>1, <3>2, <3>3, <3>4
  <2> QED BY <2>2, <2>3
<1> QED BY <1>3, <1>4

\* Positions in the lists that the policies evict from
Resident(s) == s.maps["lru"] \cup s.maps["t1"] \cup s.maps["t2"]

\* ARC: as soon as there are ghosts the cache is full, entries removed by the
\* user included.
Sized(s) ==
    /\ s.maps["lru"] = {}
    /\ Size(s, "t1") + Size(s, "t2") <= cache_size
    /\ Size(s, "t1") + Size(s, "b1") <= cache_size
    /\ Size(s, "t1") + Size(s, "t2") + Size(s, "b1") + Size(s, "b2") <= 2 * cache_size
    /\ Size(s, "b1") + Size(s, "b2") > 0 => Size(s, "t1") + Size(s, "t2") = cache_size

\* What is cached can be evicted, and nothing else, but what the user removed.
Linked(s, cached) ==
    /\ cached \subseteq Resident(s)
    /\ Resident(s) \subseteq cached \cup removed

\* Either an empty list was popped because arc_p is no number, or all is well.
ArcGood(s, cached) ==
    /\ Wf(s)
    /\ \/ s.popped /\ s.p = NaN
       \/ ~s.popped /\ Sized(s) /\ Linked(s, cached)

\* The sizes of all lists
LEMMA AllSizes ==
    ASSUME NEW s, Wf(s)
    PROVE  /\ Size(s, "lru") \in Nat
           /\ Size(s, "t1") \in Nat /\ Size(s, "t2") \in Nat
           /\ Size(s, "b1") \in Nat /\ Size(s, "b2") \in Nat
BY SizesNat DEF Names

\* A demoted entry is no longer resident, and positions of no list stay in none.
LEMMA DemotedFacts ==
    ASSUME NEW s, Wf(s), NEW t, Wf(t), NEW a \in Pairs, NEW r, Demoted(s, t, a, r)
    PROVE  /\ Resident(t) = Resident(s) \ {r}
           /\ t.cached = s.cached \ {r} /\ t.popped = s.popped
           /\ t.maps["lru"] = s.maps["lru"]
           /\ s.maps["b1"] \subseteq t.maps["b1"] /\ s.maps["b2"] \subseteq t.maps["b2"]
           /\ r \in Resident(s)
           /\ \A x : Unlisted(s, x) => Unlisted(t, x)
           /\ Size(t, "t1") + Size(t, "b1") = Size(s, "t1") + Size(s, "b1")
           /\ Size(t, "t2") + Size(t, "b2") = Size(s, "t2") + Size(s, "b2")
           /\ Size(t, "t1") + Size(t, "t2") = Size(s, "t1") + Size(s, "t2") - 1
<1>1. s.maps \in [Names -> SUBSET Positions] /\ t.maps \in [Names -> SUBSET Positions]
  BY StateFields DEF Wf
<1>2. \A k \in Names : t.maps[k] = IF k = a[1] THEN s.maps[k] \ {r}
                                   ELSE IF k = a[2] THEN s.maps[k] \cup {r} ELSE s.maps[k]
  <2>1. a[1] \in Names /\ a[2] \in Names /\ a[1] # a[2]
    BY DEF Pairs, Names
  <2> QED BY <1>1, <2>1 DEF Demoted
<1>3. /\ t.cached = s.cached \ {r} /\ t.popped = s.popped
      /\ r \in s.maps[a[1]]
  BY DEF Demoted
<1>4. \A k \in Names : k # a[1] => r \notin s.maps[k]
  <2>1. a[1] \in Names
    BY DEF Pairs, Names
  <2> QED BY <1>3, <2>1 DEF Wf
<1>5. {"lru", "t1", "t2", "b1", "b2"} = Names
  BY DEF Names
<1>6. \/ a[1] = "t1" /\ a[2] = "b1"
      \/ a[1] = "t2" /\ a[2] = "b2"
  BY DEF Pairs
<1>7. Resident(t) = Resident(s) \ {r} /\ r \in Resident(s)
  BY <1>2, <1>3, <1>4, <1>5, <1>6 DEF Resident
<1>8. \A x : Unlisted(s, x) => Unlisted(t, x)
  <2> SUFFICES ASSUME NEW x, Unlisted(s, x), NEW k \in Names PROVE x \notin t.maps[k]
    BY DEF Unlisted
  <2>1. x # r
    BY <1>3, <1>5, <1>6 DEF Unlisted
  <2> QED BY <1>2, <2>1 DEF Unlisted
<1>9. /\ t.maps["lru"] = s.maps["lru"]
      /\ s.maps["b1"] \subseteq t.maps["b1"] /\ s.maps["b2"] \subseteq t.maps["b2"]
  BY <1>2, <1>5, <1>6
<1>10. /\ Size(t, "t1") + Size(t, "b1") = Size(s, "t1") + Size(s, "b1")
       /\ Size(t, "t2") + Size(t, "b2") = Size(s, "t2") + Size(s, "b2")
       /\ Size(t, "t1") + Size(t, "t2") = Size(s, "t1") + Size(s, "t2") - 1
  <2>1. /\ Size(t, a[1]) = Size(s, a[1]) - 1 /\ Size(t, a[2]) = Size(s, a[2]) + 1
        /\ \A k \in Names \ {a[1], a[2]} : Size(t, k) = Size(s, k)
    BY DEF Demoted
  <2>2. /\ "t1" \in Names /\ "t2" \in Names /\ "b1" \in Names /\ "b2" \in Names
    BY DEF Names
  <2> QED BY <1>6, <2>1, <2>2, AllSizes
<1> QED BY <1>3, <1>7, <1>8, <1>9, <1>10

\* A put that hits a ghost
LEMMA GhostHit ==
    ASSUME NEW s, ArcGood(s, s.cached), ~s.popped, cache_size \in Nat,
           NEW p \in Int \cup {NaN}, NEW g \in {"b1", "b2"}, NEW x \in s.maps[g]
    PROVE  LET t == Splice(replace([s EXCEPT !.p = p], x), g, "t2", x) IN
           ArcGood(t, t.cached \cup {x})
<1> DEFINE u == [s EXCEPT !.p = p]
           v == replace(u, x)
           t == Splice(v, g, "t2", x)
<1>1. Wf(s) /\ Sized(s) /\ Linked(s, s.cached)
  BY DEF ArcGood
<1>2. /\ Wf(u) /\ u.maps = s.maps /\ u.cached = s.cached /\ u.p = p /\ u.popped = s.popped
      /\ \A k \in Names : Size(u, k) = Size(s, k)
  BY <1>1, SetPIs
<1> HIDE DEF u
<1>3. g \in Names /\ "t2" \in Names /\ g # "t2" /\ {"lru", "t1", "t2", "b1", "b2"} = Names
  BY DEF Names
<1>4. /\ Size(s, "t1") + Size(s, "t2") = cache_size /\ Size(s, g) > 0
      /\ Size(u, "t2") > 0 \/ (Size(u, "t1") > 0 /\ Has(u, "b2", x))
  <2>1. Size(s, g) > 0
    BY <1>1, <1>3, SizesNat
  <2>2. g = "b2" => Has(u, "b2", x)
    BY <1>2 DEF Has
  <2> QED BY <1>1, <1>2, <1>3, <2>1, <2>2, AllSizes DEF Sized
<1>5. /\ Wf(v) /\ v.p = u.p
      /\ \/ v.popped /\ v.p = NaN /\ v.maps = u.maps
         \/ \E a \in Pairs : \E r : Demoted(u, v, a, r)
  BY <1>2, <1>4, ReplaceIs
<1> HIDE DEF v
<1>6. ASSUME x \in v.maps[g]
      PROVE  /\ Wf(t)
             /\ t.maps = [[v.maps EXCEPT ![g] = @ \ {x}] EXCEPT !["t2"] = @ \cup {x}]
             /\ t.cached = v.cached /\ t.p = v.p /\ t.popped = v.popped
             /\ Size(t, g) = Size(v, g) - 1 /\ Size(t, "t2") = Size(v, "t2") + 1
             /\ \A k \in Names \ {g, "t2"} : Size(t, k) = Size(v, k)
  <2>1. Wf(v) /\ g \in Names /\ "t2" \in Names /\ x \in v.maps[g]
    BY <1>3, <1>5, <1>6
  <2>2. Spliced(v, Splice(v, g, "t2", x), g, "t2", x)
    BY <2>1, SpliceIs
  <2>3. Spliced(v, t, g, "t2", x)
    BY <2>2
  <2> HIDE DEF t
  <2> QED BY <1>3, <2>3 DEF Spliced
<1> HIDE DEF t
<1>7. ASSUME v.popped, v.p = NaN, v.maps = u.maps
      PROVE  ArcGood(t, t.cached \cup {x})
  <2>1. x \in v.maps[g]
    BY <1>2, <1>7
  <2> QED BY <1>6, <1>7, <2>1 DEF ArcGood
<1>8. ASSUME NEW a \in Pairs, NEW r, Demoted(u, v, a, r)
      PROVE  ArcGood(t, t.cached \cup {x})
  <2>1. /\ Resident(v) = Resident(u) \ {r}
        /\ v.cached = u.cached \ {r} /\ v.popped = u.popped
        /\ v.maps["lru"] = u.maps["lru"]
        /\ u.maps["b1"] \subseteq v.maps["b1"] /\ u.maps["b2"] \subseteq v.maps["b2"]
        /\ Size(v, "t1") + Size(v, "b1") = Size(u, "t1") + Size(u, "b1")
        /\ Size(v, "t2") + Size(v, "b2") = Size(u, "t2") + Size(u, "b2")
        /\ Size(v, "t1") + Size(v, "t2") = Size(u, "t1") + Size(u, "t2") - 1
    BY <1>2, <1>5, <1>8, DemotedFacts
  <2>2. x \in v.maps[g]
    BY <1>2, <2>1
  <2>3. v.maps \in [Names -> SUBSET Positions]
    BY <1>5, StateFields DEF Wf
  <2>4. /\ t.maps["t1"] = v.maps["t1"] /\ t.maps["lru"] = v.maps["lru"]
        /\ t.maps["t2"] = v.maps["t2"] \cup {x}
    BY <1>3, <1>6, <2>2, <2>3
  <2>5. Linked(t, t.cached \cup {x})
    <3>1. Resident(t) = Resident(v) \cup {x}
      BY <2>4 DEF Resident
    <3>2. Resident(u) = Resident(s)
      BY <1>2 DEF Resident
    <3> QED BY <1>1, <1>2, <1>6, <2>1, <2>2, <3>1, <3>2 DEF Linked
  <2>6. /\ Size(t, "t1") = Size(v, "t1") /\ Size(t, "t2") = Size(v, "t2") + 1
        /\ \/ Size(t, "b1") = Size(v, "b1") - 1 /\ Size(t, "b2") = Size(v, "b2")
           \/ Size(t, "b1") = Size(v, "b1") /\ Size(t, "b2") = Size(v, "b2") - 1
    BY <1>3, <1>6, <2>2
  <2>7. Sized(t)
    <3>1. t.maps["lru"] = {}
      BY <1>1, <1>2, <2>1, <2>4 DEF Sized
    <3>2. /\ Size(u, "t1") = Size(s, "t1") /\ Size(u, "t2") = Size(s, "t2")
          /\ Size(u, "b1") = Size(s, "b1") /\ Size(u, "b2") = Size(s, "b2")
      BY <1>2, <1>3
    <3>3. Wf(t)
      BY <1>6, <2>2
    <3>4. /\ Size(t, "t1") \in Nat /\ Size(t, "t2") \in Nat
          /\ Size(t, "b1") \in Nat /\ Size(t, "b2") \in Nat
          /\ Size(v, "t1") \in Nat /\ Size(v, "t2") \in Nat
          /\ Size(v, "b1") \in Nat /\ Size(v, "b2") \in Nat
          /\ Size(s, "t1") \in Nat /\ Size(s, "t2") \in Nat
          /\ Size(s, "b1") \in Nat /\ Size(s, "b2") \in Nat
      BY <1>1, <1>5, <3>3, AllSizes
    <3> QED BY <1>1, <1>4, <2>1, <2>6, <3>1, <3>2, <3>4 DEF Sized
  <2> QED BY <1>2, <1>6, <2>1, <2>2, <2>5, <2>7 DEF ArcGood
<1> QED BY <1>5, <1>7, <1>8 DEF t, u, v

\* A position that is in no list, pushed on the first one
LEMMA Pushed ==
    ASSUME NEW s, Wf(s), NEW x \in Positions, Unlisted(s, x)
    PROVE  LET t == PushFront(s, "t1", x) IN
           /\ Wf(t) /\ t.cached = s.cached /\ t.p = s.p /\ t.popped = s.popped
           /\ Resident(t) = Resident(s) \cup {x}
           /\ t.maps["lru"] = s.maps["lru"]
           /\ Size(t, "t1") = Size(s, "t1") + 1 /\ Size(t, "t2") = Size(s, "t2")
           /\ Size(t, "b1") = Size(s, "b1") /\ Size(t, "b2") = Size(s, "b2")
<1> DEFINE t == PushFront(s, "t1", x)
<1>1. /\ "lru" \in Names /\ "t1" \in Names /\ "t2" \in Names
      /\ "b1" \in Names /\ "b2" \in Names
  BY DEF Names
<1>2. /\ Relisted(s, t, "t1", <<x>> \o s.lists["t1"], s.maps["t1"] \cup {x})
      /\ Size(t, "t1") = Size(s, "t1") + 1
      /\ \A k \in Names \ {"t1"} : Size(t, k) = Size(s, k)
  BY <1>1, PushFrontIs
<1> HIDE DEF t
<1>3. /\ Wf(t) /\ t.maps = [s.maps EXCEPT !["t1"] = s.maps["t1"] \cup {x}]
      /\ t.cached = s.cached /\ t.p = s.p /\ t.popped = s.popped
  BY <1>2 DEF Relisted
<1>4. s.maps \in [Names -> SUBSET Positions]
  BY StateFields DEF Wf
<1>5. /\ t.maps["t1"] = s.maps["t1"] \cup {x}
      /\ t.maps["t2"] = s.maps["t2"] /\ t.maps["lru"] = s.maps["lru"]
  BY <1>1, <1>3, <1>4
<1>6. Resident(t) = Resident(s) \cup {x}
  BY <1>5 DEF Resident
<1> QED BY <1>1, <1>2, <1>3, <1>5, <1>6 DEF t

\* The last position of a list dropped
LEMMA Dropped ==
    ASSUME NEW s, Wf(s), NEW l \in Names, s.lists[l] # <<>>
    PROVE  LET t == PopBack(s, l)
               r == Last(s.lists[l]) IN
           /\ Wf(t) /\ t.cached = s.cached /\ t.p = s.p /\ t.popped = s.popped
           /\ r \in s.maps[l]
           /\ \A k \in Names : t.maps[k] = s.maps[k] \ {r}
           /\ \A x : Unlisted(s, x) => Unlisted(t, x)
           /\ Size(t, l) = Size(s, l) - 1
           /\ \A k \in Names \ {l} : Size(t, k) = Size(s, k)
<1> DEFINE t == PopBack(s, l)
           r == Last(s.lists[l])
<1>1. /\ r \in s.maps[l]
      /\ Relisted(s, t, l, Front(s.lists[l]), s.maps[l] \ {r})
      /\ Size(t, l) = Size(s, l) - 1
      /\ \A k \in Names \ {l} : Size(t, k) = Size(s, k)
  BY PopBackIs
<1> HIDE DEF t, r
<1>2. /\ Wf(t) /\ t.maps = [s.maps EXCEPT ![l] = s.maps[l] \ {r}]
      /\ t.cached = s.cached /\ t.p = s.p /\ t.popped = s.popped
  BY <1>1 DEF Relisted
<1>3. s.maps \in [Names -> SUBSET Positions]
  BY StateFields DEF Wf
<1>4. ASSUME NEW k \in Names PROVE t.maps[k] = s.maps[k] \ {r}
  <2>1. k # l => r \notin s.maps[k]
    BY <1>1 DEF Wf
  <2> QED BY <1>2, <1>3, <2>1
<1>5. \A x : Unlisted(s, x) => Unlisted(t, x)
  BY <1>4 DEF Unlisted
<1> QED BY <1>1, <1>2, <1>4, <1>5 DEF t, r

\* t is s with one ghost less in list g.
GhostGone(s, t, g) ==
    /\ Wf(t) /\ t.cached = s.cached /\ t.p = s.p /\ t.popped = s.popped
    /\ Resident(t) = Resident(s)
    /\ t.maps["lru"] = s.maps["lru"]
    /\ \A x : Unlisted(s, x) => Unlisted(t, x)
    /\ Size(t, "t1") = Size(s, "t1") /\ Size(t, "t2") = Size(s, "t2")
    /\ Size(t, "b1") = Size(s, "b1") - (IF g = "b1" THEN 1 ELSE 0)
    /\ Size(t, "b2") = Size(s, "b2") - (IF g = "b2" THEN 1 ELSE 0)

\* A ghost dropped, of which there is one
LEMMA GhostDropped ==
    ASSUME NEW s, Wf(s), NEW g \in {"b1", "b2"}, Size(s, g) > 0
    PROVE  GhostGone(s, PopBack(s, g), g)
<1> DEFINE t == PopBack(s, g)
           r == Last(s.lists[g])
<1>1. g \in Names /\ {"lru", "t1", "t2", "b1", "b2"} = Names
  BY DEF Names
<1>2. s.lists[g] # <<>>
  BY <1>1, SizesNat
<1>3. /\ Wf(t) /\ t.cached = s.cached /\ t.p = s.p /\ t.popped = s.popped
      /\ r \in s.maps[g]
      /\ \A k \in Names : t.maps[k] = s.maps[k] \ {r}
      /\ \A x : Unlisted(s, x) => Unlisted(t, x)
      /\ Size(t, g) = Size(s, g) - 1
      /\ \A k \in Names \ {g} : Size(t, k) = Size(s, k)
  BY <1>1, <1>2, Dropped
<1> HIDE DEF t, r
<1>4. \A k \in {"lru", "t1", "t2"} : r \notin s.maps[k]
  BY <1>1, <1>3 DEF Wf
<1>5. ASSUME NEW k \in {"lru", "t1", "t2"} PROVE t.maps[k] = s.maps[k]
  <2>1. t.maps[k] = s.maps[k] \ {r}
    BY <1>1, <1>3
  <2> QED BY <1>4, <2>1
<1>6. Resident(t) = Resident(s) /\ t.maps["lru"] = s.maps["lru"]
  BY <1>5 DEF Resident
<1>7. /\ Size(t, "t1") = Size(s, "t1") /\ Size(t, "t2") = Size(s, "t2")
      /\ Size(t, "b1") = Size(s, "b1") - (IF g = "b1" THEN 1 ELSE 0)
      /\ Size(t, "b2") = Size(s, "b2") - (IF g = "b2" THEN 1 ELSE 0)
  BY <1>1, <1>3, AllSizes
<1> QED BY <1>3, <1>6, <1>7 DEF t, GhostGone

\* A new position in a full cache with room for one more ghost
LEMMA FullPut ==
    ASSUME NEW s, Wf(s), ~s.popped, s.maps["lru"] = {}, Linked(s, s.cached),
           NEW x \in Positions, Unlisted(s, x), cache_size \in Nat,
           Size(s, "t1") + Size(s, "t2") = cache_size, Size(s, "t2") > 0,
           Size(s, "t1") + Size(s, "b1") < cache_size,
           Size(s, "t1") + Size(s, "t2") + Size(s, "b1") + Size(s, "b2") < 2 * cache_size
    PROVE  LET t == PushFront(replace(s, x), "t1", x) IN
           ArcGood(t, t.cached \cup {x})
<1> DEFINE v == replace(s, x)
           t == PushFront(v, "t1", x)
<1>1. /\ Wf(v) /\ v.p = s.p
      /\ \/ v.popped /\ v.p = NaN /\ v.maps = s.maps
         \/ \E a \in Pairs : \E r : Demoted(s, v, a, r)
  BY ReplaceIs
<1> HIDE DEF v
<1>2. ASSUME Unlisted(v, x)
      PROVE  /\ Wf(t) /\ t.cached = v.cached /\ t.p = v.p /\ t.popped = v.popped
             /\ Resident(t) = Resident(v) \cup {x}
             /\ t.maps["lru"] = v.maps["lru"]
             /\ Size(t, "t1") = Size(v, "t1") + 1 /\ Size(t, "t2") = Size(v, "t2")
             /\ Size(t, "b1") = Size(v, "b1") /\ Size(t, "b2") = Size(v, "b2")
  BY <1>1, <1>2, Pushed
<1> HIDE DEF t
<1>3. ASSUME v.popped, v.p = NaN, v.maps = s.maps
      PROVE  ArcGood(t, t.cached \cup {x})
  <2>1. Unlisted(v, x)
    BY <1>3 DEF Unlisted
  <2> QED BY <1>2, <1>3, <2>1 DEF ArcGood
<1>4. ASSUME NEW a \in Pairs, NEW r, Demoted(s, v, a, r)
      PROVE  ArcGood(t, t.cached \cup {x})
  <2>1. /\ Resident(v) = Resident(s) \ {r}
        /\ v.cached = s.cached \ {r} /\ v.popped = s.popped
        /\ v.maps["lru"] = s.maps["lru"]
        /\ Unlisted(v, x)
        /\ Size(v, "t1") + Size(v, "b1") = Size(s, "t1") + Size(s, "b1")
        /\ Size(v, "t2") + Size(v, "b2") = Size(s, "t2") + Size(s, "b2")
        /\ Size(v, "t1") + Size(v, "t2") = Size(s, "t1") + Size(s, "t2") - 1
    BY <1>1, <1>4, DemotedFacts
  <2>2. Linked(t, t.cached \cup {x})
    BY <1>2, <2>1 DEF Linked
  <2>3. Sized(t)
    <3>1. /\ Size(v, "t1") \in Nat /\ Size(v, "t2") \in Nat
          /\ Size(v, "b1") \in Nat /\ Size(v, "b2") \in Nat
          /\ Size(s, "t1") \in Nat /\ Size(s, "t2") \in Nat
          /\ Size(s, "b1") \in Nat /\ Size(s, "b2") \in Nat
      BY <1>1, AllSizes
    <3> QED BY <1>2, <2>1, <3>1 DEF Sized
  <2> QED BY <1>2, <2>1, <2>2, <2>3 DEF ArcGood
<1> QED BY <1>1, <1>3, <1>4 DEF t, v

\* A put of a position that is in none of the lists
LEMMA NewPut ==
    ASSUME NEW s, ArcGood(s, s.cached), ~s.popped, cache_size \in Nat \ {0},
           NEW x \in Positions, Unlisted(s, x)
    PROVE  LET t == PushFront(MakeRoom(s, x), "t1", x) IN
           ArcGood(t, t.cached \cup {x})
<1> DEFINE ghosted == Size(s, "t1") + Size(s, "b1")
           total == ghosted + Size(s, "t2") + Size(s, "b2")
           t(v) == PushFront(v, "t1", x)
           good(v) == ArcGood(t(v), t(v).cached \cup {x})
<1>1. Wf(s) /\ Sized(s) /\ Linked(s, s.cached) /\ s.maps["lru"] = {}
  BY DEF ArcGood, Sized
<1>2. /\ Size(s, "t1") \in Nat /\ Size(s, "t2") \in Nat
      /\ Size(s, "b1") \in Nat /\ Size(s, "b2") \in Nat
  BY <1>1, AllSizes
<1>3. CASE ghosted >= cache_size /\ Size(s, "t1") < cache_size
  <2> DEFINE u == PopBack(s, "b1")
  <2>1. /\ Size(s, "b1") > 0 /\ Size(s, "t1") + Size(s, "t2") = cache_size
        /\ Size(s, "t2") > 0
    BY <1>1, <1>2, <1>3 DEF Sized
  <2>2. /\ Wf(u) /\ u.cached = s.cached /\ u.popped = s.popped
        /\ Resident(u) = Resident(s) /\ u.maps["lru"] = s.maps["lru"]
        /\ Unlisted(u, x)
        /\ Size(u, "t1") = Size(s, "t1") /\ Size(u, "t2") = Size(s, "t2")
        /\ Size(u, "b1") = Size(s, "b1") - 1 /\ Size(u, "b2") = Size(s, "b2")
    <3>1. GhostGone(s, u, "b1")
      BY <1>1, <2>1, GhostDropped
    <3> HIDE DEF u
    <3> QED BY <1>2, <3>1 DEF GhostGone
  <2>3. MakeRoom(s, x) = replace(u, x)
    BY <1>3 DEF MakeRoom
  <2> HIDE DEF u
  <2>4. Linked(u, u.cached)
    BY <1>1, <2>2 DEF Linked
  <2>5. /\ Size(u, "t1") + Size(u, "t2") = cache_size /\ Size(u, "t2") > 0
        /\ Size(u, "t1") + Size(u, "b1") < cache_size
        /\ Size(u, "t1") + Size(u, "t2") + Size(u, "b1") + Size(u, "b2") < 2 * cache_size
    BY <1>1, <1>2, <2>1, <2>2 DEF Sized
  <2>6. good(replace(u, x))
    BY <1>1, <2>2, <2>4, <2>5, FullPut
  <2> QED BY <2>3, <2>6
<1>4. CASE ghosted >= cache_size /\ ~(Size(s, "t1") < cache_size)
  <2> DEFINE r == Last(s.lists["t1"])
             u == Uncache(s, r)
             v == PopBack(u, "t1")
  <2>1. /\ Size(s, "t1") = cache_size /\ Size(s, "t2") = 0 /\ Size(s, "b1") = 0
    BY <1>1, <1>2, <1>4 DEF Sized
  <2>2. MakeRoom(s, x) = v
    BY <1>4 DEF MakeRoom
  <2>3. /\ Wf(u) /\ u.lists = s.lists /\ u.maps = s.maps /\ u.cached = s.cached \ {r}
        /\ u.popped = s.popped
        /\ \A k \in Names : Size(u, k) = Size(s, k)
    BY <1>1, UncacheIs
  <2>4. "t1" \in Names /\ {"lru", "t1", "t2", "b1", "b2"} = Names
    BY DEF Names
  <2>5. u.lists["t1"] # <<>>
    BY <1>1, <1>2, <2>1, <2>3, <2>4, SizesNat
  <2>6. r = Last(u.lists["t1"])
    BY <2>3
  <2> HIDE DEF u, r
  <2>7. /\ Wf(v) /\ v.cached = u.cached /\ v.popped = u.popped
        /\ r \in u.maps["t1"]
        /\ \A k \in Names : v.maps[k] = u.maps[k] \ {r}
        /\ \A y : Unlisted(u, y) => Unlisted(v, y)
        /\ Size(v, "t1") = Size(u, "t1") - 1
        /\ \A k \in Names \ {"t1"} : Size(v, k) = Size(u, k)
    BY <2>3, <2>4, <2>5, <2>6, Dropped
  <2> HIDE DEF v
  <2>8. Unlisted(v, x)
    BY <2>3, <2>7 DEF Unlisted
  <2>9. /\ Wf(t(v)) /\ t(v).cached = v.cached /\ t(v).popped = v.popped
        /\ Resident(t(v)) = Resident(v) \cup {x}
        /\ t(v).maps["lru"] = v.maps["lru"]
        /\ Size(t(v), "t1") = Size(v, "t1") + 1 /\ Size(t(v), "t2") = Size(v, "t2")
        /\ Size(t(v), "b1") = Size(v, "b1") /\ Size(t(v), "b2") = Size(v, "b2")
    BY <2>7, <2>8, Pushed
  <2>10. Resident(v) = Resident(s) \ {r} /\ v.maps["lru"] = {}
    BY <1>1, <2>3, <2>4, <2>7 DEF Resident
  <2> DEFINE w == t(v)
  <2> HIDE DEF t
  <2>11. Linked(w, w.cached \cup {x})
    BY <1>1, <2>3, <2>7, <2>9, <2>10 DEF Linked
  <2>12. Sized(w)
    BY <1>1, <1>2, <2>1, <2>3, <2>4, <2>7, <2>9, <2>10 DEF Sized
  <2>13. good(v)
    BY <2>3, <2>7, <2>9, <2>11, <2>12 DEF ArcGood
  <2> QED BY <2>2, <2>13 DEF t
<1>5. CASE ghosted < cache_size /\ total >= 2 * cache_size
  <2> DEFINE u == PopBack(s, "b2")
  <2>1. /\ Size(s, "b2") > 0 /\ Size(s, "t1") + Size(s, "t2") = cache_size
        /\ Size(s, "t2") > 0 /\ total = 2 * cache_size
    BY <1>1, <1>2, <1>5 DEF Sized
  <2>2. /\ Wf(u) /\ u.cached = s.cached /\ u.popped = s.popped
        /\ Resident(u) = Resident(s) /\ u.maps["lru"] = s.maps["lru"]
        /\ Unlisted(u, x)
        /\ Size(u, "t1") = Size(s, "t1") /\ Size(u, "t2") = Size(s, "t2")
        /\ Size(u, "b1") = Size(s, "b1") /\ Size(u, "b2") = Size(s, "b2") - 1
    <3>1. GhostGone(s, u, "b2")
      BY <1>1, <2>1, GhostDropped
    <3> HIDE DEF u
    <3> QED BY <1>2, <3>1 DEF GhostGone
  <2>3. MakeRoom(s, x) = replace(u, x)
    BY <1>2, <1>5 DEF MakeRoom
  <2> HIDE DEF u
  <2>4. Linked(u, u.cached)
    BY <1>1, <2>2 DEF Linked
  <2>5. /\ Size(u, "t1") + Size(u, "t2") = cache_size /\ Size(u, "t2") > 0
        /\ Size(u, "t1") + Size(u, "b1") < cache_size
        /\ Size(u, "t1") + Size(u, "t2") + Size(u, "b1") + Size(u, "b2") < 2 * cache_size
    BY <1>1, <1>2, <1>5, <2>1, <2>2 DEF Sized
  <2>6. good(replace(u, x))
    BY <1>1, <2>2, <2>4, <2>5, FullPut
  <2> QED BY <2>3, <2>6
<1>6. CASE ghosted < cache_size /\ total < 2 * cache_size /\ total >= cache_size
  <2>1. Size(s, "t1") + Size(s, "t2") = cache_size /\ Size(s, "t2") > 0
    BY <1>1, <1>2, <1>6 DEF Sized
  <2>2. MakeRoom(s, x) = replace(s, x)
    BY <1>2, <1>6 DEF MakeRoom
  <2>3. good(replace(s, x))
    BY <1>1, <1>2, <1>6, <2>1, FullPut
  <2> QED BY <2>2, <2>3
<1>7. CASE total < cache_size
  <2>1. Size(s, "b1") = 0 /\ Size(s, "b2") = 0
    BY <1>1, <1>2, <1>7 DEF Sized
  <2>2. MakeRoom(s, x) = s
    BY <1>2, <1>7 DEF MakeRoom
  <2> DEFINE w == t(s)
  <2>3. /\ Wf(w) /\ w.cached = s.cached /\ w.popped = s.popped
        /\ Resident(w) = Resident(s) \cup {x}
        /\ w.maps["lru"] = s.maps["lru"]
        /\ Size(w, "t1") = Size(s, "t1") + 1 /\ Size(w, "t2") = Size(s, "t2")
        /\ Size(w, "b1") = Size(s, "b1") /\ Size(w, "b2") = Size(s, "b2")
    BY <1>1, Pushed
  <2> HIDE DEF t
  <2>4. Linked(w, w.cached \cup {x})
    BY <1>1, <2>3 DEF Linked
  <2>5. Sized(w)
    BY <1>1, <1>2, <1>7, <2>1, <2>3 DEF Sized
  <2>6. good(s)
    BY <2>3, <2>4, <2>5 DEF ArcGood
  <2> QED BY <2>2, <2>6 DEF t
<1>8. \/ ghosted >= cache_size /\ Size(s, "t1") < cache_size
      \/ ghosted >= cache_size /\ ~(Size(s, "t1") < cache_size)
      \/ ghosted < cache_size /\ total >= 2 * cache_size
      \/ ghosted < cache_size /\ total < 2 * cache_size /\ total >= cache_size
      \/ total < cache_size
  BY <1>2
<1> QED BY <1>3, <1>4, <1>5, <1>6, <1>7, <1>8

\* The step of arc_p is a number.
LEMMA DeltaInt ==
    ASSUME NEW s, Wf(s), NEW l \in Names, NEW m \in Names, Size(s, l) > 0
    PROVE  Delta(s, l, m) \in Int
<1> DEFINE a == Scale * Size(s, m)
           b == Size(s, l)
<1>1. Size(s, m) \in Nat /\ b \in Nat /\ b > 0
  BY SizesNat
<1>2. a \in Int /\ Scale \in Int
  <2>1. Scale \in Nat /\ Size(s, m) \in Nat
    BY <1>1, CacheAssumption
  <2> QED BY <2>1
<1>3. Delta(s, l, m) = IF b >= Size(s, m) THEN Scale ELSE a \div b
  BY DEF Delta
<1> HIDE DEF a, b
<1>4. a \div b \in Int
  BY <1>1, <1>2
<1> QED BY <1>2, <1>3, <1>4

\* arc_p stays a number, or none.
LEMMA NextP ==
    ASSUME NEW p \in Int \cup {NaN}, NEW d \in Int, cache_size \in Nat
    PROVE  Plus(p, d) \in Int \cup {NaN} /\ Minus(p, d) \in Int \cup {NaN}
<1>1. cache_size * Scale \in Int
  BY CacheAssumption
<1>2. p # NaN => p + d \in Int /\ p - d \in Int
  OBVIOUS
<1> QED BY <1>1, <1>2 DEF Plus, Minus

\* A put
LEMMA ArcPut ==
    ASSUME NEW s, ArcGood(s, s.cached), ~s.popped, cache_size \in Nat \ {0},
           NEW x \in Positions, x \notin s.cached, x \notin removed
    PROVE  LET t == ArcPutMiss(s, x) IN
           ArcGood(t, t.cached \cup {x})
<1>1. Wf(s) /\ Sized(s) /\ Linked(s, s.cached)
  BY DEF ArcGood
<1>2. {"lru", "t1", "t2", "b1", "b2"} = Names /\ "b1" \in Names /\ "b2" \in Names
  BY DEF Names
<1>3. s.p \in Int \cup {NaN}
  BY <1>1, StateFields DEF Wf
<1>4. CASE Has(s, "b1", x)
  <2> DEFINE p == Plus(s.p, Delta(s, "b1", "b2"))
  <2>1. x \in s.maps["b1"]
    BY <1>4 DEF Has
  <2>2. Size(s, "b1") > 0
    BY <1>1, <1>2, <2>1, SizesNat
  <2>3. p \in Int \cup {NaN}
    BY <1>1, <1>2, <1>3, <2>2, DeltaInt, NextP
  <2>4. ArcPutMiss(s, x) = Splice(replace([s EXCEPT !.p = p], x), "b1", "t2", x)
    BY <1>4 DEF ArcPutMiss
  <2> HIDE DEF p
  <2> QED BY <2>1, <2>3, <2>4, GhostHit
<1>5. CASE ~Has(s, "b1", x) /\ Has(s, "b2", x)
  <2> DEFINE p == Minus(s.p, Delta(s, "b2", "b1"))
  <2>1. x \in s.maps["b2"]
    BY <1>5 DEF Has
  <2>2. Size(s, "b2") > 0
    BY <1>1, <1>2, <2>1, SizesNat
  <2>3. p \in Int \cup {NaN}
    BY <1>1, <1>2, <1>3, <2>2, DeltaInt, NextP
  <2>4. ArcPutMiss(s, x) = Splice(replace([s EXCEPT !.p = p], x), "b2", "t2", x)
    BY <1>5 DEF ArcPutMiss
  <2> HIDE DEF p
  <2> QED BY <2>1, <2>3, <2>4, GhostHit
<1>6. CASE ~Has(s, "b1", x) /\ ~Has(s, "b2", x)
  <2>1. x \notin Resident(s)
    BY <1>1 DEF Linked
  <2>2. Unlisted(s, x)
    BY <1>2, <1>6, <2>1 DEF Unlisted, Resident, Has
  <2>3. ArcPutMiss(s, x) = PushFront(MakeRoom(s, x), "t1", x)
    BY <1>6 DEF ArcPutMiss
  <2> QED BY <2>2, <2>3, NewPut
<1> QED BY <1>4, <1>5, <1>6

\* A hit moves the position within the lists that are evicted from.
LEMMA ArcHit ==
    ASSUME NEW s, ArcGood(s, s.cached), ~s.popped, cache_size \in Nat, NEW x \in s.cached
    PROVE  LET t == ArcGetHit(s, x) IN
           ArcGood(t, t.cached) /\ ~t.popped
<1> DEFINE t == ArcGetHit(s, x)
<1>1. Wf(s) /\ Sized(s) /\ Linked(s, s.cached)
  BY DEF ArcGood
<1>2. {"lru", "t1", "t2", "b1", "b2"} = Names
  BY DEF Names
<1>3. s.maps \in [Names -> SUBSET Positions]
  BY <1>1, StateFields DEF Wf
<1>4. PICK l \in {"t1", "t2"} : x \in s.maps[l] /\ t = Splice(s, l, "t2", x)
  <2>1. x \in s.maps["t1"] \/ x \in s.maps["t2"]
    BY <1>1 DEF Linked, Resident, Sized
  <2> QED BY <2>1 DEF ArcGetHit, Has
<1> HIDE DEF t
<1>5. Spliced(s, t, l, "t2", x)
  BY <1>1, <1>2, <1>4, SpliceIs
<1>6. /\ Wf(t) /\ t.cached = s.cached /\ t.popped = s.popped
      /\ t.maps = [[s.maps EXCEPT ![l] = @ \ {x}] EXCEPT !["t2"] = @ \cup {x}]
      /\ l # "t2" => Size(t, l) = Size(s, l) - 1 /\ Size(t, "t2") = Size(s, "t2") + 1
      /\ l = "t2" => Size(t, l) = Size(s, l)
      /\ \A k \in Names \ {l, "t2"} : Size(t, k) = Size(s, k)
  BY <1>5 DEF Spliced
<1>7. /\ t.maps["lru"] = s.maps["lru"]
      /\ t.maps["t1"] \cup t.maps["t2"] = s.maps["t1"] \cup s.maps["t2"]
  BY <1>2, <1>3, <1>4, <1>6
<1>8. Linked(t, t.cached)
  BY <1>1, <1>6, <1>7 DEF Linked, Resident
<1>9. /\ Size(t, "t1") + Size(t, "t2") = Size(s, "t1") + Size(s, "t2")
      /\ Size(t, "t1") <= Size(s, "t1")
      /\ Size(t, "b1") = Size(s, "b1") /\ Size(t, "b2") = Size(s, "b2")
  <2>1. /\ Size(t, "t1") \in Nat /\ Size(t, "t2") \in Nat
        /\ Size(s, "t1") \in Nat /\ Size(s, "t2") \in Nat
    BY <1>1, <1>6, AllSizes
  <2>2. CASE l = "t1"
    BY <1>2, <1>6, <2>1, <2>2
  <2>3. CASE l = "t2"
    BY <1>2, <1>6, <2>1, <2>3
  <2> QED BY <2>2, <2>3
<1>10. Sized(t)
  <2>1. /\ Size(t, "t1") \in Nat /\ Size(t, "t2") \in Nat
        /\ Size(t, "b1") \in Nat /\ Size(t, "b2") \in Nat
        /\ Size(s, "t1") \in Nat /\ Size(s, "t2") \in Nat
    BY <1>1, <1>6, AllSizes
  <2> QED BY <1>1, <1>7, <1>9, <2>1 DEF Sized
<1> QED BY <1>6, <1>8, <1>10 DEF ArcGood, t

-----------------------------------------------------------------------------
(* LRU *)

\* q is what u begins with, up to c positions.
Recent(q, u, c) ==
    /\ Len(q) = IF Len(u) < c THEN Len(u) ELSE c
    /\ \A i \in 1 .. Len(q) : q[i] = u[i]

\* The positions used, after x was used once more
LEMMA UsedAgain ==
    ASSUME NEW u, NEW m, ListOk(u, m), NEW x \in Positions
    PROVE  LET v == RemoveFirst(u, x)
               w == <<x>> \o v IN
           /\ ListOk(w, m \cup {x})
           /\ v \in Seq(Positions) /\ Len(v) \in Nat
           /\ Len(w) = Len(v) + 1 /\ w[1] = x
           /\ \A i \in 2 .. Len(w) : w[i] = v[i - 1]
<1> DEFINE v == RemoveFirst(u, x)
           w == <<x>> \o v
<1>1. ListOk(v, m \ {x})
  <2>1. CASE x \in m
    BY <2>1, UnlinkOk
  <2>2. CASE x \notin m
    <3>1. u \in Seq(Positions) /\ \A i \in 1 .. Len(u) : u[i] # x
      BY <2>2, ListFacts
    <3>2. v = u
      BY <3>1, RemoveFirstIs
    <3>3. m \ {x} = m
      BY <2>2
    <3> QED BY <3>2, <3>3
  <2> QED BY <2>1, <2>2
<1> HIDE DEF v
<1>2. v \in Seq(Positions) /\ Len(v) \in Nat
  BY <1>1, ListFacts
<1>3. ListOk(w, (m \ {x}) \cup {x}) /\ Len(w) = Len(v) + 1
  BY <1>1, PushOk
<1>4. (m \ {x}) \cup {x} = m \cup {x}
  OBVIOUS
<1>5. w[1] = x /\ \A i \in 2 .. Len(w) : w[i] = v[i - 1]
  BY <1>2
<1> QED BY <1>2, <1>3, <1>4, <1>5 DEF v

\* A hit: x moves to the front of both.
LEMMA RecentHit ==
    ASSUME NEW u, NEW m, ListOk(u, m), NEW q, NEW n, ListOk(q, n),
           NEW c \in Nat, Recent(q, u, c), NEW x \in n
    PROVE  Recent(<<x>> \o RemoveFirst(q, x), <<x>> \o RemoveFirst(u, x), c)
<1> DEFINE v == RemoveFirst(u, x)
           w == <<x>> \o v
           r == RemoveFirst(q, x)
           t == <<x>> \o r
<1>1. /\ u \in Seq(Positions) /\ Len(u) \in Nat /\ q \in Seq(Positions) /\ Len(q) \in Nat
      /\ x \in Positions
  BY ListFacts
<1>2. PICK k \in 1 .. Len(q) : q[k] = x /\ \A i \in 1 .. Len(q) : q[i] = x => i = k
  <2>1. PICK k \in 1 .. Len(q) : q[k] = x
    BY ListFacts
  <2>2. \A i, j \in 1 .. Len(q) : q[i] = q[j] => i = j
    BY ListFacts
  <2> QED BY <2>1, <2>2
<1>3. k \in 1 .. Len(u) /\ u[k] = x /\ \A i \in 1 .. Len(u) : u[i] = x => i = k
  <2>1. k \in 1 .. Len(u) /\ u[k] = x
    BY <1>1, <1>2 DEF Recent
  <2>2. \A i, j \in 1 .. Len(u) : u[i] = u[j] => i = j
    BY ListFacts
  <2> QED BY <2>1, <2>2
<1>4. /\ Len(v) = Len(u) - 1
      /\ \A i \in 1 .. Len(u) - 1 : v[i] = IF i < k THEN u[i] ELSE u[i + 1]
  BY <1>1, <1>3, RemoveFirstIs
<1>5. /\ Len(r) = Len(q) - 1
      /\ \A i \in 1 .. Len(q) - 1 : r[i] = IF i < k THEN q[i] ELSE q[i + 1]
  BY <1>1, <1>2, RemoveFirstIs
<1>6. /\ Len(w) = Len(v) + 1 /\ w[1] = x
      /\ \A i \in 2 .. Len(w) : w[i] = v[i - 1]
  BY <1>1, UsedAgain
<1>7. /\ Len(t) = Len(r) + 1 /\ t[1] = x
      /\ \A i \in 2 .. Len(t) : t[i] = r[i - 1]
  BY <1>1, UsedAgain
<1> HIDE DEF v, w, r, t
<1>8. Len(t) = Len(q) /\ Len(w) = Len(u)
  BY <1>1, <1>4, <1>5, <1>6, <1>7
<1>9. ASSUME NEW i \in 1 .. Len(t) PROVE t[i] = w[i]
  <2>1. CASE i = 1
    BY <1>6, <1>7, <2>1
  <2>2. CASE i # 1
    <3>1. /\ i - 1 \in 1 .. Len(q) - 1 /\ i - 1 \in 1 .. Len(u) - 1
          /\ i \in 2 .. Len(t) /\ i \in 2 .. Len(w) /\ i \in 1 .. Len(q)
      BY <1>1, <1>8, <2>2 DEF Recent
    <3>2. /\ r[i - 1] = IF i - 1 < k THEN q[i - 1] ELSE q[i]
          /\ v[i - 1] = IF i - 1 < k THEN u[i - 1] ELSE u[i]
      BY <1>4, <1>5, <3>1
    <3>3. q[i] = u[i] /\ q[i - 1] = u[i - 1]
      BY <1>1, <3>1 DEF Recent
    <3>4. t[i] = r[i - 1] /\ w[i] = v[i - 1]
      BY <1>6, <1>7, <3>1
    <3> QED BY <3>2, <3>3, <3>4
  <2> QED BY <2>1, <2>2
<1>10. Recent(t, w, c)
  BY <1>8, <1>9 DEF Recent
<1> QED BY <1>10 DEF t, w, v, r

\* A put: x is pushed in front, and the last position falls out of a full list.
LEMMA RecentPut ==
    ASSUME NEW u, NEW m, ListOk(u, m), NEW q, NEW n, ListOk(q, n),
           NEW c \in Nat \ {0}, Recent(q, u, c), NEW x \in Positions, x \notin n
    PROVE  LET t == <<x>> \o q
               w == <<x>> \o RemoveFirst(u, x) IN
           /\ Len(t) <= c => Recent(t, w, c)
           /\ Len(t) > c => Recent(Front(t), w, c)
<1> DEFINE v == RemoveFirst(u, x)
           w == <<x>> \o v
           t == <<x>> \o q
<1>1. /\ u \in Seq(Positions) /\ Len(u) \in Nat /\ q \in Seq(Positions) /\ Len(q) \in Nat
  BY ListFacts
<1>2. \A i \in 1 .. Len(q) : q[i] # x
  BY ListFacts
<1>3. Len(t) = Len(q) + 1 /\ t[1] = x /\ \A i \in 2 .. Len(t) : t[i] = q[i - 1]
  BY <1>1
<1>4. /\ Len(w) = Len(v) + 1 /\ w[1] = x /\ Len(v) \in Nat
      /\ \A i \in 2 .. Len(w) : w[i] = v[i - 1]
  BY UsedAgain
<1>5. /\ Len(q) <= Len(v)
      /\ \A i \in 1 .. Len(q) : v[i] = q[i]
      /\ Len(u) < c => Len(v) = Len(u)
      /\ Len(u) >= c => Len(v) >= c - 1
      /\ Len(q) <= c /\ (Len(q) < c => Len(q) = Len(u))
  <2>1. CASE x \notin m
    <3>1. \A i \in 1 .. Len(u) : u[i] # x
      BY <2>1, ListFacts
    <3>2. v = u
      BY <1>1, <3>1, RemoveFirstIs
    <3> QED BY <1>1, <3>2 DEF Recent
  <2>2. CASE x \in m
    <3>1. PICK k \in 1 .. Len(u) : u[k] = x /\ \A i \in 1 .. Len(u) : u[i] = x => i = k
      <4>1. PICK k \in 1 .. Len(u) : u[k] = x
        BY <2>2, ListFacts
      <4>2. \A i, j \in 1 .. Len(u) : u[i] = u[j] => i = j
        BY ListFacts
      <4> QED BY <4>1, <4>2
    <3>2. /\ Len(v) = Len(u) - 1
          /\ \A i \in 1 .. Len(u) - 1 : v[i] = IF i < k THEN u[i] ELSE u[i + 1]
      BY <1>1, <3>1, RemoveFirstIs
    <3> HIDE DEF v
    <3>3. k > Len(q) /\ Len(q) = c /\ Len(u) > c - 1
      BY <1>1, <1>2, <3>1 DEF Recent
    <3> QED BY <1>1, <3>1, <3>2, <3>3 DEF Recent
  <2> QED BY <2>1, <2>2
<1> HIDE DEF v, w, t
<1>6. ASSUME NEW i \in 1 .. Len(t) PROVE i <= Len(w) /\ t[i] = w[i]
  <2>1. CASE i = 1
    BY <1>1, <1>3, <1>4, <2>1
  <2>2. CASE i # 1
    <3>1. /\ i - 1 \in 1 .. Len(q) /\ i \in 2 .. Len(t) /\ i \in 2 .. Len(w)
      BY <1>1, <1>3, <1>4, <1>5, <2>2
    <3>2. t[i] = q[i - 1] /\ w[i] = v[i - 1] /\ v[i - 1] = q[i - 1]
      BY <1>3, <1>4, <1>5, <3>1
    <3> QED BY <3>1, <3>2
  <2> QED BY <2>1, <2>2
<1>7. ASSUME Len(t) <= c PROVE Recent(t, w, c)
  BY <1>1, <1>3, <1>4, <1>5, <1>6, <1>7 DEF Recent
<1>8. ASSUME Len(t) > c PROVE Recent(Front(t), w, c)
  <2>1. Len(t) = c + 1
    BY <1>1, <1>3, <1>5, <1>8
  <2>2. Len(Front(t)) = c /\ \A i \in 1 .. c : Front(t)[i] = t[i]
    <3>1. t \in Seq(Positions)
      BY <1>1 DEF t
    <3>2. Front(t) = SubSeq(t, 1, c)
      BY <2>1 DEF Front
    <3> QED BY <2>1, <3>1, <3>2
  <2>3. Len(w) >= c
    BY <1>1, <1>3, <1>4, <1>5, <2>1
  <2> HIDE DEF Front
  <2> QED BY <1>1, <1>4, <1>6, <2>1, <2>2, <2>3 DEF Recent
<1> QED BY <1>7, <1>8 DEF t, w, v

\* The LRU list holds the positions of u used last; the other lists are not used.
LruGood(s, cached, u) ==
    /\ Wf(s) /\ ~s.popped
    /\ \A k \in Names \ {"lru"} : s.maps[k] = {}
    /\ Size(s, "lru") <= cache_size
    /\ Linked(s, cached)
    /\ \E m : ListOk(u, m)
    /\ Recent(s.lists["lru"], u, cache_size)

\* A put
LEMMA LruPut ==
    ASSUME NEW s, NEW u, LruGood(s, s.cached, u), cache_size \in Nat \ {0},
           NEW x \in Positions, x \notin s.cached, x \notin removed
    PROVE  LET t == LruPutMiss(s, x) IN
           LruGood(t, t.cached \cup {x}, <<x>> \o RemoveFirst(u, x))
<1> DEFINE a == PushFront(s, "lru", x)
           r == Last(a.lists["lru"])
           b == Uncache(a, r)
           d == PopBack(b, "lru")
           q == <<x>> \o s.lists["lru"]
           w == <<x>> \o RemoveFirst(u, x)
<1>1. /\ Wf(s) /\ ~s.popped /\ \A k \in Names \ {"lru"} : s.maps[k] = {}
      /\ Size(s, "lru") <= cache_size /\ Linked(s, s.cached)
      /\ Recent(s.lists["lru"], u, cache_size)
  BY DEF LruGood
<1>2. PICK m : ListOk(u, m)
  BY DEF LruGood
<1>3. "lru" \in Names /\ {"lru", "t1", "t2", "b1", "b2"} = Names
  BY DEF Names
<1>4. Unlisted(s, x)
  BY <1>1, <1>3 DEF Unlisted, Linked, Resident
<1>5. ListOk(s.lists["lru"], s.maps["lru"]) /\ x \notin s.maps["lru"]
  BY <1>1, <1>3, <1>4 DEF Wf, Unlisted
<1>6. /\ Len(q) <= cache_size => Recent(q, w, cache_size)
      /\ Len(q) > cache_size => Recent(Front(q), w, cache_size)
  BY <1>1, <1>2, <1>5, RecentPut
<1>7. \E n : ListOk(w, n)
  BY <1>2, UsedAgain
<1>8. /\ Relisted(s, a, "lru", q, s.maps["lru"] \cup {x})
      /\ Size(a, "lru") = Size(s, "lru") + 1 /\ Size(s, "lru") \in Nat
  BY <1>1, <1>3, <1>4, PushFrontIs
<1>9. ListOk(q, s.maps["lru"] \cup {x})
  BY <1>5, PushOk
<1>10. LruPutMiss(s, x) = IF Size(a, "lru") > cache_size THEN d ELSE a
  BY DEF LruPutMiss
<1> HIDE DEF a, q, w
<1>11. s.maps \in [Names -> SUBSET Positions] /\ s.lists \in [Names -> Seq(Positions)]
  BY <1>1, StateFields DEF Wf
<1>12. /\ Wf(a) /\ a.cached = s.cached /\ a.p = s.p /\ ~a.popped
       /\ a.lists["lru"] = q /\ a.maps["lru"] = s.maps["lru"] \cup {x}
       /\ \A k \in Names \ {"lru"} : a.maps[k] = {}
  BY <1>1, <1>3, <1>8, <1>11 DEF Relisted
<1>13. Size(a, "lru") = Len(q)
  BY <1>3, <1>12, SizesNat
<1>14. Resident(a) = a.maps["lru"] /\ Resident(s) = s.maps["lru"]
  BY <1>1, <1>3, <1>12 DEF Resident
<1>15. CASE Size(a, "lru") <= cache_size
  <2>1. LruPutMiss(s, x) = a
    BY <1>1, <1>8, <1>10, <1>15
  <2>2. Linked(a, a.cached \cup {x})
    BY <1>1, <1>12, <1>14 DEF Linked
  <2>3. Recent(a.lists["lru"], w, cache_size)
    BY <1>6, <1>12, <1>13, <1>15
  <2>4. LruGood(a, a.cached \cup {x}, w)
    BY <1>7, <1>12, <1>15, <2>2, <2>3 DEF LruGood
  <2> QED BY <2>1, <2>4 DEF w
<1>16. CASE Size(a, "lru") > cache_size
  <2>1. LruPutMiss(s, x) = d
    BY <1>10, <1>16
  <2>2. Len(q) = cache_size + 1 /\ q # <<>>
    BY <1>1, <1>8, <1>13, <1>16
  <2>3. r = Last(q)
    BY <1>12
  <2>4. r # x
    <3>1. q[1] = x /\ q[Len(q)] = r
      <4>1. q[1] = x
        BY <1>3, <1>11 DEF q
      <4> QED BY <2>3, <4>1 DEF Last
    <3>2. 1 \in 1 .. Len(q) /\ Len(q) \in 1 .. Len(q) /\ Len(q) # 1
      BY <2>2
    <3>3. \A i, j \in 1 .. Len(q) : q[i] = q[j] => i = j
      BY <1>9, ListFacts
    <3> QED BY <3>1, <3>2, <3>3
  <2>5. /\ Wf(b) /\ b.lists = a.lists /\ b.maps = a.maps /\ b.cached = a.cached \ {r}
        /\ b.p = a.p /\ b.popped = a.popped
        /\ \A k \in Names : Size(b, k) = Size(a, k)
    BY <1>12, UncacheIs
  <2>6. b.lists["lru"] # <<>> /\ r = Last(b.lists["lru"]) /\ b.lists["lru"] = q
    BY <1>12, <2>2, <2>3, <2>5
  <2> HIDE DEF b, r
  <2>7. /\ Relisted(b, d, "lru", Front(q), b.maps["lru"] \ {r})
        /\ Size(d, "lru") = Size(b, "lru") - 1
    BY <1>3, <2>5, <2>6, PopBackIs
  <2> HIDE DEF d
  <2>8. b.maps \in [Names -> SUBSET Positions] /\ b.lists \in [Names -> Seq(Positions)]
    BY <2>5, StateFields DEF Wf
  <2>9. /\ Wf(d) /\ d.cached = b.cached /\ ~d.popped
        /\ d.lists["lru"] = Front(q) /\ d.maps["lru"] = b.maps["lru"] \ {r}
        /\ \A k \in Names \ {"lru"} : d.maps[k] = {}
    BY <1>3, <1>12, <2>5, <2>7, <2>8 DEF Relisted
  <2>10. Size(d, "lru") <= cache_size
    BY <1>3, <1>13, <2>2, <2>5, <2>7
  <2>11. Resident(d) = d.maps["lru"]
    BY <1>3, <2>9 DEF Resident
  <2>12. Linked(d, d.cached \cup {x})
    BY <1>1, <1>12, <1>14, <2>4, <2>5, <2>9, <2>11 DEF Linked
  <2>13. Recent(d.lists["lru"], w, cache_size)
    BY <1>6, <2>2, <2>9
  <2>14. LruGood(d, d.cached \cup {x}, w)
    BY <1>7, <2>9, <2>10, <2>12, <2>13 DEF LruGood
  <2> QED BY <2>1, <2>14 DEF w
<1> QED BY <1>1, <1>8, <1>15, <1>16

\* A hit
LEMMA LruHit ==
    ASSUME NEW s, NEW u, LruGood(s, s.cached, u), cache_size \in Nat, NEW x \in s.cached
    PROVE  LET t == LruGetHit(s, x) IN
           LruGood(t, t.cached, <<x>> \o RemoveFirst(u, x))
<1> DEFINE t == LruGetHit(s, x)
           w == <<x>> \o RemoveFirst(u, x)
           q == s.lists["lru"]
<1>1. /\ Wf(s) /\ ~s.popped /\ \A k \in Names \ {"lru"} : s.maps[k] = {}
      /\ Size(s, "lru") <= cache_size /\ Linked(s, s.cached)
      /\ Recent(q, u, cache_size)
  BY DEF LruGood
<1>2. PICK m : ListOk(u, m)
  BY DEF LruGood
<1>3. "lru" \in Names /\ {"lru", "t1", "t2", "b1", "b2"} = Names
  BY DEF Names
<1>4. ListOk(q, s.maps["lru"]) /\ x \in s.maps["lru"] /\ x \in Positions
  <2>1. ListOk(q, s.maps["lru"])
    BY <1>1, <1>3 DEF Wf
  <2>2. x \in s.maps["lru"]
    BY <1>1, <1>3 DEF Linked, Resident
  <2> QED BY <2>1, <2>2, ListFacts
<1>5. Recent(<<x>> \o RemoveFirst(q, x), w, cache_size)
  BY <1>1, <1>2, <1>4, RecentHit
<1>6. \E n : ListOk(w, n)
  BY <1>2, <1>4, UsedAgain
<1>7. Spliced(s, t, "lru", "lru", x)
  BY <1>1, <1>3, <1>4, SpliceIs DEF LruGetHit
<1> HIDE DEF t, w
<1>8. s.maps \in [Names -> SUBSET Positions] /\ s.lists \in [Names -> Seq(Positions)]
  BY <1>1, StateFields DEF Wf
<1>9. /\ Wf(t) /\ t.cached = s.cached /\ ~t.popped
      /\ t.lists["lru"] = <<x>> \o RemoveFirst(q, x)
      /\ t.maps["lru"] = s.maps["lru"]
      /\ \A k \in Names \ {"lru"} : t.maps[k] = s.maps[k]
      /\ Size(t, "lru") = Size(s, "lru")
  BY <1>1, <1>3, <1>4, <1>7, <1>8 DEF Spliced
<1>10. Resident(t) = Resident(s)
  BY <1>3, <1>9 DEF Resident
<1>11. LruGood(t, t.cached, w)
  BY <1>1, <1>5, <1>6, <1>9, <1>10 DEF LruGood, Linked
<1> QED BY <1>11 DEF t, w

-----------------------------------------------------------------------------
(* The cache *)

CacheInv ==
    /\ eviction \in {"LRU", "ARC"}
    /\ cache_size \in Nat
    /\ eviction = "ARC" => ArcGood(State, cache_map)
    /\ eviction = "LRU" => LruGood(State, cache_map, used)

\* The fields of the state
LEMMA StateIs ==
    /\ State.lists = lists /\ State.maps = maps /\ State.cached = cache_map
    /\ State.p = arc_p /\ State.popped = popped
BY DEF State

\* Becomes
LEMMA BecomesIs ==
    ASSUME NEW t, Wf(t), Becomes(t)
    PROVE  State' = t /\ cache_map' = t.cached
<1>1. t \in PolicyState
  BY DEF Wf
<1>2. t = Made(t.lists, t.maps, t.cached, t.p, t.popped)
  BY <1>1 DEF PolicyState, Made
<1> QED BY <1>2 DEF Becomes, State, Made

\* The cache takes the entry when the policy has made room for it.
LEMMA CacheIs ==
    ASSUME NEW s, Wf(s), NEW x \in Positions
    PROVE  LET t == [s EXCEPT !.cached = @ \cup {x}] IN
           /\ Wf(t)
           /\ t.lists = s.lists /\ t.maps = s.maps /\ t.cached = s.cached \cup {x}
           /\ t.p = s.p /\ t.popped = s.popped
           /\ \A k \in Names : Size(t, k) = Size(s, k)
<1> DEFINE t == [s EXCEPT !.cached = @ \cup {x}]
<1>1. s \in PolicyState
  BY DEF Wf
<1>2. t = Made(s.lists, s.maps, s.cached \cup {x}, s.p, s.popped)
  BY <1>1, ExceptCached
<1>3. /\ t.lists = s.lists /\ t.maps = s.maps /\ t.cached = s.cached \cup {x}
      /\ t.p = s.p /\ t.popped = s.popped
  BY <1>2 DEF Made
<1>4. t \in PolicyState
  BY <1>1, <1>2, StateFields DEF PolicyState, Made
<1> HIDE DEF t
<1>5. Wf(t) /\ \A k \in Names : Size(t, k) = Size(s, k)
  BY <1>3, <1>4 DEF Wf, Size
<1> QED BY <1>3, <1>5 DEF t

\* Initially
LEMMA InitCache == Init => CacheInv
<1> SUFFICES ASSUME Init PROVE CacheInv
  OBVIOUS
<1> USE DEF Init
<1>1. cache_size \in Nat /\ eviction \in {"LRU", "ARC"} /\ used = <<>>
  BY CacheAssumption
<1>2. arc_p \in Int \cup {NaN}
  BY CacheAssumption
<1>3. /\ State.lists = [l \in Names |-> <<>>] /\ State.maps = [l \in Names |-> {}]
      /\ State.cached = {} /\ ~State.popped
  BY StateIs DEF Empty
<1>4. State \in PolicyState
  <2>1. lists = [l \in Names |-> <<>>] /\ maps = [l \in Names |-> {}]
    BY DEF Empty
  <2> HIDE DEF Init
  <2>2. lists \in [Names -> Seq(Positions)] /\ maps \in [Names -> SUBSET Positions]
    BY <2>1
  <2>3. cache_map \in SUBSET Positions /\ popped \in BOOLEAN
    BY DEF Init
  <2> QED BY <1>2, <2>2, <2>3 DEF PolicyState, State
<1>5. Wf(State)
  BY <1>3, <1>4, EmptyOk DEF Wf
<1>6. Resident(State) = {}
  BY <1>3 DEF Resident, Names
<1>7. \A l \in Names : Size(State, l) = 0
  BY <1>3, FS_EmptySet DEF Size
<1>8. Linked(State, cache_map)
  BY <1>6 DEF Linked
<1>9. Sized(State)
  BY <1>1, <1>3, <1>7 DEF Sized, Names
<1>10. ListOk(used, {})
  BY <1>1, EmptyOk
<1>11. Recent(State.lists["lru"], used, cache_size)
  BY <1>1, <1>3 DEF Recent, Names
<1>12. LruGood(State, cache_map, used)
  BY <1>1, <1>3, <1>5, <1>7, <1>8, <1>10, <1>11 DEF LruGood, Names
<1> QED BY <1>1, <1>3, <1>5, <1>8, <1>9, <1>12 DEF CacheInv, ArcGood

\* A good state is good after the step that makes it.
LEMMA StepMakes ==
    ASSUME cache_size \in Nat, eviction \in {"LRU", "ARC"},
           UNCHANGED <<eviction, cache_size, removed>>, NEW t, Becomes(t), NEW u,
           eviction = "ARC" => ArcGood(t, t.cached),
           eviction = "LRU" => LruGood(t, t.cached, u) /\ used' = u
    PROVE  CacheInv'
<1>1. Wf(t)
  BY DEF ArcGood, LruGood
<1>2. State' = t /\ cache_map' = t.cached
  BY <1>1, BecomesIs
<1>3. CASE eviction = "ARC"
  <2>1. ArcGood(State, cache_map)'
    BY <1>2, <1>3 DEF ArcGood, Sized, Linked
  <2> QED BY <1>3, <2>1 DEF CacheInv
<1>4. CASE eviction = "LRU"
  <2>1. LruGood(State, cache_map, used)'
    BY <1>2, <1>4 DEF LruGood, Linked
  <2> QED BY <1>4, <2>1 DEF CacheInv
<1> QED BY <1>3, <1>4

\* Put
LEMMA PutCache ==
    ASSUME CacheInv, NEW x \in Positions, NEW n \in DataSizes, Put(x, n)
    PROVE  CacheInv'
<1>1. CASE ~(cache_size > 0 /\ n < cache_size /\ x \notin cache_map)
  <2>1. UNCHANGED vars
    BY <1>1 DEF Put, vars
  <2> QED BY <2>1 DEF CacheInv, vars, State, ArcGood, LruGood, Sized, Linked
<1>2. CASE cache_size > 0 /\ n < cache_size /\ x \notin cache_map
  <2> DEFINE s == IF eviction = "LRU" THEN LruPutMiss(State, x) ELSE ArcPutMiss(State, x)
             t == [s EXCEPT !.cached = @ \cup {x}]
             u == <<x>> \o RemoveFirst(used, x)
  <2>1. /\ ~popped /\ x \notin removed /\ Becomes(t) /\ Use(x)
        /\ UNCHANGED <<eviction, cache_size, removed>>
    BY <1>2 DEF Put
  <2>2. cache_size \in Nat \ {0} /\ eviction \in {"LRU", "ARC"}
    BY <1>2 DEF CacheInv
  <2>3. State.cached = cache_map /\ State.popped = popped
    BY StateIs
  <2>4. ASSUME eviction = "ARC" PROVE ArcGood(s, s.cached \cup {x})
    <3>1. ArcGood(State, State.cached)
      BY <2>3, <2>4 DEF CacheInv
    <3>2. s = ArcPutMiss(State, x)
      BY <2>4
    <3> HIDE DEF s
    <3> QED BY <1>2, <2>1, <2>2, <2>3, <3>1, <3>2, ArcPut
  <2>5. ASSUME eviction = "LRU" PROVE LruGood(s, s.cached \cup {x}, u)
    <3>1. LruGood(State, State.cached, used)
      BY <2>3, <2>5 DEF CacheInv
    <3>2. s = LruPutMiss(State, x)
      BY <2>5
    <3> HIDE DEF s
    <3> QED BY <1>2, <2>1, <2>2, <2>3, <3>1, <3>2, LruPut
  <2> HIDE DEF s
  <2>6. Wf(s)
    BY <2>2, <2>4, <2>5 DEF ArcGood, LruGood
  <2>7. /\ Wf(t)
        /\ t.lists = s.lists /\ t.maps = s.maps /\ t.cached = s.cached \cup {x}
        /\ t.p = s.p /\ t.popped = s.popped
        /\ \A k \in Names : Size(t, k) = Size(s, k)
    BY <2>6, CacheIs
  <2>8. {"lru", "t1", "t2", "b1", "b2"} = Names /\ Resident(t) = Resident(s)
    BY <2>7 DEF Names, Resident
  <2> HIDE DEF t
  <2>9. eviction = "ARC" => ArcGood(t, t.cached)
    BY <2>4, <2>7, <2>8 DEF ArcGood, Sized, Linked
  <2>10. eviction = "LRU" => LruGood(t, t.cached, u)
    BY <2>5, <2>7, <2>8 DEF LruGood, Linked
  <2>11. eviction = "LRU" => used' = u
    BY <2>1 DEF Use
  <2> HIDE DEF u
  <2> QED BY <2>1, <2>2, <2>9, <2>10, <2>11, StepMakes
<1> QED BY <1>1, <1>2

\* Get
LEMMA GetCache ==
    ASSUME CacheInv, NEW x \in Positions, Get(x)
    PROVE  CacheInv'
<1>1. CASE x \notin cache_map
  <2>1. UNCHANGED vars
    BY <1>1 DEF Get, vars
  <2> QED BY <2>1 DEF CacheInv, vars, State, ArcGood, LruGood, Sized, Linked
<1>2. CASE x \in cache_map
  <2> DEFINE t == IF eviction = "LRU" THEN LruGetHit(State, x) ELSE ArcGetHit(State, x)
             u == <<x>> \o RemoveFirst(used, x)
  <2>1. ~popped /\ Becomes(t) /\ Use(x) /\ UNCHANGED <<eviction, cache_size, removed>>
    BY <1>2 DEF Get
  <2>2. cache_size \in Nat /\ eviction \in {"LRU", "ARC"}
    BY DEF CacheInv
  <2>3. State.cached = cache_map /\ State.popped = popped
    BY StateIs
  <2>4. ASSUME eviction = "ARC" PROVE ArcGood(t, t.cached)
    <3>1. ArcGood(State, State.cached)
      BY <2>3, <2>4 DEF CacheInv
    <3>2. t = ArcGetHit(State, x)
      BY <2>4
    <3> HIDE DEF t
    <3> QED BY <1>2, <2>1, <2>2, <2>3, <3>1, <3>2, ArcHit
  <2>5. ASSUME eviction = "LRU" PROVE LruGood(t, t.cached, u)
    <3>1. LruGood(State, State.cached, used)
      BY <2>3, <2>5 DEF CacheInv
    <3>2. t = LruGetHit(State, x)
      BY <2>5
    <3> HIDE DEF t
    <3> QED BY <1>2, <2>2, <2>3, <3>1, <3>2, LruHit
  <2>6. eviction = "LRU" => used' = u
    BY <2>1 DEF Use
  <2> HIDE DEF t, u
  <2> QED BY <2>1, <2>2, <2>4, <2>5, <2>6, StepMakes
<1> QED BY <1>1, <1>2

\* RemoveEntry
LEMMA RemoveCache ==
    ASSUME CacheInv, NEW x \in Positions, RemoveEntry(x)
    PROVE  CacheInv'
<1> DEFINE t == Uncache(State, x)
<1>1. /\ cache_map' = cache_map \ {x} /\ removed' = removed \cup {x}
      /\ UNCHANGED <<eviction, cache_size, lists, maps, arc_p, popped, used>>
  BY DEF RemoveEntry
<1>2. Wf(State) /\ cache_size \in Nat /\ eviction \in {"LRU", "ARC"}
  BY DEF CacheInv, ArcGood, LruGood
<1>3. /\ Wf(t)
      /\ t.lists = State.lists /\ t.maps = State.maps /\ t.cached = State.cached \ {x}
      /\ t.p = State.p /\ t.popped = State.popped
      /\ \A k \in Names : Size(t, k) = Size(State, k)
  BY <1>2, UncacheIs
<1> HIDE DEF t
<1>4. Becomes(t)
  BY <1>1, <1>3, StateIs DEF Becomes
<1>5. State' = t
  BY <1>3, <1>4, BecomesIs
<1>6. {"lru", "t1", "t2", "b1", "b2"} = Names /\ Resident(t) = Resident(State)
  BY <1>3 DEF Names, Resident
<1>7. ASSUME Linked(State, cache_map) PROVE Linked(State, cache_map)'
  BY <1>1, <1>5, <1>6, <1>7 DEF Linked
<1>8. ASSUME eviction = "ARC" PROVE ArcGood(State, cache_map)'
  <2>1. ArcGood(State, cache_map)
    BY <1>8 DEF CacheInv
  <2>2. Sized(State) => Sized(State)'
    BY <1>1, <1>3, <1>5, <1>6 DEF Sized
  <2> QED BY <1>3, <1>5, <1>7, <2>1, <2>2 DEF ArcGood
<1>9. ASSUME eviction = "LRU" PROVE LruGood(State, cache_map, used)'
  <2>1. LruGood(State, cache_map, used)
    BY <1>9 DEF CacheInv
  <2> QED BY <1>1, <1>3, <1>5, <1>6, <1>7, <2>1 DEF LruGood
<1> QED BY <1>1, <1>2, <1>8, <1>9 DEF CacheInv

\* The inductive invariant of the cache: the policy's lists hold what can be evicted, each
\* position in one list at most, and the cache is full as soon as it has ghosts.
THEOREM CacheHolds == Spec => []CacheInv
<1>1. Init => CacheInv
  BY InitCache
<1>2. CacheInv /\ [Next]_vars => CacheInv'
  <2> SUFFICES ASSUME CacheInv, [Next]_vars PROVE CacheInv'
    OBVIOUS
  <2>1. CASE UNCHANGED vars
    BY <2>1 DEF CacheInv, vars, State, ArcGood, LruGood, Sized, Linked
  <2>2. CASE Next
    <3>1. PICK x \in Positions : Get(x) \/ RemoveEntry(x) \/ \E n \in DataSizes : Put(x, n)
      BY <2>2 DEF Next
    <3> QED BY <3>1, PutCache, GetCache, RemoveCache
  <2> QED BY <2>1, <2>2
<1> QED BY <1>1, <1>2, PTL DEF Spec

\* What the invariant says of the lists themselves
LEMMA CacheLists ==
    ASSUME CacheInv
    PROVE  /\ \A l \in Names : lists[l] \in Seq(Positions) /\ Len(lists[l]) \in Nat
           /\ \A l \in Names : ToSet(lists[l]) = maps[l]
           /\ \A l \in Names : Len(lists[l]) = Size(State, l)
<1>1. Wf(State)
  BY DEF CacheInv, ArcGood, LruGood
<1>2. ASSUME NEW l \in Names
      PROVE  /\ lists[l] \in Seq(Positions) /\ Len(lists[l]) \in Nat
             /\ ToSet(lists[l]) = maps[l] /\ Len(lists[l]) = Size(State, l)
  <2>1. ListOk(lists[l], maps[l])
    BY <1>1, StateIs DEF Wf
  <2>2. Len(lists[l]) \in Nat /\ lists[l] \in Seq(Positions)
    BY <2>1, ListFacts
  <2>3. ToSet(lists[l]) = maps[l]
    BY <2>1 DEF ToSet, ListOk
  <2>4. Len(lists[l]) = Size(State, l)
    BY <2>1, StateIs DEF Size, ListOk
  <2> QED BY <2>2, <2>3, <2>4
<1> QED BY <1>2

\* The elements of two lists, one after the other
LEMMA ToSetConcat ==
    ASSUME NEW a \in Seq(Positions), NEW b \in Seq(Positions)
    PROVE  a \o b \in Seq(Positions) /\ ToSet(a \o b) = ToSet(a) \cup ToSet(b)
<1> DEFINE c == a \o b
<1>1. /\ c \in Seq(Positions) /\ Len(c) = Len(a) + Len(b)
      /\ Len(a) \in Nat /\ Len(b) \in Nat
      /\ \A i \in 1 .. Len(c) : c[i] = IF i <= Len(a) THEN a[i] ELSE b[i - Len(a)]
  OBVIOUS
<1> HIDE DEF c
<1>2. ASSUME NEW y \in ToSet(a) PROVE y \in ToSet(c)
  <2>1. PICK i \in 1 .. Len(a) : y = a[i]
    BY <1>2 DEF ToSet
  <2>2. i \in 1 .. Len(c) /\ c[i] = y
    BY <1>1, <2>1
  <2> QED BY <2>2 DEF ToSet
<1>3. ASSUME NEW y \in ToSet(b) PROVE y \in ToSet(c)
  <2>1. PICK i \in 1 .. Len(b) : y = b[i]
    BY <1>3 DEF ToSet
  <2>2. /\ i + Len(a) \in 1 .. Len(c) /\ ~(i + Len(a) <= Len(a))
        /\ (i + Len(a)) - Len(a) = i
    BY <1>1, <2>1
  <2>3. c[i + Len(a)] = b[(i + Len(a)) - Len(a)]
    BY <1>1, <2>2
  <2>4. c[i + Len(a)] = y
    BY <2>1, <2>2, <2>3
  <2> QED BY <2>2, <2>4 DEF ToSet
<1>4. ASSUME NEW y \in ToSet(c) PROVE y \in ToSet(a) \cup ToSet(b)
  <2>1. PICK i \in 1 .. Len(c) : y = c[i]
    BY <1>4 DEF ToSet
  <2>2. CASE i <= Len(a)
    <3>1. i \in 1 .. Len(a) /\ y = a[i]
      BY <1>1, <2>1, <2>2
    <3> QED BY <3>1 DEF ToSet
  <2>3. CASE i > Len(a)
    <3>1. i - Len(a) \in 1 .. Len(b) /\ y = b[i - Len(a)]
      BY <1>1, <2>1, <2>3
    <3> QED BY <3>1 DEF ToSet
  <2> QED BY <1>1, <2>2, <2>3
<1> QED BY <1>1, <1>2, <1>3, <1>4 DEF c

\* Whatever was put, hit or removed, every cached entry is in a list that can still evict
\* it, and neither these lists nor ARC's ghosts (cache_put_miss) exceed the cache's size.
THEOREM SizesStay == Spec => []SizesBounded
<1>1. CacheInv => SizesBounded
  <2> SUFFICES ASSUME CacheInv, ~popped PROVE SizesBounded
    BY DEF SizesBounded
  <2> DEFINE q == lists["lru"] \o lists["t1"]
             r == q \o lists["t2"]
  <2>1. "lru" \in Names /\ {"lru", "t1", "t2", "b1", "b2"} = Names /\ cache_size \in Nat
    BY DEF Names, CacheInv
  <2>2. /\ lists["lru"] \in Seq(Positions) /\ lists["t1"] \in Seq(Positions)
        /\ lists["t2"] \in Seq(Positions)
        /\ ToSet(lists["lru"]) = maps["lru"] /\ ToSet(lists["t1"]) = maps["t1"]
        /\ ToSet(lists["t2"]) = maps["t2"]
    BY <2>1, CacheLists
  <2>3. q \in Seq(Positions) /\ ToSet(q) = maps["lru"] \cup maps["t1"]
    BY <2>2, ToSetConcat
  <2> HIDE DEF q
  <2>4. ToSet(r) = Resident(State)
    <3>1. ToSet(r) = ToSet(q) \cup ToSet(lists["t2"])
      BY <2>2, <2>3, ToSetConcat
    <3> QED BY <2>2, <2>3, <3>1, StateIs DEF Resident
  <2>5. /\ Len(lists["lru"]) = Size(State, "lru")
        /\ Len(lists["t1"]) = Size(State, "t1") /\ Len(lists["t2"]) = Size(State, "t2")
        /\ Len(lists["b1"]) = Size(State, "b1") /\ Len(lists["b2"]) = Size(State, "b2")
    BY <2>1, CacheLists
  <2>6. Wf(State) /\ Linked(State, cache_map)
    BY StateIs DEF CacheInv, ArcGood, LruGood
  <2>7. cache_map \subseteq ToSet(lists["lru"] \o lists["t1"] \o lists["t2"])
    BY <2>4, <2>6 DEF Linked, q
  <2>8. /\ Size(State, "lru") \in Nat
        /\ Size(State, "t1") \in Nat /\ Size(State, "t2") \in Nat
        /\ Size(State, "b1") \in Nat /\ Size(State, "b2") \in Nat
    BY <2>6, AllSizes
  <2>9. CASE eviction = "ARC"
    <3>1. Sized(State)
      BY <2>9, StateIs DEF CacheInv, ArcGood
    <3>2. Size(State, "lru") = 0
      BY <2>1, <2>6, <3>1, SizesNat DEF Sized
    <3> QED BY <2>1, <2>5, <2>7, <2>8, <3>1, <3>2 DEF SizesBounded, Sized
  <2>10. CASE eviction = "LRU"
    <3>1. /\ \A k \in Names \ {"lru"} : State.maps[k] = {}
          /\ Size(State, "lru") <= cache_size
      BY <2>10 DEF CacheInv, LruGood
    <3>2. /\ Size(State, "t1") = 0 /\ Size(State, "t2") = 0
          /\ Size(State, "b1") = 0 /\ Size(State, "b2") = 0
      BY <2>1, <2>6, <3>1, SizesNat
    <3> QED BY <2>1, <2>5, <2>7, <2>8, <3>1, <3>2 DEF SizesBounded
  <2> QED BY <2>9, <2>10 DEF CacheInv
<1> QED BY <1>1, CacheHolds, PTL

\* No empty list is popped (ARC::replace), unless arc_p started as no number.
THEOREM PopsFilled == Spec => []PopsOnlyFilled
<1>1. CacheInv => PopsOnlyFilled
  BY StateIs DEF CacheInv, ArcGood, LruGood, PopsOnlyFilled
<1> QED BY <1>1, CacheHolds, PTL

\* The LRU list is what was put or hit last, in the order of use, and as much of it as
\* the cache holds (LRU::cache_put_miss, cache_get_hit).
THEOREM LruMostRecent == Spec => []MostRecentKept
<1>1. CacheInv => MostRecentKept
  <2> SUFFICES ASSUME CacheInv, eviction = "LRU" PROVE MostRecentKept
    BY DEF MostRecentKept
  <2> DEFINE n == IF Len(used) < cache_size THEN Len(used) ELSE cache_size
             q == lists["lru"]
             r == SubSeq(used, 1, n)
  <2>1. Recent(q, used, cache_size) /\ cache_size \in Nat
    <3>1. LruGood(State, cache_map, used) /\ cache_size \in Nat
      BY DEF CacheInv
    <3>2. Recent(State.lists["lru"], used, cache_size)
      BY <3>1 DEF LruGood
    <3>3. State.lists = lists
      BY StateIs
    <3> QED BY <3>1, <3>2, <3>3
  <2>2. PICK m : ListOk(used, m)
    BY DEF CacheInv, LruGood
  <2>3. used \in Seq(Positions) /\ Len(used) \in Nat
    BY <2>2, ListFacts
  <2>4. q \in Seq(Positions)
    BY CacheLists DEF Names
  <2>5. n \in 0 .. Len(used)
    BY <2>1, <2>3
  <2>6. Len(q) = n /\ \A i \in 1 .. n : q[i] = used[i]
    BY <2>1 DEF Recent
  <2> HIDE DEF n
  <2>7. r \in Seq(Positions) /\ Len(r) = n /\ \A i \in 1 .. n : r[i] = used[i]
    BY <2>3, <2>5
  <2> HIDE DEF q, r
  <2>8. q = r
    BY <2>4, <2>6, <2>7, SeqEqual
  <2> QED BY <2>8 DEF MostRecentKept, q, r, n
<1> QED BY <1>1, CacheHolds, PTL
==============================================================================
