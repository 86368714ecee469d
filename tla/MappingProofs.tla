---------------------------- MODULE MappingProofs ----------------------------
(***************************************************************************)
(* The arithmetic of the object map names one object per position, as      *)
(* counting stripes from the start of the log does, for words of any size  *)
(* and any mix of stripe widths.                                           *)
(***************************************************************************)
EXTENDS Mapping, FunctionTheorems, FiniteSetTheorems, WellFoundedInduction, TLAPS

-----------------------------------------------------------------------------
(* Numbers *)

\* A set of numbers has a least element,
LEMMA Least ==
    ASSUME NEW S, S \subseteq Nat, S # {}
    PROVE  \E n \in S : \A y \in S : n <= y
<1>1. PICK n \in S : \A y \in S : ~ (<<y, n>> \in OpToRel(<, Nat))
  BY NatLessThanWellFounded, WFMin
<1>2. ASSUME NEW y \in S, y < n PROVE FALSE
  <2>1. <<y, n>> \in OpToRel(<, Nat)
    BY <1>2 DEF OpToRel
  <2> QED BY <1>1, <2>1
<1>3. \A y \in S : n <= y
  BY <1>2
<1> QED BY <1>3

\* and, if it is bounded, a largest one.
LEMMA Largest ==
    ASSUME NEW S, S \subseteq Nat, S # {}, NEW b \in Nat, \A y \in S : y <= b
    PROVE  \E n \in S : \A y \in S : n >= y
<1> DEFINE U == {u \in Nat : \A y \in S : y <= u}
<1>1. U \subseteq Nat /\ b \in U
  OBVIOUS
<1>2. PICK n \in U : \A u \in U : n <= u
  <2> HIDE DEF U
  <2> QED BY <1>1, Least
<1>3. ASSUME n \notin S PROVE FALSE
  <2>1. \A y \in S : y \in Nat /\ y < n
    BY <1>3
  <2>2. PICK y \in S : y \in Nat /\ y < n
    BY <2>1
  <2>3. n \in Nat /\ n > 0
    BY <1>2, <2>2
  <2>4. \A z \in S : z <= n - 1
    BY <2>1, <2>3
  <2>5. n - 1 \in U
    BY <2>3, <2>4
  <2> QED BY <1>2, <2>3, <2>5
<1> QED BY <1>2, <1>3

\* Max and Min
LEMMA MaxIs ==
    ASSUME NEW S, S \subseteq Nat, S # {}, NEW b \in Nat, \A y \in S : y <= b
    PROVE  Max(S) \in S /\ Max(S) \in Nat /\ \A y \in S : Max(S) >= y
<1>1. \E n \in S : \A y \in S : n >= y
  BY Largest
<1> QED BY <1>1 DEF Max

\* (the same for the least element)
LEMMA MinIs ==
    ASSUME NEW S, S \subseteq Nat, S # {}
    PROVE  Min(S) \in S /\ Min(S) \in Nat /\ \A y \in S : Min(S) <= y
<1>1. \E n \in S : \A y \in S : n <= y
  BY Least
<1> QED BY <1>1 DEF Min

\* Max of a set known to have this one
LEMMA MaxOf ==
    ASSUME NEW S, S \subseteq Nat, NEW n \in S, \A y \in S : n >= y
    PROVE  Max(S) = n
<1>1. Max(S) \in S /\ Max(S) >= n
  BY DEF Max
<1>2. Max(S) \in Nat /\ n \in Nat /\ n >= Max(S)
  BY <1>1
<1> QED BY <1>1, <1>2

\* Products of numbers
LEMMA Products ==
    ASSUME NEW a \in Nat, NEW b \in Nat, NEW c \in Nat
    PROVE  /\ a * b \in Nat /\ a * b = b * a
           /\ a * b * c = a * (b * c)
           /\ a <= b => a * c <= b * c
           /\ (a + 1) * c = a * c + c
           /\ (a + b) * c = a * c + b * c
           /\ b > 0 => a <= a * b
           /\ a > 0 /\ b > 0 => a * b > 0
<1>1. a * b \in Nat /\ a * b = b * a
  OBVIOUS
<1>2. a * b * c = a * (b * c)
  OBVIOUS
<1>3. (a + b) * c = a * c + b * c /\ (a + 1) * c = a * c + c
  OBVIOUS
<1>4. ASSUME a <= b PROVE a * c <= b * c
  <2>1. b - a \in Nat /\ b = a + (b - a)
    BY <1>4
  <2>2. (b - a) * c \in Nat
    BY <2>1
  <2>3. b * c = a * c + (b - a) * c
    BY <2>1
  <2>4. a * c \in Nat /\ b * c \in Nat
    OBVIOUS
  <2> QED BY <2>2, <2>3, <2>4
<1>5. ASSUME b > 0 PROVE a <= a * b
  <2>1. b - 1 \in Nat
    BY <1>5
  <2>2. a * (b - 1) \in Nat
    BY <2>1
  <2>3. a * b = a * (b - 1) + a
    BY <2>1
  <2> QED BY <2>2, <2>3
<1>6. a > 0 /\ b > 0 => a * b > 0
  BY <1>1, <1>5
<1> QED BY <1>1, <1>2, <1>3, <1>4, <1>5, <1>6

\* Quotient and remainder
LEMMA Division ==
    ASSUME NEW a \in Nat, NEW b \in Nat, b > 0
    PROVE  /\ a \div b \in Nat /\ a % b \in Nat /\ a % b < b
           /\ a = (a \div b) * b + (a % b)
<1>1. a \div b \in Nat /\ a % b \in Nat /\ a % b < b
  OBVIOUS
<1>2. a = b * (a \div b) + (a % b)
  BY Z3
<1>3. (a \div b) * b = b * (a \div b)
  BY <1>1, Products
<1> QED BY <1>1, <1>2, <1>3

\* and that there is no other.
LEMMA Quotient ==
    ASSUME NEW b \in Nat, b > 0, NEW q \in Nat, NEW r \in Nat, r < b
    PROVE  (q * b + r) \div b = q /\ (q * b + r) % b = r
<1> DEFINE a == q * b + r
           p == a \div b
           s == a % b
<1>1. a \in Nat /\ q * b \in Nat
  BY Products
<1>2. p \in Nat /\ s \in Nat /\ s < b /\ a = p * b + s
  <2> HIDE DEF a
  <2> QED BY <1>1, Division
<1> HIDE DEF p, s
<1>3. ASSUME p < q PROVE FALSE
  <2>1. (p + 1) * b <= q * b /\ (p + 1) * b = p * b + b /\ p * b \in Nat
    BY <1>2, <1>3, Products
  <2> QED BY <1>1, <1>2, <2>1
<1>4. ASSUME p > q PROVE FALSE
  <2>1. (q + 1) * b <= p * b /\ (q + 1) * b = q * b + b /\ p * b \in Nat
    BY <1>2, <1>4, Products
  <2> QED BY <1>1, <1>2, <2>1
<1>5. p = q
  BY <1>2, <1>3, <1>4
<1>6. s = r
  BY <1>1, <1>2, <1>5
<1> QED BY <1>5, <1>6 DEF p, s, a

\* A quotient by its bounds
LEMMA Between ==
    ASSUME NEW a \in Nat, NEW b \in Nat, b > 0, NEW q \in Nat
    PROVE  /\ q * b <= a <=> q <= a \div b
           /\ a < q * b <=> a \div b < q
<1> DEFINE p == a \div b
<1>1. p \in Nat /\ a % b \in Nat /\ a % b < b /\ a = p * b + (a % b)
  BY Division
<1> HIDE DEF p
<1>2. p * b \in Nat /\ q * b \in Nat
  BY <1>1, Products
<1>3. ASSUME q <= p PROVE q * b <= a
  <2>1. q * b <= p * b
    BY <1>1, <1>3, Products
  <2> QED BY <1>1, <1>2, <2>1
<1>4. ASSUME p < q PROVE a < q * b
  <2>1. (p + 1) * b <= q * b /\ (p + 1) * b = p * b + b
    BY <1>1, <1>4, Products
  <2> QED BY <1>1, <1>2, <2>1
<1>5. q \in Nat /\ a \in Nat
  OBVIOUS
<1> QED BY <1>1, <1>2, <1>3, <1>4, <1>5 DEF p

\* Multiples
LEMMA Multiples ==
    ASSUME NEW b \in Nat, b > 0, NEW q \in Nat
    PROVE  (q * b) % b = 0 /\ (q * b) \div b = q
<1>1. (q * b + 0) \div b = q /\ (q * b + 0) % b = 0
  BY Quotient
<1>2. q * b + 0 = q * b
  BY Products
<1> QED BY <1>1, <1>2

\* The remainder does not see multiples.
LEMMA SameRemainder ==
    ASSUME NEW a \in Nat, NEW b \in Nat, b > 0, a % b = 0, NEW c \in Nat
    PROVE  (a + c) % b = c % b
<1> DEFINE q == a \div b
           p == c \div b
<1>1. q \in Nat /\ a = q * b
  BY Division
<1>2. p \in Nat /\ c % b \in Nat /\ c % b < b /\ c = p * b + (c % b)
  BY Division
<1> HIDE DEF q, p
<1>3. (q + p) * b = q * b + p * b /\ q + p \in Nat
  BY <1>1, <1>2, Products
<1>4. q * b \in Nat /\ p * b \in Nat
  BY <1>1, <1>2, Products
<1>5. a + c = (q + p) * b + (c % b)
  <2> DEFINE x == q * b
             y == p * b
             z == (q + p) * b
  <2>1. x \in Nat /\ y \in Nat /\ z = x + y /\ a = x /\ c = y + (c % b) /\ c % b \in Nat
    BY <1>1, <1>2, <1>3, <1>4
  <2> HIDE DEF x, y, z
  <2>2. a + c = z + (c % b)
    BY <2>1
  <2> QED BY <2>2 DEF z
<1>6. ((q + p) * b + (c % b)) % b = c % b
  BY <1>2, <1>3, Quotient
<1> QED BY <1>5, <1>6

-----------------------------------------------------------------------------
(* Maps *)

\* A MultiStripe that the constructor admits and nothing wrapped around in
StripeOk(m) ==
    /\ m \in MultiStripes
    /\ m.width > 0 /\ m.slots > 0 /\ m.instances > 0
    /\ m.max_position = m.min_position + m.instances * (m.width * m.slots) - 1
    /\ m.max_position < Word64

MapOk(map) == Typed(map) /\ Sound(map) /\ \A k \in Keys(map) : StripeOk(map.stripes[k])

\* The first id, the number and the size of the stripes of the MultiStripe at k, and the
\* position after its last
Base(map, k) == map.stripes[k].base_id
Inst(map, k) == map.stripes[k].instances
Per(map, k) == map.stripes[k].width * map.stripes[k].slots
End(map, k) == map.stripes[k].max_position + 1

\* The MultiStripes cover the positions and the stripe ids without a gap.
Tiled(map) ==
    /\ Keys(map) \subseteq Nat
    /\ \A k \in Keys(map) :
         /\ map.stripes[k].min_position = k /\ map.stripes[k].max_position \in Nat
         /\ map.stripes[k].width \in Nat /\ map.stripes[k].slots \in Nat
         /\ map.stripes[k].width > 0 /\ map.stripes[k].slots > 0
         /\ Base(map, k) \in Nat /\ Inst(map, k) \in Nat /\ Per(map, k) \in Nat
         /\ Inst(map, k) > 0 /\ Per(map, k) > 0
         /\ End(map, k) \in Nat /\ End(map, k) = k + Inst(map, k) * Per(map, k)
         /\ End(map, k) <= Word64
         /\ k # 0 => \E j \in Keys(map) :
                       /\ j < k /\ \A i \in Keys(map) : i < k => i <= j
                       /\ End(map, j) = k /\ Base(map, j) + Inst(map, j) = Base(map, k)
    /\ Keys(map) # {} =>
         /\ 0 \in Keys(map) /\ Base(map, 0) = 0
         /\ last_key(map) \in Keys(map) /\ \A k \in Keys(map) : k <= last_key(map)
         /\ map.next_stripe_id = Base(map, last_key(map)) + Inst(map, last_key(map))

\* The words
LEMMA Words == Word32 \in Nat /\ Word32 > 0 /\ Word64 \in Nat /\ Word32 <= Word64
BY MappingAssumption, Products

\* Sound maps are tiled.
LEMMA OkTiled == ASSUME NEW map, MapOk(map) PROVE Tiled(map)
<1> DEFINE K == Keys(map)
<1>1. /\ K \subseteq 0 .. Word64 - 1 /\ map.stripes \in [K -> MultiStripes]
      /\ map.next_stripe_id \in Nat
  BY DEF MapOk, Typed
<1>2. Word64 \in Nat
  BY Words
<1>3. K \subseteq Nat /\ \A k \in K : k <= Word64
  BY <1>1, <1>2
<1>4. valid(map) /\ \A k \in K : StripeOk(map.stripes[k])
  BY DEF MapOk, Sound
<1>5. ASSUME NEW k \in K
      PROVE  /\ map.stripes[k].min_position = k /\ map.stripes[k].max_position \in Nat
             /\ map.stripes[k].width \in Nat /\ map.stripes[k].slots \in Nat
             /\ map.stripes[k].width > 0 /\ map.stripes[k].slots > 0
             /\ Base(map, k) \in Nat /\ Inst(map, k) \in Nat /\ Per(map, k) \in Nat
             /\ Inst(map, k) > 0 /\ Per(map, k) > 0
             /\ End(map, k) \in Nat /\ End(map, k) = k + Inst(map, k) * Per(map, k)
             /\ End(map, k) <= Word64
  <2> DEFINE m == map.stripes[k]
  <2>1. m \in MultiStripes /\ m.min_position = k
    BY <1>1, <1>4 DEF valid
  <2>2. StripeOk(m)
    BY <1>4
  <2> HIDE DEF m
  <2>3. /\ m.base_id \in Nat /\ m.width \in Nat /\ m.slots \in Nat /\ m.instances \in Nat
        /\ m.max_position \in Nat
    BY <2>1 DEF MultiStripes
  <2>4. /\ m.width > 0 /\ m.slots > 0 /\ m.instances > 0 /\ m.max_position < Word64
        /\ m.max_position = k + m.instances * (m.width * m.slots) - 1
    BY <2>1, <2>2 DEF StripeOk
  <2>5. m.width * m.slots \in Nat /\ m.width * m.slots > 0
    BY <2>3, <2>4, Products
  <2>6. m.instances * (m.width * m.slots) \in Nat
    BY <2>3, <2>5, Products
  <2>7. m.max_position + 1 = k + m.instances * (m.width * m.slots)
        /\ m.max_position + 1 \in Nat /\ m.max_position + 1 <= Word64
    <3> DEFINE z == m.instances * (m.width * m.slots)
    <3>1. z \in Nat /\ m.max_position = k + z - 1 /\ k \in Nat
      BY <1>3, <2>4, <2>6
    <3> HIDE DEF z
    <3>2. m.max_position + 1 = k + z
      BY <3>1
    <3> QED BY <1>2, <2>3, <2>4, <3>2 DEF z
  <2> QED BY <2>1, <2>3, <2>4, <2>5, <2>7 DEF m, Base, Inst, Per, End
<1>6. ASSUME NEW k \in K, k # 0
      PROVE  \E j \in K : /\ j < k /\ \A i \in K : i < k => i <= j
                          /\ End(map, j) = k /\ Base(map, j) + Inst(map, j) = Base(map, k)
  <2> DEFINE S == {j \in K : j < k}
             j == Max(S)
  <2>1. 0 \in K
    BY <1>4 DEF valid
  <2>2. S \subseteq Nat /\ 0 \in S /\ k \in Nat /\ \A y \in S : y <= k
    BY <1>3, <1>6, <2>1
  <2>3. j \in S /\ \A y \in S : j >= y
    <3> HIDE DEF S
    <3> QED BY <2>2, MaxIs
  <2>4. /\ map.stripes[j].max_position + 1 = k
        /\ max_stripe_id(map.stripes[j]) + 1 = map.stripes[k].base_id
    BY <1>4, <1>6 DEF valid
  <2> HIDE DEF j
  <2>5. j \in K /\ j < k /\ \A i \in K : i < k => i <= j
    BY <1>3, <2>3
  <2>6. Base(map, j) \in Nat /\ Inst(map, j) \in Nat
    BY <1>5, <2>5
  <2>7. End(map, j) = k /\ Base(map, j) + Inst(map, j) = Base(map, k)
    BY <2>4, <2>6 DEF End, Base, Inst, max_stripe_id
  <2> QED BY <2>5, <2>7
<1>7. ASSUME K # {}
      PROVE  /\ 0 \in K /\ Base(map, 0) = 0
             /\ last_key(map) \in K /\ \A k \in K : k <= last_key(map)
             /\ map.next_stripe_id = Base(map, last_key(map)) + Inst(map, last_key(map))
  <2>1. 0 \in K /\ Base(map, 0) = 0
    BY <1>4, <1>7 DEF valid, Base
  <2>2. last_key(map) \in K /\ \A k \in K : last_key(map) >= k
    BY <1>2, <1>3, <1>7, MaxIs DEF last_key
  <2>3. \A k \in K : k <= last_key(map)
    BY <1>3, <2>2
  <2>4. map.next_stripe_id = max_stripe_id(map.stripes[last_key(map)]) + 1
    BY <1>4, <1>7 DEF valid
  <2>5. Base(map, last_key(map)) \in Nat /\ Inst(map, last_key(map)) \in Nat
    BY <1>5, <2>2
  <2> QED BY <2>1, <2>2, <2>3, <2>4, <2>5 DEF Base, Inst, max_stripe_id
<1> QED BY <1>3, <1>5, <1>6, <1>7 DEF Tiled

\* MultiStripes follow each other, in positions and in ids.
LEMMA Chained ==
    ASSUME NEW map, Tiled(map), NEW j \in Keys(map), NEW k \in Keys(map), j < k
    PROVE  End(map, j) <= k /\ Base(map, j) + Inst(map, j) <= Base(map, k)
<1> DEFINE Bad == {i \in Keys(map) : j < i /\ ~(End(map, j) <= i
                                        /\ Base(map, j) + Inst(map, j) <= Base(map, i))}
<1>1. Bad \subseteq Nat
  BY DEF Tiled
<1>2. ASSUME Bad # {} PROVE FALSE
  <2>1. PICK i \in Bad : \A y \in Bad : i <= y
    <3> HIDE DEF Bad
    <3> QED BY <1>1, <1>2, Least
  <2>2. i \in Keys(map) /\ j < i /\ i \in Nat /\ j \in Nat
    BY DEF Tiled
  <2>3. PICK p \in Keys(map) : /\ p < i /\ \A l \in Keys(map) : l < i => l <= p
                               /\ End(map, p) = i /\ Base(map, p) + Inst(map, p) = Base(map, i)
    BY <2>2 DEF Tiled
  <2>4. j <= p /\ p \in Nat
    BY <2>2, <2>3 DEF Tiled
  <2>5. j # p
    <3> SUFFICES ASSUME j = p PROVE FALSE
      OBVIOUS
    <3>1. End(map, j) = i /\ Base(map, j) + Inst(map, j) = Base(map, i)
      BY <2>3
    <3>2. Base(map, i) \in Nat
      BY <2>2 DEF Tiled
    <3> QED BY <2>2, <3>1, <3>2
  <2>6. j < p
    BY <2>2, <2>4, <2>5
  <2>7. End(map, j) <= p /\ Base(map, j) + Inst(map, j) <= Base(map, p)
    <3>1. p \notin Bad
      BY <2>1, <2>2, <2>3, <2>4
    <3> QED BY <2>6, <3>1
  <2>8. /\ Base(map, p) \in Nat /\ Inst(map, p) \in Nat /\ Base(map, i) \in Nat
        /\ Base(map, j) \in Nat /\ Inst(map, j) \in Nat /\ End(map, j) \in Nat
    BY <2>2 DEF Tiled
  <2>9. End(map, j) <= i /\ Base(map, j) + Inst(map, j) <= Base(map, i)
    BY <2>2, <2>3, <2>4, <2>7, <2>8
  <2> QED BY <2>9
<1> QED BY <1>2

\* The MultiStripe below a position, as map finds it
KeyAt(map, p) == Max({k \in Keys(map) : k <= p})

\* It is the one with the largest key that is not above.
LEMMA KeyAtIs ==
    ASSUME NEW map, Tiled(map), Keys(map) # {}, NEW p \in Nat
    PROVE  /\ KeyAt(map, p) \in Keys(map) /\ KeyAt(map, p) \in Nat /\ KeyAt(map, p) <= p
           /\ \A i \in Keys(map) : i <= p => i <= KeyAt(map, p)
<1> DEFINE S == {k \in Keys(map) : k <= p}
<1>1. S \subseteq Nat /\ 0 \in S /\ \A y \in S : y <= p
  BY DEF Tiled
<1>2. Max(S) \in S /\ Max(S) \in Nat /\ \A y \in S : Max(S) >= y
  <2> HIDE DEF S
  <2> QED BY <1>1, MaxIs
<1>3. \A i \in Keys(map) : i \in Nat
  BY DEF Tiled
<1> QED BY <1>2, <1>3 DEF KeyAt

\* What the maps of a tiled map are made of
LEMMA TileAt ==
    ASSUME NEW map, Tiled(map), NEW k \in Keys(map)
    PROVE  /\ k \in Nat /\ map.stripes[k].min_position = k
           /\ Base(map, k) \in Nat /\ Inst(map, k) \in Nat /\ Per(map, k) \in Nat
           /\ Inst(map, k) > 0 /\ Per(map, k) > 0 /\ End(map, k) \in Nat
           /\ End(map, k) = k + Inst(map, k) * Per(map, k) /\ k < End(map, k)
           /\ Inst(map, k) * Per(map, k) \in Nat
           /\ End(map, k) <= Word64
           /\ last_key(map) \in Keys(map) /\ k <= last_key(map)
           /\ Base(map, k) + Inst(map, k) <= map.next_stripe_id
           /\ End(map, k) <= End(map, last_key(map))
           /\ map.next_stripe_id \in Nat
<1>1. /\ k \in Nat /\ map.stripes[k].min_position = k
      /\ Base(map, k) \in Nat /\ Inst(map, k) \in Nat /\ Per(map, k) \in Nat
      /\ Inst(map, k) > 0 /\ Per(map, k) > 0 /\ End(map, k) \in Nat
      /\ End(map, k) = k + Inst(map, k) * Per(map, k) /\ End(map, k) <= Word64
  BY DEF Tiled
<1>2. Inst(map, k) * Per(map, k) \in Nat /\ Inst(map, k) * Per(map, k) > 0
  BY <1>1, Products
<1>3. k < End(map, k)
  BY <1>1, <1>2
<1>4. /\ last_key(map) \in Keys(map) /\ k <= last_key(map)
      /\ map.next_stripe_id = Base(map, last_key(map)) + Inst(map, last_key(map))
  BY DEF Tiled
<1>5. /\ last_key(map) \in Nat
      /\ Base(map, last_key(map)) \in Nat /\ Inst(map, last_key(map)) \in Nat
      /\ Inst(map, last_key(map)) > 0 /\ End(map, last_key(map)) \in Nat
      /\ Per(map, last_key(map)) \in Nat
      /\ End(map, last_key(map)) = last_key(map)
                                   + Inst(map, last_key(map)) * Per(map, last_key(map))
  BY <1>4 DEF Tiled
<1>6. Inst(map, last_key(map)) * Per(map, last_key(map)) \in Nat
  BY <1>5, Products
<1>7. /\ Base(map, k) + Inst(map, k) <= map.next_stripe_id
      /\ End(map, k) <= End(map, last_key(map))
  <2>1. CASE k = last_key(map)
    BY <1>1, <1>4, <1>5, <2>1
  <2>2. CASE k < last_key(map)
    <3>1. End(map, k) <= last_key(map)
          /\ Base(map, k) + Inst(map, k) <= Base(map, last_key(map))
      BY <1>4, <2>2, Chained
    <3> QED BY <1>1, <1>4, <1>5, <1>6, <3>1
  <2> QED BY <1>1, <1>4, <1>5, <2>1, <2>2
<1> QED BY <1>1, <1>2, <1>3, <1>4, <1>5, <1>7

\* The MultiStripe that a position is in
LEMMA KeyOf ==
    ASSUME NEW map, Tiled(map), NEW k \in Keys(map), NEW p \in Nat, k <= p, p < End(map, k)
    PROVE  KeyAt(map, p) = k
<1> DEFINE j == KeyAt(map, p)
<1>1. j \in Keys(map) /\ j \in Nat /\ j <= p /\ k <= j /\ k \in Nat
  BY KeyAtIs DEF Tiled
<1> HIDE DEF j
<1>2. ASSUME k < j PROVE FALSE
  <2>1. End(map, k) <= j /\ End(map, k) \in Nat
    BY <1>1, <1>2, Chained, TileAt
  <2> QED BY <1>1, <2>1
<1>3. j = k
  BY <1>1, <1>2
<1> QED BY <1>3 DEF j

\* A position is mapped if it is below the end.
LEMMA MapsIs ==
    ASSUME NEW map, Tiled(map), NEW p \in Nat
    PROVE  /\ Maps(map, p) <=> Keys(map) # {} /\ p < End(map, KeyAt(map, p))
           /\ Maps(map, p) <=> Keys(map) # {} /\ p < End(map, last_key(map))
           /\ Maps(map, p) => p < Word64
<1> DEFINE k == KeyAt(map, p)
           l == last_key(map)
<1>1. Keys(map) = {} => ~Maps(map, p)
  BY DEF Maps
<1>2. CASE Keys(map) # {}
  <2>1. k \in Keys(map) /\ k \in Nat /\ k <= p /\ \A i \in Keys(map) : i <= p => i <= k
    BY <1>2, KeyAtIs
  <2>2. Maps(map, p) <=> p <= map.stripes[k].max_position
    BY <1>2 DEF Maps, MultiStripeAt, KeyAt
  <2> HIDE DEF k
  <2>3. End(map, k) \in Nat /\ End(map, k) <= Word64 /\ End(map, k) <= End(map, l)
        /\ l \in Keys(map) /\ k <= l /\ l \in Nat /\ End(map, l) \in Nat
    BY <2>1, TileAt
  <2>4. map.stripes[k].max_position \in Int
    BY <2>1 DEF Tiled
  <2>5. Maps(map, p) <=> p < End(map, k)
    BY <2>2, <2>4 DEF End
  <2>6. ASSUME p < End(map, l) PROVE p < End(map, k)
    <3>1. CASE k = l
      BY <2>6, <3>1
    <3>2. CASE k # l
      <4> DEFINE S == {i \in Keys(map) : i > k}
      <4>1. S \subseteq Nat /\ l \in S
        BY <2>1, <2>3, <3>2 DEF Tiled
      <4>2. PICK n \in S : \A y \in S : n <= y
        <5> HIDE DEF S
        <5> QED BY <4>1, Least
      <4>3. n \in Keys(map) /\ n \in Nat /\ n > k /\ n > p
        <5>1. n \in Keys(map) /\ n \in Nat /\ n > k
          BY <4>1
        <5>2. ~(n <= p)
          BY <2>1, <5>1
        <5> QED BY <5>1, <5>2
      <4>4. PICK j \in Keys(map) : /\ j < n /\ \A i \in Keys(map) : i < n => i <= j
                                   /\ End(map, j) = n
        BY <2>1, <4>3 DEF Tiled
      <4>5. j \in Nat /\ k <= j
        BY <2>1, <4>3, <4>4 DEF Tiled
      <4>6. j = k
        <5>1. j \in Keys(map) /\ j < n
          BY <4>4
        <5>2. j \in S => n <= j
          BY <4>2
        <5>3. ~(j > k)
          BY <4>3, <4>5, <5>1, <5>2
        <5> QED BY <2>1, <4>5, <5>3
      <4> QED BY <4>3, <4>4, <4>6
    <3> QED BY <3>1, <3>2
  <2>7. p < End(map, k) => p < End(map, l)
    BY <2>3
  <2>8. p < End(map, k) => p < Word64
    BY <2>3, Words
  <2> QED BY <1>2, <2>5, <2>6, <2>7, <2>8 DEF k
<1> QED BY <1>1, <1>2

\* The stripe that a position is in, by its MultiStripe
StripeNo(map, p) ==
    Base(map, KeyAt(map, p)) + (p - KeyAt(map, p)) \div Per(map, KeyAt(map, p))

\* Where a mapped position is
LEMMA StripeNoIs ==
    ASSUME NEW map, Tiled(map), NEW p \in Nat, Maps(map, p)
    PROVE  LET k == KeyAt(map, p)
               n == (p - k) \div Per(map, k)
           IN
           /\ k \in Keys(map) /\ k <= p /\ p < End(map, k)
           /\ n \in Nat /\ n < Inst(map, k)
           /\ n * Per(map, k) <= p - k /\ p - k < (n + 1) * Per(map, k)
           /\ StripeNo(map, p) = Base(map, k) + n /\ StripeNo(map, p) \in Nat
           /\ StripeNo(map, p) < Base(map, k) + Inst(map, k)
           /\ StripeNo(map, p) < map.next_stripe_id
<1> DEFINE k == KeyAt(map, p)
           a == p - k
           b == Per(map, k)
           n == a \div b
<1>1. Keys(map) # {} /\ p < End(map, k)
  BY MapsIs
<1>2. k \in Keys(map) /\ k \in Nat /\ k <= p
  BY <1>1, KeyAtIs
<1> HIDE DEF k
<1>3. /\ Base(map, k) \in Nat /\ Inst(map, k) \in Nat /\ b \in Nat /\ b > 0
      /\ End(map, k) = k + Inst(map, k) * b
      /\ Base(map, k) + Inst(map, k) <= map.next_stripe_id /\ map.next_stripe_id \in Nat
      /\ Inst(map, k) * b \in Nat
  BY <1>2, TileAt
<1>4. a \in Nat /\ p = k + a
  BY <1>2
<1> HIDE DEF a, b
<1>5. n \in Nat
  BY <1>3, <1>4, Division
<1>6. a < Inst(map, k) * b
  BY <1>1, <1>2, <1>3, <1>4
<1>7. n < Inst(map, k)
  BY <1>3, <1>4, <1>6, Between
<1>8. n * b <= a /\ a < (n + 1) * b
  <2>1. n <= a \div b /\ a \div b < n + 1 /\ n + 1 \in Nat
    BY <1>5
  <2> HIDE DEF n
  <2> QED BY <1>3, <1>4, <1>5, <2>1, Between
<1>9. StripeNo(map, p) = Base(map, k) + n
  BY DEF StripeNo, k, a, b
<1> HIDE DEF n
<1>10. /\ StripeNo(map, p) \in Nat
       /\ StripeNo(map, p) < Base(map, k) + Inst(map, k)
       /\ StripeNo(map, p) < map.next_stripe_id
  BY <1>3, <1>5, <1>7, <1>9
<1> QED BY <1>1, <1>2, <1>5, <1>7, <1>8, <1>9, <1>10 DEF k, a, b, n

\* The MultiStripe that a stripe is in, as stripe_by_id finds it, and the stripe's first
\* position
IdAt(map, id) ==
    CHOOSE j \in Keys(map) :
      map.stripes[j].base_id <= id /\ id <= max_stripe_id(map.stripes[j])

First(map, id) ==
    IdAt(map, id) + (id - Base(map, IdAt(map, id))) * Per(map, IdAt(map, id))

\* The size of the stripe
PerAt(map, id) == Per(map, IdAt(map, id))

\* Every stripe id below the next is in one MultiStripe.
LEMMA IdAtIs ==
    ASSUME NEW map, Tiled(map), NEW id \in Nat, id < map.next_stripe_id, Keys(map) # {}
    PROVE  /\ IdAt(map, id) \in Keys(map)
           /\ Base(map, IdAt(map, id)) <= id
           /\ id < Base(map, IdAt(map, id)) + Inst(map, IdAt(map, id))
<1> DEFINE S == {k \in Keys(map) : Base(map, k) <= id}
           k == Max(S)
           l == last_key(map)
<1>1. S \subseteq Nat /\ 0 \in S
  BY DEF Tiled
<1>2. l \in Nat /\ \A y \in S : y <= l
  BY DEF Tiled
<1>3. k \in S /\ k \in Nat /\ \A y \in S : k >= y
  <2> HIDE DEF S, l
  <2> QED BY <1>1, <1>2, MaxIs
<1> HIDE DEF k
<1>4. k \in Keys(map) /\ Base(map, k) <= id
  BY <1>3
<1>5. Base(map, k) \in Nat /\ Inst(map, k) \in Nat
  BY <1>4, TileAt
<1>6. ASSUME ~(id < Base(map, k) + Inst(map, k)) PROVE FALSE
  <2>1. l \in Keys(map) /\ map.next_stripe_id = Base(map, l) + Inst(map, l)
        /\ \A i \in Keys(map) : i <= l
    BY DEF Tiled
  <2>2. k # l
    BY <1>5, <1>6, <2>1
  <2> DEFINE A == {i \in Keys(map) : i > k}
  <2>3. A \subseteq Nat /\ l \in A
    BY <1>3, <1>4, <2>1, <2>2 DEF Tiled
  <2>4. PICK n \in A : \A y \in A : n <= y
    <3> HIDE DEF A
    <3> QED BY <2>3, Least
  <2>5. n \in Keys(map) /\ n \in Nat /\ n > k
    BY <2>3
  <2>6. PICK j \in Keys(map) : /\ j < n /\ \A i \in Keys(map) : i < n => i <= j
                               /\ Base(map, j) + Inst(map, j) = Base(map, n)
    BY <1>3, <2>5 DEF Tiled
  <2>7. j \in Nat /\ k <= j
    BY <1>4, <2>5, <2>6 DEF Tiled
  <2>8. j = k
    <3>1. j \in A => n <= j
      BY <2>4
    <3>2. ~(j > k)
      BY <2>5, <2>6, <2>7, <3>1
    <3> QED BY <1>3, <2>7, <3>2
  <2>9. Base(map, n) <= id
    BY <1>5, <1>6, <2>6, <2>8
  <2>10. n \in S
    BY <2>5, <2>9
  <2> QED BY <1>3, <2>5, <2>10
<1>7. map.stripes[k].base_id <= id /\ id <= max_stripe_id(map.stripes[k])
  BY <1>4, <1>5, <1>6 DEF Base, Inst, max_stripe_id
<1> DEFINE j == IdAt(map, id)
<1>8. /\ j \in Keys(map) /\ map.stripes[j].base_id <= id
      /\ id <= max_stripe_id(map.stripes[j])
  BY <1>4, <1>7 DEF IdAt
<1> HIDE DEF j
<1>9. Base(map, j) \in Nat /\ Inst(map, j) \in Nat
  BY <1>8, TileAt
<1>10. Base(map, j) <= id /\ id < Base(map, j) + Inst(map, j)
  BY <1>8, <1>9 DEF Base, Inst, max_stripe_id
<1> QED BY <1>8, <1>10 DEF j

\* There is no other.
LEMMA IdOf ==
    ASSUME NEW map, Tiled(map), NEW id \in Nat, NEW k \in Keys(map),
           Base(map, k) <= id, id < Base(map, k) + Inst(map, k)
    PROVE  IdAt(map, id) = k /\ id < map.next_stripe_id
<1> DEFINE j == IdAt(map, id)
<1>1. /\ Base(map, k) \in Nat /\ Inst(map, k) \in Nat /\ k \in Nat
      /\ Base(map, k) + Inst(map, k) <= map.next_stripe_id /\ map.next_stripe_id \in Nat
  BY TileAt
<1>2. id < map.next_stripe_id
  BY <1>1
<1>3. j \in Keys(map) /\ Base(map, j) <= id /\ id < Base(map, j) + Inst(map, j)
  BY <1>2, IdAtIs
<1> HIDE DEF j
<1>4. Base(map, j) \in Nat /\ Inst(map, j) \in Nat /\ j \in Nat
  BY <1>3, TileAt
<1>5. ASSUME j < k PROVE FALSE
  <2>1. Base(map, j) + Inst(map, j) <= Base(map, k)
    BY <1>3, <1>5, Chained
  <2> QED BY <1>1, <1>3, <1>4, <2>1
<1>6. ASSUME k < j PROVE FALSE
  <2>1. Base(map, k) + Inst(map, k) <= Base(map, j)
    BY <1>3, <1>6, Chained
  <2> QED BY <1>1, <1>3, <1>4, <2>1
<1>7. j = k
  BY <1>1, <1>4, <1>5, <1>6
<1> QED BY <1>2, <1>7 DEF j

\* Where a stripe is
LEMMA FirstIs ==
    ASSUME NEW map, Tiled(map), NEW id \in Nat, id < map.next_stripe_id, Keys(map) # {}
    PROVE  LET k == IdAt(map, id) IN
           /\ k \in Keys(map) /\ id - Base(map, k) \in Nat /\ id - Base(map, k) < Inst(map, k)
           /\ First(map, id) \in Nat /\ k <= First(map, id)
           /\ PerAt(map, id) \in Nat /\ PerAt(map, id) > 0
           /\ First(map, id) = k + (id - Base(map, k)) * PerAt(map, id)
           /\ First(map, id) + PerAt(map, id) <= End(map, k)
           /\ First(map, id) < Word64
<1> DEFINE k == IdAt(map, id)
           n == id - Base(map, k)
           b == Per(map, k)
<1>1. k \in Keys(map) /\ Base(map, k) <= id /\ id < Base(map, k) + Inst(map, k)
  BY IdAtIs
<1> HIDE DEF k
<1>2. /\ k \in Nat /\ Base(map, k) \in Nat /\ Inst(map, k) \in Nat /\ b \in Nat /\ b > 0
      /\ End(map, k) = k + Inst(map, k) * b /\ Inst(map, k) * b \in Nat
      /\ End(map, k) <= Word64 /\ End(map, k) \in Nat
  BY <1>1, TileAt
<1>3. n \in Nat /\ n + 1 <= Inst(map, k)
  BY <1>1, <1>2
<1> HIDE DEF n, b
<1>4. n * b \in Nat /\ (n + 1) * b <= Inst(map, k) * b /\ (n + 1) * b = n * b + b
  <2>1. n + 1 \in Nat
    BY <1>3
  <2> QED BY <1>2, <1>3, <2>1, Products
<1>5. First(map, id) = k + n * b /\ PerAt(map, id) = b
  BY DEF First, PerAt, n, b, k
<1>6. First(map, id) \in Nat /\ k <= First(map, id) /\ First(map, id) + b <= End(map, k)
      /\ First(map, id) < Word64
  <2> DEFINE x == n * b
             y == Inst(map, k) * b
  <2>1. x \in Nat /\ y \in Nat /\ x + b <= y /\ First(map, id) = k + x /\ End(map, k) = k + y
    BY <1>2, <1>4, <1>5
  <2> HIDE DEF x, y
  <2> QED BY <1>2, <2>1, Words
<1> QED BY <1>1, <1>2, <1>3, <1>5, <1>6 DEF k, n, b

\* The positions of a stripe
LEMMA InStripe ==
    ASSUME NEW map, Tiled(map), NEW id \in Nat, id < map.next_stripe_id, Keys(map) # {},
           NEW p \in Nat, First(map, id) <= p, p < First(map, id) + PerAt(map, id)
    PROVE  Maps(map, p) /\ KeyAt(map, p) = IdAt(map, id) /\ StripeNo(map, p) = id
<1> DEFINE k == IdAt(map, id)
           n == id - Base(map, k)
           b == PerAt(map, id)
           f == First(map, id)
           r == p - f
<1>1. /\ k \in Keys(map) /\ n \in Nat /\ f \in Nat /\ k <= f /\ b \in Nat /\ b > 0
      /\ f = k + n * b /\ f + b <= End(map, k)
  BY FirstIs
<1>2. b = Per(map, k)
  BY DEF PerAt
<1>3. k \in Nat /\ End(map, k) \in Nat /\ Base(map, k) \in Nat
  BY <1>1, TileAt
<1>4. k <= p /\ p < End(map, k)
  BY <1>1, <1>3
<1>5. KeyAt(map, p) = k
  BY <1>1, <1>4, KeyOf
<1>6. Maps(map, p)
  BY <1>4, <1>5, MapsIs
<1>7. r \in Nat /\ r < b
  BY <1>1
<1>8. n * b \in Nat
  BY <1>1, Products
<1>9. p - k = n * b + r
  <2> DEFINE x == n * b
  <2>1. x \in Nat /\ f = k + x /\ f \in Nat /\ r = p - f
    BY <1>1, <1>8
  <2> HIDE DEF x, f, r, k
  <2>2. p - k = x + r
    BY <1>3, <2>1
  <2> QED BY <2>2 DEF x
<1>10. (p - k) \div b = n
  <2> HIDE DEF n, b, r, k
  <2> QED BY <1>1, <1>7, <1>9, Quotient
<1>11. StripeNo(map, p) = Base(map, k) + n
  BY <1>2, <1>5, <1>10 DEF StripeNo
<1> HIDE DEF k
<1>12. Base(map, k) + n = id
  BY <1>3
<1> QED BY <1>5, <1>6, <1>11, <1>12 DEF k

\* A mapped position is in its stripe.
LEMMA AtStripe ==
    ASSUME NEW map, Tiled(map), NEW p \in Nat, Maps(map, p)
    PROVE  LET id == StripeNo(map, p) IN
           /\ Keys(map) # {} /\ id \in Nat /\ id < map.next_stripe_id
           /\ IdAt(map, id) = KeyAt(map, p)
           /\ First(map, id) <= p /\ p < First(map, id) + PerAt(map, id)
<1> DEFINE k == KeyAt(map, p)
           id == StripeNo(map, p)
           b == Per(map, k)
           n == (p - k) \div b
<1>1. /\ k \in Keys(map) /\ k <= p /\ n \in Nat /\ n < Inst(map, k)
      /\ n * b <= p - k /\ p - k < (n + 1) * b
      /\ id = Base(map, k) + n /\ id \in Nat /\ id < map.next_stripe_id
  BY StripeNoIs
<1> HIDE DEF k, n, id
<1>2. Base(map, k) \in Nat /\ Inst(map, k) \in Nat /\ k \in Nat /\ b \in Nat
  BY <1>1, TileAt
<1>3. Base(map, k) <= id /\ id < Base(map, k) + Inst(map, k) /\ id - Base(map, k) = n
  BY <1>1, <1>2
<1>4. IdAt(map, id) = k
  BY <1>1, <1>3, IdOf
<1>5. First(map, id) = k + n * b /\ PerAt(map, id) = b
  BY <1>3, <1>4 DEF First, PerAt
<1>6. (n + 1) * b = n * b + b /\ n * b \in Nat
  BY <1>1, <1>2, Products
<1>7. First(map, id) <= p /\ p < First(map, id) + PerAt(map, id)
  <2> DEFINE x == n * b
             y == (n + 1) * b
  <2>1. x \in Nat /\ y = x + b /\ x <= p - k /\ p - k < y /\ First(map, id) = k + x
    BY <1>1, <1>5, <1>6
  <2> HIDE DEF x, y
  <2> QED BY <1>2, <1>5, <2>1
<1> QED BY <1>1, <1>4, <1>7 DEF k, id

\* Stripes follow each other in the order of their ids.
LEMMA Ordered ==
    ASSUME NEW map, Tiled(map), Keys(map) # {}, NEW i \in Nat, NEW j \in Nat,
           i < j, j < map.next_stripe_id
    PROVE  First(map, i) + PerAt(map, i) <= First(map, j)
<1> DEFINE k == IdAt(map, i)
           l == IdAt(map, j)
           n == i - Base(map, k)
           m == j - Base(map, l)
<1>1. map.next_stripe_id \in Nat /\ i < map.next_stripe_id
  BY DEF Tiled
<1>2. /\ k \in Keys(map) /\ n \in Nat /\ n < Inst(map, k)
      /\ First(map, i) \in Nat /\ PerAt(map, i) \in Nat
      /\ First(map, i) = k + n * PerAt(map, i)
      /\ First(map, i) + PerAt(map, i) <= End(map, k)
  BY <1>1, FirstIs
<1>3. /\ l \in Keys(map) /\ m \in Nat /\ m < Inst(map, l)
      /\ First(map, j) \in Nat /\ l <= First(map, j)
      /\ First(map, j) = l + m * PerAt(map, j)
  BY FirstIs
<1>4. PerAt(map, i) = Per(map, k) /\ PerAt(map, j) = Per(map, l)
  BY DEF PerAt
<1> HIDE DEF k, l
<1>5. /\ k \in Nat /\ Base(map, k) \in Nat /\ Inst(map, k) \in Nat /\ End(map, k) \in Nat
      /\ l \in Nat /\ Base(map, l) \in Nat /\ Inst(map, l) \in Nat
  BY <1>2, <1>3, TileAt
<1>6. CASE k = l
  <2> DEFINE b == Per(map, k)
  <2>1. n + 1 <= m /\ n + 1 \in Nat /\ b \in Nat
    BY <1>2, <1>4, <1>5, <1>6
  <2> HIDE DEF n, m, b
  <2>2. (n + 1) * b <= m * b /\ (n + 1) * b = n * b + b /\ n * b \in Nat /\ m * b \in Nat
    BY <1>2, <1>3, <2>1, Products
  <2>3. First(map, i) = k + n * b /\ First(map, j) = k + m * b /\ PerAt(map, i) = b
    BY <1>2, <1>3, <1>4, <1>6 DEF b
  <2> DEFINE x == n * b
             y == m * b
  <2>4. x \in Nat /\ y \in Nat /\ x + b <= y /\ First(map, i) = k + x /\ First(map, j) = k + y
    BY <2>2, <2>3
  <2> HIDE DEF x, y
  <2> QED BY <1>5, <2>1, <2>3, <2>4
<1>7. CASE k < l
  <2>1. End(map, k) <= l
    BY <1>2, <1>3, <1>7, Chained
  <2> QED BY <1>2, <1>3, <1>5, <2>1
<1>8. CASE l < k
  <2>1. Base(map, l) + Inst(map, l) <= Base(map, k)
    BY <1>2, <1>3, <1>8, Chained
  <2> QED BY <1>2, <1>3, <1>5, <2>1
<1> QED BY <1>5, <1>6, <1>7, <1>8

\* The stripes that start up to a position are those up to its own.
LEMMA StartsUpTo ==
    ASSUME NEW map, Tiled(map), NEW p \in Nat, Maps(map, p),
           NEW id \in Nat, id < map.next_stripe_id
    PROVE  First(map, id) <= p <=> id <= StripeNo(map, p)
<1> DEFINE n == StripeNo(map, p)
<1>1. /\ Keys(map) # {} /\ n \in Nat /\ n < map.next_stripe_id
      /\ First(map, n) <= p /\ p < First(map, n) + PerAt(map, n)
  BY AtStripe
<1> HIDE DEF n
<1>2. /\ First(map, n) \in Nat /\ PerAt(map, n) \in Nat
      /\ First(map, id) \in Nat /\ PerAt(map, id) \in Nat
  BY <1>1, FirstIs
<1>3. ASSUME id < n PROVE First(map, id) <= p
  <2>1. First(map, id) + PerAt(map, id) <= First(map, n)
    BY <1>1, <1>3, Ordered
  <2> QED BY <1>1, <1>2, <2>1
<1>4. ASSUME n < id PROVE ~(First(map, id) <= p)
  <2>1. First(map, n) + PerAt(map, n) <= First(map, id)
    BY <1>1, <1>4, Ordered
  <2> QED BY <1>1, <1>2, <2>1
<1>5. id = n => First(map, id) <= p
  BY <1>1
<1>6. id < n \/ id = n \/ n < id
  BY <1>1
<1> QED BY <1>1, <1>3, <1>4, <1>5, <1>6 DEF n

\* Starts holds the first positions of all stripes.
LEMMA StartsAre ==
    ASSUME NEW map, Tiled(map), Keys(map) # {}
    PROVE  \A b : b \in Starts(map) <=>
                    \E id \in Nat : id < map.next_stripe_id /\ b = First(map, id)
<1>1. ASSUME NEW b, NEW k \in Keys(map), NEW n \in 0 .. map.stripes[k].instances - 1,
             b = k + n * map.stripes[k].width * map.stripes[k].slots
      PROVE  \E id \in Nat : id < map.next_stripe_id /\ b = First(map, id)
  <2> DEFINE id == Base(map, k) + n
  <2>1. Base(map, k) \in Nat /\ Inst(map, k) \in Nat
    BY TileAt
  <2>2. n \in Nat /\ n < Inst(map, k)
    BY <2>1 DEF Inst
  <2>3. id \in Nat /\ Base(map, k) <= id /\ id < Base(map, k) + Inst(map, k)
        /\ id - Base(map, k) = n
    BY <2>1, <2>2
  <2> HIDE DEF id
  <2>4. IdAt(map, id) = k /\ id < map.next_stripe_id
    BY <2>3, IdOf
  <2>5. First(map, id) = k + n * Per(map, k)
    BY <2>3, <2>4 DEF First
  <2> DEFINE w == map.stripes[k].width
             s == map.stripes[k].slots
  <2>6. n * w * s = n * (w * s)
    <3>1. w \in Nat /\ s \in Nat
      BY DEF Tiled
    <3> HIDE DEF w, s
    <3> QED BY <2>2, <3>1, Products
  <2>7. b = k + n * Per(map, k)
    BY <1>1, <2>6 DEF Per
  <2> QED BY <2>3, <2>4, <2>5, <2>7
<1>2. ASSUME NEW id \in Nat, id < map.next_stripe_id
      PROVE  First(map, id) \in Starts(map)
  <2> DEFINE k == IdAt(map, id)
             n == id - Base(map, k)
             m == map.stripes[k]
  <2>1. /\ k \in Keys(map) /\ n \in Nat /\ n < Inst(map, k)
        /\ First(map, id) = k + n * Per(map, k)
    BY <1>2, FirstIs DEF PerAt
  <2> HIDE DEF k, n
  <2>2. Inst(map, k) \in Nat
    BY <2>1, TileAt
  <2>3. n \in 0 .. m.instances - 1
    BY <2>1, <2>2 DEF Inst
  <2>4. n * m.width * m.slots = n * (m.width * m.slots)
    <3>1. m.width \in Nat /\ m.slots \in Nat
      BY <2>1 DEF Tiled
    <3> HIDE DEF m
    <3> QED BY <2>1, <3>1, Products
  <2>5. First(map, id) = k + n * m.width * m.slots
    BY <2>1, <2>4 DEF Per
  <2> HIDE DEF m
  <2> QED BY <2>1, <2>3, <2>5 DEF Starts, m
<1>3. ASSUME NEW b \in Starts(map)
      PROVE  \E id \in Nat : id < map.next_stripe_id /\ b = First(map, id)
  <2>1. PICK k \in Keys(map) : \E n \in 0 .. map.stripes[k].instances - 1 :
          b = k + n * map.stripes[k].width * map.stripes[k].slots
    BY <1>3 DEF Starts
  <2> QED BY <1>1, <2>1
<1> QED BY <1>2, <1>3

\* Counting stripes gives the stripe that map computes.
LEMMA Counted ==
    ASSUME NEW map, Tiled(map), NEW p \in Nat, Maps(map, p)
    PROVE  RefStripe(map, p) = StripeNo(map, p)
<1> DEFINE n == StripeNo(map, p)
           B == {b \in Starts(map) : b <= p}
           I == 0 .. n
           f == [id \in I |-> First(map, id)]
<1>1. Keys(map) # {} /\ n \in Nat /\ n < map.next_stripe_id /\ map.next_stripe_id \in Nat
  BY AtStripe DEF Tiled
<1>2. ASSUME NEW id \in I PROVE First(map, id) \in B
  <2>1. id \in Nat /\ id < map.next_stripe_id
    BY <1>1
  <2> QED BY <1>1, <1>2, <2>1, StartsAre, StartsUpTo
<1>3. ASSUME NEW b \in B PROVE \E id \in I : b = First(map, id)
  <2>1. PICK id \in Nat : id < map.next_stripe_id /\ b = First(map, id)
    BY <1>1, StartsAre
  <2>2. id <= n
    BY <2>1, StartsUpTo
  <2>3. id \in I
    BY <1>1, <2>2
  <2> QED BY <2>1, <2>3
<1>4. ASSUME NEW i \in I, NEW j \in I, i < j PROVE First(map, i) # First(map, j)
  <2>1. i \in Nat /\ j \in Nat /\ j < map.next_stripe_id /\ i < map.next_stripe_id
    BY <1>1
  <2>2. First(map, i) + PerAt(map, i) <= First(map, j)
    BY <1>1, <1>4, <2>1, Ordered
  <2>3. First(map, i) \in Nat /\ PerAt(map, i) \in Nat /\ PerAt(map, i) > 0
    BY <1>1, <2>1, FirstIs
  <2> QED BY <2>2, <2>3
<1> HIDE DEF n
<1>5. f \in Bijection(I, B)
  <2>1. f \in [I -> B]
    BY <1>2
  <2>2. \A i, j \in I : f[i] = f[j] => i = j
    <3> SUFFICES ASSUME NEW i \in I, NEW j \in I, f[i] = f[j] PROVE i = j
      OBVIOUS
    <3>1. i \in Nat /\ j \in Nat /\ First(map, i) = First(map, j)
      BY <1>1
    <3> QED BY <1>4, <3>1
  <2>3. \A b \in B : \E i \in I : f[i] = b
    BY <1>3
  <2> HIDE DEF f, B, I
  <2>4. f \in Injection(I, B)
    BY <2>1, <2>2, Fun_IsInj
  <2>5. f \in Surjection(I, B)
    BY <2>1, <2>3, Fun_IsSurj
  <2> QED BY <2>4, <2>5 DEF Bijection
<1>6. IsFiniteSet(I) /\ Cardinality(I) = n + 1
  <2>1. 0 \in Int /\ n \in Int /\ ~(0 > n) /\ n - 0 + 1 = n + 1
    BY <1>1
  <2> QED BY <2>1, FS_Interval
<1>7. Cardinality(B) = n + 1
  <2>1. ExistsBijection(I, B)
    BY <1>5 DEF ExistsBijection
  <2> HIDE DEF I, B
  <2> QED BY <1>6, <2>1, FS_Bijection
<1>8. RefStripe(map, p) = Cardinality(B) - 1
  BY DEF RefStripe
<1> HIDE DEF B
<1> QED BY <1>1, <1>7, <1>8 DEF n

\* The last stripe is the one that starts last.
LEMMA LastStart ==
    ASSUME NEW map, Tiled(map), Keys(map) # {}
    PROVE  LET n == map.next_stripe_id - 1 IN
           /\ n \in Nat /\ Max(Starts(map)) = First(map, n)
           /\ IdAt(map, n) = last_key(map)
           /\ First(map, n) + PerAt(map, n) = End(map, last_key(map))
<1> DEFINE n == map.next_stripe_id - 1
           l == last_key(map)
           b == Per(map, l)
           i == Inst(map, l)
<1>1. l \in Keys(map) /\ map.next_stripe_id = Base(map, l) + i
  BY DEF Tiled
<1> HIDE DEF l
<1>2. /\ l \in Nat /\ Base(map, l) \in Nat /\ i \in Nat /\ i > 0 /\ b \in Nat
      /\ End(map, l) = l + i * b
  BY <1>1, TileAt
<1> HIDE DEF i
<1>3. n \in Nat /\ n < map.next_stripe_id /\ Base(map, l) <= n /\ n < Base(map, l) + i
      /\ n - Base(map, l) = i - 1 /\ i - 1 \in Nat
  BY <1>1, <1>2
<1> HIDE DEF n
<1>4. IdAt(map, n) = l
  BY <1>1, <1>3, IdOf DEF i
<1>5. First(map, n) = l + (i - 1) * b /\ PerAt(map, n) = b
  BY <1>3, <1>4 DEF First, PerAt
<1>6. First(map, n) + PerAt(map, n) = End(map, l)
  <2> DEFINE j == i - 1
  <2>1. j \in Nat /\ j + 1 = i
    BY <1>2, <1>3
  <2>2. (j + 1) * b = j * b + b /\ j * b \in Nat
    <3> HIDE DEF j, b
    <3> QED BY <1>2, <2>1, Products
  <2> DEFINE x == j * b
             y == i * b
  <2>3. x \in Nat /\ y = x + b /\ End(map, l) = l + y /\ First(map, n) = l + x
    BY <1>2, <1>5, <2>1, <2>2
  <2> HIDE DEF x, y, b
  <2> QED BY <1>2, <1>5, <2>3
<1>7. \A id \in Nat : id < map.next_stripe_id => First(map, id) \in Nat /\ PerAt(map, id) \in Nat
  BY FirstIs
<1>8. ASSUME NEW y \in Starts(map) PROVE y \in Nat /\ First(map, n) >= y
  <2>1. PICK id \in Nat : id < map.next_stripe_id /\ y = First(map, id)
    BY StartsAre
  <2>2. First(map, id) \in Nat /\ PerAt(map, id) \in Nat /\ First(map, n) \in Nat
    BY <1>3, <1>7, <2>1
  <2>3. CASE id = n
    BY <2>1, <2>2, <2>3
  <2>4. CASE id < n
    <3>1. First(map, id) + PerAt(map, id) <= First(map, n)
      BY <1>3, <2>4, Ordered
    <3> QED BY <2>1, <2>2, <3>1
  <2>5. id = n \/ id < n
    BY <1>1, <1>2, <1>3, <2>1 DEF n
  <2> QED BY <2>3, <2>4, <2>5
<1>9. First(map, n) \in Starts(map)
  BY <1>3, StartsAre
<1>10. Max(Starts(map)) = First(map, n)
  <2>1. Starts(map) \subseteq Nat /\ \A y \in Starts(map) : First(map, n) >= y
    BY <1>8
  <2> QED BY <1>9, <2>1, MaxOf
<1> QED BY <1>3, <1>4, <1>6, <1>10 DEF n, l

-----------------------------------------------------------------------------
(* What lookups compute *)

\* The stripes whose size the 32-bit product holds
Narrow(map) == \A k \in Keys(map) : Per(map, k) < Word32

\* map's stripe id is the stripe's,
LEMMA StripeIdIs ==
    ASSUME NEW map, Tiled(map), Narrow(map), NEW p \in Nat, Maps(map, p)
    PROVE  StripeId(map, p) = StripeNo(map, p)
<1> DEFINE k == KeyAt(map, p)
<1>1. k \in Keys(map)
  BY StripeNoIs
<1>2. MultiStripeAt(map, p) = map.stripes[k]
  BY DEF MultiStripeAt, KeyAt
<1> HIDE DEF k
<1>3. Per(map, k) \in Nat /\ Per(map, k) < Word32 /\ map.stripes[k].min_position = k
  BY <1>1, TileAt DEF Narrow
<1>4. Mul32(map.stripes[k].width, map.stripes[k].slots) = Per(map, k)
  <2>1. Mul32(map.stripes[k].width, map.stripes[k].slots) = Per(map, k) % Word32
    BY DEF Mul32, Per
  <2> QED BY <1>3, <2>1, Words
<1> QED BY <1>2, <1>3, <1>4 DEF StripeId, StripeNo, Base, k

\* and map_stripe's stripe has its positions.
LEMMA StripeIs ==
    ASSUME NEW map, Tiled(map), Keys(map) # {}, NEW id \in Nat, id < map.next_stripe_id
    PROVE  LET s == stripe_by_id(map, id)
               m == map.stripes[IdAt(map, id)]
           IN  /\ s.id = id /\ s.width = m.width /\ s.min_position = First(map, id)
               /\ s.max_position = First(map, id) + PerAt(map, id) - 1
<1> DEFINE k == IdAt(map, id)
           m == map.stripes[k]
<1>1. k \in Keys(map)
  BY FirstIs
<1>2. stripe_by_id(map, id) = Stripe(m, id)
  BY DEF stripe_by_id, IdAt
<1>3. m.min_position = k
  BY <1>1, TileAt
<1>4. First(map, id) = k + (id - m.base_id) * (m.width * m.slots)
      /\ PerAt(map, id) = m.width * m.slots
  BY DEF First, PerAt, Base, Per
<1> HIDE DEF m, k
<1> QED BY <1>2, <1>3, <1>4 DEF Stripe, m, k

\* Width and slots at a stripe
LEMMA SidesAt ==
    ASSUME NEW map, Tiled(map), Keys(map) # {}, NEW id \in Nat, id < map.next_stripe_id
    PROVE  LET m == map.stripes[IdAt(map, id)] IN
           /\ m.width \in Nat /\ m.width > 0 /\ m.slots \in Nat /\ m.slots > 0
           /\ PerAt(map, id) = m.width * m.slots
           /\ m.width <= PerAt(map, id)
<1> DEFINE m == map.stripes[IdAt(map, id)]
<1>1. IdAt(map, id) \in Keys(map)
  BY FirstIs
<1>2. m.width \in Nat /\ m.width > 0 /\ m.slots \in Nat /\ m.slots > 0
  BY <1>1 DEF Tiled
<1>3. PerAt(map, id) = m.width * m.slots
  BY DEF PerAt, Per
<1> HIDE DEF m
<1>4. m.width <= m.width * m.slots
  BY <1>2, Products
<1> QED BY <1>2, <1>3, <1>4 DEF m

\* The asserts of stripe.h hold.
LEMMA AssertsHold ==
    ASSUME NEW map, Tiled(map), Keys(map) # {}, NEW id \in Nat, id < map.next_stripe_id
    PROVE  StripeAsserts(stripe_by_id(map, id))
<1> DEFINE s == stripe_by_id(map, id)
           w == map.stripes[IdAt(map, id)].width
           c == map.stripes[IdAt(map, id)].slots
           f == First(map, id)
           b == PerAt(map, id)
<1>1. s.id = id /\ s.width = w /\ s.min_position = f /\ s.max_position = f + b - 1
  BY StripeIs
<1>2. w \in Nat /\ w > 0 /\ c \in Nat /\ b = w * c /\ w <= b
  BY SidesAt
<1>3. f \in Nat /\ b \in Nat /\ map.next_stripe_id \in Nat
  BY FirstIs DEF Tiled
<1>4. (id > 0) <=> (f > 0)
  <2>1. ASSUME id = 0 PROVE f = 0
    <3>1. 0 \in Keys(map) /\ Base(map, 0) = 0 /\ Inst(map, 0) \in Nat /\ Inst(map, 0) > 0
          /\ Per(map, 0) \in Nat
      BY DEF Tiled
    <3>2. IdAt(map, 0) = 0
      BY <3>1, IdOf
    <3>3. First(map, 0) = 0 + (0 - 0) * Per(map, 0)
      BY <3>1, <3>2 DEF First
    <3>4. 0 * Per(map, 0) = 0
      BY <3>1
    <3> QED BY <2>1, <3>3, <3>4
  <2>2. ASSUME id > 0 PROVE f > 0
    <3>1. First(map, 0) + PerAt(map, 0) <= f
      BY <2>2, Ordered
    <3>2. First(map, 0) \in Nat /\ PerAt(map, 0) \in Nat /\ PerAt(map, 0) > 0
      <4>1. 0 < map.next_stripe_id
        BY <1>3, <2>2
      <4> QED BY <4>1, FirstIs
    <3> HIDE DEF f
    <3> QED BY <1>3, <3>1, <3>2
  <2> HIDE DEF f
  <2> QED BY <1>3, <2>1, <2>2
<1> HIDE DEF s, w, c, f, b
<1>5. (s.max_position - s.min_position + 1) % s.width = 0
  <2>1. s.max_position - s.min_position + 1 = b
    BY <1>1, <1>3
  <2>2. b % w = 0
    <3>1. b = c * w
      BY <1>2, Products
    <3> QED BY <1>2, <3>1, Multiples
  <2> QED BY <1>1, <2>1, <2>2
<1>6. s.max_position >= s.min_position + s.width - 1
  BY <1>1, <1>2, <1>3
<1> QED BY <1>1, <1>2, <1>4, <1>5, <1>6 DEF StripeAsserts, s

\* The positions of a stripe are those that count to its id.
LEMMA StripeHolds ==
    ASSUME NEW map, Tiled(map), Keys(map) # {}, NEW id \in Nat, id < map.next_stripe_id,
           NEW q \in Nat
    PROVE  First(map, id) <= q /\ q < First(map, id) + PerAt(map, id)
             <=> q \in Mapped(map) /\ RefStripe(map, q) = id
<1>1. ASSUME First(map, id) <= q, q < First(map, id) + PerAt(map, id)
      PROVE  q \in Mapped(map) /\ RefStripe(map, q) = id
  <2>1. Maps(map, q) /\ StripeNo(map, q) = id
    BY <1>1, InStripe
  <2>2. q < Word64 /\ Word64 \in Nat
    BY <2>1, MapsIs, Words
  <2> QED BY <2>1, <2>2, Counted DEF Mapped
<1>2. ASSUME q \in Mapped(map), RefStripe(map, q) = id
      PROVE  First(map, id) <= q /\ q < First(map, id) + PerAt(map, id)
  <2>1. Maps(map, q)
    BY <1>2 DEF Mapped
  <2>2. StripeNo(map, q) = id
    BY <1>2, <2>1, Counted
  <2> QED BY <2>1, <2>2, AtStripe
<1> QED BY <1>1, <1>2

\* Lookups are exact.
LEMMA LookupsExact ==
    ASSUME NEW map, Tiled(map), Narrow(map), NEW p \in Mapped(map)
    PROVE  /\ map_oid(map, p) = RefOid(map, p)
           /\ map_last(map, p) = (p >= Max(Starts(map)))
           /\ LET s == map_stripe(map, p)
              IN  /\ StripeAsserts(s)
                  /\ s.min_position .. s.max_position =
                       {q \in Mapped(map) : RefStripe(map, q) = RefStripe(map, p)}
<1> DEFINE id == StripeNo(map, p)
           n == map.next_stripe_id - 1
           k == KeyAt(map, p)
           l == last_key(map)
<1>1. p \in Nat /\ Maps(map, p)
  BY Words DEF Mapped
<1>2. StripeId(map, p) = id /\ RefStripe(map, p) = id
  BY <1>1, StripeIdIs, Counted
<1>3. /\ Keys(map) # {} /\ id \in Nat /\ id < map.next_stripe_id /\ IdAt(map, id) = k
      /\ First(map, id) <= p /\ p < First(map, id) + PerAt(map, id)
  BY <1>1, AtStripe
<1>4. MultiStripeAt(map, p) = map.stripes[k]
  BY DEF MultiStripeAt, KeyAt
<1>5. map_oid(map, p) = RefOid(map, p)
  <2>1. RefWidth(map, p) = MultiStripeAt(map, p).width
    BY DEF RefWidth, MultiStripeAt
  <2> QED BY <1>2, <2>1 DEF map_oid, make_oid, RefOid
<1>6. /\ n \in Nat /\ Max(Starts(map)) = First(map, n) /\ IdAt(map, n) = l
      /\ First(map, n) + PerAt(map, n) = End(map, l)
  BY <1>3, LastStart
<1>7. k \in Keys(map) /\ l \in Keys(map) /\ map.next_stripe_id = Base(map, l) + Inst(map, l)
      /\ map.next_stripe_id \in Nat
  BY <1>1, StripeNoIs DEF Tiled
<1>8. /\ map.stripes[k].min_position = k /\ map.stripes[l].min_position = l
      /\ Base(map, k) \in Nat /\ Inst(map, k) \in Nat
      /\ Base(map, l) \in Nat /\ Inst(map, l) \in Nat
  BY <1>7, TileAt
<1>9. map_last(map, p) <=> id = n
  <2>1. map.stripes[k] = map.stripes[l] <=> k = l
    <3> HIDE DEF k, l
    <3> QED BY <1>8
  <2>2. map_last(map, p) <=> k = l /\ id = max_stripe_id(map.stripes[k])
    BY <1>2, <1>4, <2>1 DEF map_last
  <2>3. max_stripe_id(map.stripes[l]) = n
    BY <1>7, <1>8 DEF max_stripe_id, Base, Inst
  <2>4. id = n => k = l
    <3> HIDE DEF id, n, k, l
    <3> QED BY <1>3, <1>6
  <2> QED BY <2>2, <2>3, <2>4
<1>10. id = n <=> p >= First(map, n)
  <2> HIDE DEF id
  <2>1. n < map.next_stripe_id /\ (id = n \/ id < n)
    BY <1>3, <1>6, <1>7
  <2>2. First(map, n) <= p <=> n <= id
    BY <1>1, <1>6, <2>1, StartsUpTo DEF id
  <2>3. First(map, n) \in Nat
    BY <1>3, <1>6, <2>1, FirstIs
  <2> QED BY <1>1, <1>3, <1>6, <2>1, <2>2, <2>3
<1>11. map_last(map, p) = (p >= Max(Starts(map)))
  <2>1. map_last(map, p) \in BOOLEAN
    BY DEF map_last
  <2>2. (p >= Max(Starts(map))) \in BOOLEAN
    BY <1>1
  <2> HIDE DEF id, n, k, l
  <2> QED BY <1>6, <1>9, <1>10, <2>1, <2>2
<1> DEFINE s == map_stripe(map, p)
<1>12. s = stripe_by_id(map, id)
  BY <1>2 DEF map_stripe
<1> HIDE DEF id
<1>13. StripeAsserts(s)
  BY <1>3, <1>12, AssertsHold
<1>14. /\ s.min_position = First(map, id) /\ s.max_position = First(map, id) + PerAt(map, id) - 1
       /\ First(map, id) \in Nat /\ PerAt(map, id) \in Nat
  BY <1>3, <1>12, StripeIs, FirstIs
<1> HIDE DEF s
<1>15. s.min_position .. s.max_position =
         {q \in Mapped(map) : RefStripe(map, q) = RefStripe(map, p)}
  <2>1. ASSUME NEW q
        PROVE  q \in s.min_position .. s.max_position
                 <=> q \in Mapped(map) /\ RefStripe(map, q) = id
    <3>1. q \in Mapped(map) => q \in Nat
      BY Words DEF Mapped
    <3>2. q \in s.min_position .. s.max_position
            <=> q \in Nat /\ First(map, id) <= q /\ q < First(map, id) + PerAt(map, id)
      BY <1>14
    <3> QED BY <1>3, <3>1, <3>2, StripeHolds
  <2> QED BY <1>2, <2>1
<1> QED BY <1>5, <1>11, <1>13, <1>15 DEF s

-----------------------------------------------------------------------------
(* The objects of a trim *)

\* In an aligned map, an index in a stripe is the position's remainder.
LEMMA IndexIs ==
    ASSUME NEW map, Tiled(map), Aligned(map), Keys(map) # {},
           NEW id \in Nat, id < map.next_stripe_id, NEW c \in Nat
    PROVE  LET w == map.stripes[IdAt(map, id)].width IN
           (First(map, id) + c) % w = c % w
<1> DEFINE k == IdAt(map, id)
           m == map.stripes[k]
           w == m.width
           n == id - Base(map, k)
<1>1. k \in Keys(map) /\ n \in Nat /\ First(map, id) = k + n * PerAt(map, id)
      /\ First(map, id) \in Nat
  BY FirstIs
<1>2. w \in Nat /\ w > 0 /\ m.slots \in Nat /\ PerAt(map, id) = w * m.slots
  BY SidesAt
<1>3. k \in Nat /\ k % w = 0
  BY <1>1, TileAt DEF Aligned
<1> HIDE DEF k, w, n
<1> DEFINE s == m.slots
<1>4. s \in Nat
  BY <1>2
<1>5. n * s \in Nat /\ n * (w * s) = (n * s) * w
  <2> HIDE DEF s
  <2>1. n * s \in Nat
    BY <1>1, <1>4, Products
  <2>2. w * s = s * w
    BY <1>2, <1>4, Products
  <2>3. n * s * w = n * (s * w)
    BY <1>1, <1>2, <1>4, Products
  <2> QED BY <2>1, <2>2, <2>3
<1> DEFINE x == n * (w * s)
<1>6. x \in Nat /\ x % w = 0
  <2>1. ((n * s) * w) % w = 0
    BY <1>2, <1>5, Multiples
  <2>2. (n * s) * w \in Nat
    BY <1>2, <1>5, Products
  <2> QED BY <1>5, <2>1, <2>2
<1>7. First(map, id) = k + x
  BY <1>1, <1>2
<1> HIDE DEF x
<1>8. (k + (x + c)) % w = (x + c) % w
  <2>1. x + c \in Nat
    BY <1>6
  <2> QED BY <1>2, <1>3, <2>1, SameRemainder
<1>9. (x + c) % w = c % w
  BY <1>2, <1>6, SameRemainder
<1>10. First(map, id) + c = k + (x + c)
  BY <1>3, <1>6, <1>7
<1> QED BY <1>8, <1>9, <1>10 DEF w, k

\* The object that map_to takes a position of a stripe to be in, and that it is
\* map's in an aligned map
LEMMA OidIs ==
    ASSUME NEW map, Tiled(map), Keys(map) # {},
           NEW id \in Nat, id < map.next_stripe_id, NEW c \in Nat, c < PerAt(map, id)
    PROVE  LET q == First(map, id) + c
               w == map.stripes[IdAt(map, id)].width
           IN  /\ q \in Mapped(map) /\ CountedOid(map, q) = <<id, c % w>>
               /\ RefOid(map, q) = <<id, q % w>>
<1> DEFINE q == First(map, id) + c
           w == map.stripes[IdAt(map, id)].width
           S == {b \in Starts(map) : b <= q}
<1>1. First(map, id) \in Nat /\ PerAt(map, id) \in Nat
  BY FirstIs
<1>2. q \in Nat /\ First(map, id) <= q /\ q < First(map, id) + PerAt(map, id)
      /\ q - First(map, id) = c
  BY <1>1
<1> HIDE DEF q
<1>4. q \in Mapped(map) /\ RefStripe(map, q) = id
  BY <1>2, StripeHolds
<1>5. KeyAt(map, q) = IdAt(map, id)
  BY <1>2, InStripe
<1>6. RefWidth(map, q) = w
  BY <1>5 DEF RefWidth, KeyAt
<1>7. Maps(map, q) /\ StripeNo(map, q) = id
  BY <1>2, <1>4, Counted DEF Mapped
<1>8. First(map, id) \in S
  BY <1>2, StartsAre
<1>9. \A b \in S : b \in Nat /\ b <= First(map, id)
  <2> SUFFICES ASSUME NEW b \in S PROVE b \in Nat /\ b <= First(map, id)
    OBVIOUS
  <2>1. PICK j \in Nat : j < map.next_stripe_id /\ b = First(map, j)
    BY StartsAre
  <2>2. b \in Nat /\ PerAt(map, j) \in Nat /\ b <= q
    BY <2>1, FirstIs
  <2>3. j <= id
    BY <1>2, <1>7, <2>1, <2>2, StartsUpTo
  <2>4. j < id => b + PerAt(map, j) <= First(map, id)
    BY <2>1, Ordered
  <2> QED BY <1>1, <2>1, <2>2, <2>3, <2>4
<1>10. Max(S) = First(map, id)
  <2> HIDE DEF S
  <2> QED BY <1>1, <1>8, <1>9, MaxOf
<1>11. CountedOid(map, q) = <<id, c % w>>
  BY <1>2, <1>4, <1>6, <1>10 DEF CountedOid
<1> QED BY <1>4, <1>6, <1>11 DEF RefOid, q

\* A position at or below a mapped one is mapped, and is one of its stripe's.
LEMMA Placed ==
    ASSUME NEW map, Tiled(map), NEW p \in Nat, Maps(map, p), NEW q \in Nat, q <= p
    PROVE  /\ Maps(map, q) /\ Keys(map) # {}
           /\ \E id \in Nat : \E c \in Nat :
                /\ id < map.next_stripe_id /\ c < PerAt(map, id) /\ q = First(map, id) + c
                /\ id = RefStripe(map, q)
<1>1. Keys(map) # {} /\ p < End(map, last_key(map)) /\ last_key(map) \in Keys(map)
  BY MapsIs DEF Tiled
<1>2. End(map, last_key(map)) \in Nat
  BY <1>1, TileAt
<1>3. Maps(map, q)
  BY <1>1, <1>2, MapsIs
<1> DEFINE id == StripeNo(map, q)
           c == q - First(map, id)
<1>4. /\ id \in Nat /\ id < map.next_stripe_id
      /\ First(map, id) <= q /\ q < First(map, id) + PerAt(map, id)
      /\ RefStripe(map, q) = id
  BY <1>3, AtStripe, Counted
<1> HIDE DEF id
<1>5. First(map, id) \in Nat /\ PerAt(map, id) \in Nat
  BY <1>1, <1>4, FirstIs
<1>6. c \in Nat /\ c < PerAt(map, id) /\ q = First(map, id) + c
  BY <1>4, <1>5
<1> QED BY <1>1, <1>3, <1>4, <1>6

\* The last position of an object, and that it is the last
LEMMA LastOfObject ==
    ASSUME NEW w \in Nat, w > 0, NEW s \in Nat, s > 0, NEW i \in Nat, i < w
    PROVE  LET e == w * s - w + i IN
           /\ e \in Nat /\ e < w * s /\ e % w = i /\ i <= e
           /\ \A c \in Nat : c < w * s /\ c % w = i => c <= e
<1> DEFINE t == s - 1
           x == t * w
           y == w * s
           e == y - w + i
<1>1. t \in Nat /\ s = t + 1
  OBVIOUS
<1>2. x \in Nat /\ y = x + w
  <2> HIDE DEF t
  <2>1. t * w \in Nat /\ (t + 1) * w = t * w + w
    BY <1>1, Products
  <2>2. w * s = s * w
    BY Products
  <2> QED BY <1>1, <2>1, <2>2
<1>3. (t * w + i) % w = i
  BY <1>1, Quotient
<1>4. e = x + i
  <2> HIDE DEF x, y
  <2> QED BY <1>2
<1>5. e % w = i
  BY <1>3, <1>4
<1>6. e \in Nat /\ e < y /\ i <= e
  <2> HIDE DEF x, y
  <2> QED BY <1>2, <1>4
<1>7. ASSUME NEW c \in Nat, c < y, c % w = i PROVE c <= e
  <2> DEFINE a == c \div w
  <2>1. a \in Nat /\ c = a * w + i
    BY <1>7, Division
  <2>2. y = s * w
    BY Products
  <2>3. a < s
    BY <1>7, <2>2, Between
  <2> HIDE DEF a, t
  <2>4. a <= t
    BY <1>1, <2>1, <2>3
  <2>5. a * w <= t * w /\ a * w \in Nat
    BY <1>1, <2>1, <2>4, Products
  <2>6. a * w <= x
    BY <2>5
  <2> HIDE DEF x, y
  <2> QED BY <1>2, <1>4, <2>1, <2>5, <2>6
<1> QED BY <1>5, <1>6, <1>7

\* The positions of an object, as map_to numbers them
HoldsAt(map, oid) == {q \in Mapped(map) : CountedOid(map, q) = oid}

\* The object's largest position decides whether all its positions are trimmed.
LEMMA FullIs ==
    ASSUME NEW map, Tiled(map), Keys(map) # {},
           NEW id \in Nat, id < map.next_stripe_id,
           NEW i \in Nat, i < map.stripes[IdAt(map, id)].width, NEW p \in Nat
    PROVE  LET s == stripe_by_id(map, id) IN
           s.max_position - (s.width - 1) + i <= p
             <=> \A r \in HoldsAt(map, <<id, i>>) : r <= p
<1> DEFINE s == stripe_by_id(map, id)
           m == map.stripes[IdAt(map, id)]
           w == m.width
           t == m.slots
           f == First(map, id)
           b == PerAt(map, id)
           e == w * t - w + i
<1>1. s.width = w /\ s.max_position = f + b - 1
  BY StripeIs
<1>2. w \in Nat /\ w > 0 /\ t \in Nat /\ t > 0 /\ b = w * t /\ f \in Nat /\ b \in Nat
  BY SidesAt, FirstIs
<1>3. i < w
  OBVIOUS
<1> HIDE DEF s, w, t
<1>4. /\ e \in Nat /\ e < w * t /\ e % w = i
      /\ \A c \in Nat : c < w * t /\ c % w = i => c <= e
  BY <1>2, <1>3, LastOfObject
<1>5. s.max_position - (s.width - 1) + i = f + e
  <2> DEFINE y == w * t
  <2>1. y = b
    BY <1>2
  <2> HIDE DEF y, f, b
  <2>2. e = y - w + i
    BY DEF y
  <2> QED BY <1>1, <1>2, <2>1, <2>2
<1> HIDE DEF e
<1>6. f + e \in HoldsAt(map, <<id, i>>)
  <2>1. e < b
    BY <1>2, <1>4
  <2>2. f + e \in Mapped(map) /\ CountedOid(map, f + e) = <<id, e % w>>
    BY <1>4, <2>1, OidIs DEF w
  <2> QED BY <1>4, <2>2 DEF HoldsAt
<1>7. ASSUME NEW r \in HoldsAt(map, <<id, i>>) PROVE r \in Nat /\ r <= f + e
  <2> DEFINE c == r - f
  <2>1. r \in Mapped(map) /\ CountedOid(map, r) = <<id, i>>
    BY <1>7 DEF HoldsAt
  <2>2. r \in Nat
    BY <2>1, Words DEF Mapped
  <2>3. RefStripe(map, r) = id
    BY <2>1 DEF CountedOid
  <2>4. f <= r /\ r < f + b
    BY <2>1, <2>2, <2>3, StripeHolds
  <2> HIDE DEF f, b
  <2>5. c \in Nat /\ c < b /\ r = f + c
    BY <1>2, <2>2, <2>4
  <2> HIDE DEF c
  <2>6. CountedOid(map, r) = <<id, c % w>>
    BY <2>5, OidIs DEF w, f, b
  <2>7. c % w = i
    BY <2>1, <2>6
  <2>8. c <= e
    BY <1>2, <1>4, <2>5, <2>7
  <2> QED BY <1>2, <1>4, <2>2, <2>5, <2>8
<1>8. f + e <= p <=> \A r \in HoldsAt(map, <<id, i>>) : r <= p
  <2> HIDE DEF f
  <2>1. ASSUME f + e <= p, NEW r \in HoldsAt(map, <<id, i>>) PROVE r <= p
    <3>1. r \in Nat /\ r <= f + e
      BY <1>7
    <3> QED BY <1>2, <1>4, <2>1, <3>1
  <2> QED BY <1>6, <2>1
<1> QED BY <1>5, <1>8 DEF s

\* map_to yields the objects with a position up to p, whichever test finds them.
LEMMA MapToIs ==
    ASSUME NEW map, Tiled(map), Keys(map) # {}, NEW id \in Nat, id < map.next_stripe_id,
           NEW p \in Nat
    PROVE  LET s == stripe_by_id(map, id) IN
           map_to(map, p, id) =
             {<<<<id, i>>, s.max_position - (s.width - 1) + i <= p>> :
                i \in {j \in 0 .. s.width - 1 : First(map, id) + j <= p}}
<1> DEFINE s == stripe_by_id(map, id)
           f == First(map, id)
           full(i) == s.max_position - (s.width - 1) + i <= p
           Some == {j \in 0 .. s.width - 1 : full(j) \/ f + j <= p}
           Up == {j \in 0 .. s.width - 1 : f + j <= p}
<1>1. /\ s.width \in Nat /\ s.width > 0 /\ s.width <= PerAt(map, id)
      /\ s.min_position = f /\ s.max_position = f + PerAt(map, id) - 1
      /\ f \in Nat /\ PerAt(map, id) \in Nat
  BY StripeIs, SidesAt, FirstIs
<1>2. map_to(map, p, id) = IF f > p THEN {} ELSE {<<<<id, i>>, full(i)>> : i \in Some}
  BY <1>1 DEF map_to
<1> HIDE DEF s, f
<1>3. \A j \in 0 .. s.width - 1 : full(j) => f + j <= p
  BY <1>1
<1>4. Some = Up
  BY <1>3
<1>5. f > p => Up = {}
  BY <1>1
<1>6. map_to(map, p, id) = {<<<<id, i>>, full(i)>> : i \in Up}
  <2> HIDE DEF Some, Up, full
  <2>1. CASE f > p
    BY <1>2, <1>5, <2>1
  <2>2. CASE ~(f > p)
    BY <1>2, <1>4, <2>2
  <2> QED BY <2>1, <2>2
<1> QED BY <1>6 DEF s, f

\* A position's object as trimTo lists it, with its being full
TrimmedPair(map, p, q) == <<CountedOid(map, q), \A r \in Beside(map, q) : r <= p>>

\* The pairs of one stripe are those of its positions.
LEMMA PairsOf ==
    ASSUME NEW map, Tiled(map), NEW p \in Nat, Maps(map, p), Keys(map) # {},
           NEW id \in Nat, id < map.next_stripe_id, NEW x \in map_to(map, p, id)
    PROVE  \E q \in 0 .. p : x = TrimmedPair(map, p, q)
<1> DEFINE s == stripe_by_id(map, id)
           f == First(map, id)
           w == map.stripes[IdAt(map, id)].width
<1>1. PICK i \in 0 .. s.width - 1 :
        f + i <= p /\ x = <<<<id, i>>, s.max_position - (s.width - 1) + i <= p>>
  BY MapToIs
<1>2. s.width = w /\ w \in Nat /\ w > 0 /\ w <= PerAt(map, id) /\ f \in Nat /\ PerAt(map, id) \in Nat
  BY StripeIs, SidesAt, FirstIs
<1>3. i \in Nat /\ i < w /\ i < PerAt(map, id) /\ i % w = i
  BY <1>2
<1>4. CountedOid(map, f + i) = <<id, i>>
  BY <1>3, OidIs
<1>5. s.max_position - (s.width - 1) + i <= p <=> \A r \in HoldsAt(map, <<id, i>>) : r <= p
  BY <1>3, FullIs
<1>6. x = TrimmedPair(map, p, f + i)
  <2>1. (s.max_position - (s.width - 1) + i <= p) \in BOOLEAN
    BY <1>2, <1>3
  <2> HIDE DEF s, f
  <2>2. (s.max_position - (s.width - 1) + i <= p) = (\A r \in HoldsAt(map, <<id, i>>) : r <= p)
    BY <1>5, <2>1
  <2>3. Beside(map, f + i) = HoldsAt(map, <<id, i>>)
    BY <1>4 DEF Beside, HoldsAt
  <2> QED BY <1>1, <1>4, <2>2, <2>3 DEF TrimmedPair
<1>7. f + i \in 0 .. p
  BY <1>1, <1>2, <1>3
<1> QED BY <1>6, <1>7

\* And the other way round
LEMMA PairIn ==
    ASSUME NEW map, Tiled(map), NEW p \in Nat, Maps(map, p), NEW q \in 0 .. p
    PROVE  \E id \in 0 .. map.next_stripe_id - 1 : TrimmedPair(map, p, q) \in map_to(map, p, id)
<1>1. q \in Nat /\ q <= p
  OBVIOUS
<1>2. PICK id \in Nat, c \in Nat :
        /\ id < map.next_stripe_id /\ c < PerAt(map, id) /\ q = First(map, id) + c
        /\ id = RefStripe(map, q)
  BY <1>1, Placed
<1>3. Keys(map) # {} /\ map.next_stripe_id \in Nat
  BY <1>1, Placed DEF Tiled
<1> DEFINE s == stripe_by_id(map, id)
           f == First(map, id)
           w == map.stripes[IdAt(map, id)].width
           i == c % w
<1>4. s.width = w /\ w \in Nat /\ w > 0 /\ f \in Nat
  BY <1>2, <1>3, StripeIs, SidesAt, FirstIs
<1>5. CountedOid(map, q) = <<id, i>>
  BY <1>2, <1>3, OidIs
<1>6. i \in Nat /\ i < w /\ i <= c
  <2> HIDE DEF w
  <2>1. i \in Nat /\ i < w /\ c = (c \div w) * w + i /\ c \div w \in Nat
    BY <1>2, <1>4, Division
  <2>2. (c \div w) * w \in Nat
    BY <1>4, <2>1, Products
  <2> QED BY <2>1, <2>2
<1>7. s.max_position - (s.width - 1) + i <= p <=> \A r \in HoldsAt(map, <<id, i>>) : r <= p
  <2> HIDE DEF i
  <2> QED BY <1>2, <1>3, <1>6, FullIs
<1> HIDE DEF s, f, w, i
<1>8. i \in 0 .. s.width - 1 /\ f + i <= p
  BY <1>1, <1>2, <1>4, <1>6 DEF f
<1>9. <<<<id, i>>, s.max_position - (s.width - 1) + i <= p>> \in map_to(map, p, id)
  BY <1>2, <1>3, <1>8, MapToIs DEF s, f
<1>10. (s.max_position - (s.width - 1) + i <= p) \in BOOLEAN
  OBVIOUS
<1>11. TrimmedPair(map, p, q) = <<<<id, i>>, s.max_position - (s.width - 1) + i <= p>>
  <2>1. Beside(map, q) = HoldsAt(map, <<id, i>>)
    BY <1>5 DEF Beside, HoldsAt
  <2> QED BY <1>5, <1>7, <1>10, <2>1 DEF TrimmedPair
<1>12. id \in 0 .. map.next_stripe_id - 1
  BY <1>2, <1>3
<1> QED BY <1>9, <1>11, <1>12

\* trimTo's iteration is exact.
LEMMA TrimsExact ==
    ASSUME NEW map, Tiled(map), NEW p \in Nat, Maps(map, p)
    PROVE  UNION {map_to(map, p, id) : id \in 0 .. map.next_stripe_id - 1} =
             {<<CountedOid(map, q), \A r \in Beside(map, q) : r <= p>> : q \in 0 .. p}
<1>1. Keys(map) # {} /\ map.next_stripe_id \in Nat
  BY MapsIs DEF Tiled
<1>2. ASSUME NEW id \in 0 .. map.next_stripe_id - 1, NEW x \in map_to(map, p, id)
      PROVE  \E q \in 0 .. p : x = TrimmedPair(map, p, q)
  <2>1. id \in Nat /\ id < map.next_stripe_id
    BY <1>1
  <2> QED BY <1>1, <1>2, <2>1, PairsOf
<1>3. UNION {map_to(map, p, id) : id \in 0 .. map.next_stripe_id - 1} =
        {TrimmedPair(map, p, q) : q \in 0 .. p}
  BY <1>2, PairIn
<1> QED BY <1>3 DEF TrimmedPair

\* map and map_to take every position to be in the same object exactly if the
\* map is aligned: the first position of each MultiStripe shows the others.
LEMMA SameObjects ==
    ASSUME NEW map, Tiled(map)
    PROVE  Aligned(map) <=> \A q \in Mapped(map) : RefOid(map, q) = CountedOid(map, q)
<1>1. ASSUME Aligned(map), NEW q \in Mapped(map) PROVE RefOid(map, q) = CountedOid(map, q)
  <2>1. q \in Nat /\ Maps(map, q) /\ q <= q
    BY Words DEF Mapped
  <2>2. PICK id \in Nat : \E c \in Nat :
          id < map.next_stripe_id /\ c < PerAt(map, id) /\ q = First(map, id) + c
    BY <2>1, Placed
  <2>3. PICK c \in Nat : c < PerAt(map, id) /\ q = First(map, id) + c
    BY <2>2
  <2>4. Keys(map) # {} /\ id < map.next_stripe_id
    BY <2>1, <2>2, Placed
  <2> DEFINE w == map.stripes[IdAt(map, id)].width
  <2>5. CountedOid(map, q) = <<id, c % w>> /\ RefOid(map, q) = <<id, q % w>>
    BY <2>3, <2>4, OidIs
  <2>6. q % w = c % w
    BY <1>1, <2>3, <2>4, IndexIs
  <2> QED BY <2>5, <2>6
<1>2. ASSUME \A q \in Mapped(map) : RefOid(map, q) = CountedOid(map, q), NEW k \in Keys(map)
      PROVE  k % map.stripes[k].width = 0
  <2> DEFINE id == Base(map, k)
             w == map.stripes[k].width
  <2>1. /\ id \in Nat /\ Inst(map, k) \in Nat /\ Inst(map, k) > 0
        /\ w \in Nat /\ w > 0 /\ k \in Nat /\ Per(map, k) \in Nat /\ Per(map, k) > 0
    BY DEF Tiled
  <2>2. IdAt(map, id) = k /\ id < map.next_stripe_id
    BY <2>1, IdOf
  <2>3. First(map, id) = k /\ PerAt(map, id) = Per(map, k)
    <3>1. (id - Base(map, k)) * Per(map, k) = 0 /\ k + 0 = k
      BY <2>1
    <3> QED BY <2>2, <3>1 DEF First, PerAt
  <2>4. k + 0 = k /\ 0 < Per(map, k) /\ 0 % w = 0
    BY <2>1
  <2>5. k \in Mapped(map) /\ CountedOid(map, k) = <<id, 0 % w>> /\ RefOid(map, k) = <<id, k % w>>
    <3> HIDE DEF id, w
    <3>1. Keys(map) # {} /\ 0 \in Nat /\ 0 < PerAt(map, id) /\ First(map, id) + 0 = k
      BY <2>3, <2>4
    <3> QED BY <2>1, <2>2, <3>1, OidIs DEF w
  <2> QED BY <1>2, <2>4, <2>5
<1> QED BY <1>1, <1>2 DEF Aligned

-----------------------------------------------------------------------------
(* Expansion *)

\* Every map and its parts have a map's fields.
Shaped(map) ==
    /\ map = NewMap(map.next_stripe_id, map.stripes, map.min_valid_position)
    /\ map.next_stripe_id \in Nat
    /\ map.stripes \in [Keys(map) -> MultiStripes]
    /\ last_key(map) \in Keys(map)

\* n more stripes of the same kind: one computation for n rounds of the loop
Longer(m, n) ==
    MultiStripe(m.base_id, m.width, m.slots, m.min_position, m.instances + n,
                (m.max_position + n * (m.width * m.slots)) % Word64)

Extended(map, n) ==
    NewMap(map.next_stripe_id + n,
           [map.stripes EXCEPT ![last_key(map)] = Longer(map.stripes[last_key(map)], n)],
           map.min_valid_position)

\* Sums may wrap around on the way.
LEMMA WrapLate ==
    ASSUME NEW a \in Nat, NEW b \in Nat, NEW c \in Nat, c > 0
    PROVE  ((a % c) + b) % c = (a + b) % c
<1> DEFINE q == a \div c
           r == a % c
           x == q * c
<1>1. q \in Nat /\ r \in Nat /\ a = x + r
  BY Division
<1>2. x \in Nat /\ x % c = 0
  <2> HIDE DEF q
  <2> QED BY <1>1, Products, Multiples
<1> HIDE DEF x, r
<1>3. (x + (r + b)) % c = (r + b) % c
  <2>1. r + b \in Nat
    BY <1>1
  <2> QED BY <1>2, <2>1, SameRemainder
<1>4. x + (r + b) = a + b
  BY <1>1, <1>2
<1> QED BY <1>3, <1>4 DEF r

\* extend and Grown, by fields
LEMMA ExtendIs ==
    ASSUME NEW a, NEW w, NEW s, NEW p, NEW i, NEW x
    PROVE  extend(MultiStripe(a, w, s, p, i, x)) =
             MultiStripe(a, w, s, p, i + 1, (x + w * s) % Word64)
<1> DEFINE m == MultiStripe(a, w, s, p, i, x)
           y == (x + w * s) % Word64
<1>1. m.width = w /\ m.slots = s /\ m.instances = i /\ m.max_position = x
  BY DEF MultiStripe
<1>2. extend(m) = [m EXCEPT !.instances = i + 1, !.max_position = y]
  <2>1. extend(m) = [m EXCEPT !.instances = @ + 1,
                              !.max_position = (@ + m.width * m.slots) % Word64]
    BY DEF extend
  <2> HIDE DEF m
  <2> QED BY <1>1, <2>1
<1> HIDE DEF y
<1>3. extend(m) = MultiStripe(a, w, s, p, i + 1, y)
  BY <1>2 DEF MultiStripe
<1> QED BY <1>3 DEF y

\* (the same for a round of the loop)
LEMMA GrownIs ==
    ASSUME NEW a, NEW f, NEW v, DOMAIN f # {}
    PROVE  LET l == Max(DOMAIN f) IN
           Grown(NewMap(a, f, v)) = NewMap(a + 1, [f EXCEPT ![l] = extend(f[l])], v)
<1> DEFINE map == NewMap(a, f, v)
           l == Max(DOMAIN f)
<1>1. map.next_stripe_id = a /\ map.stripes = f /\ map.min_valid_position = v
  BY DEF NewMap
<1>2. Keys(map) # {} /\ last_key(map) = l
  BY <1>1 DEF Keys, last_key
<1> HIDE DEF l
<1>3. Grown(map) = [map EXCEPT !.next_stripe_id = @ + 1, !.stripes[l] = extend(@)]
  <2> HIDE DEF map
  <2> QED BY <1>2 DEF Grown
<1>4. Grown(map) = NewMap(a + 1, [f EXCEPT ![l] = extend(f[l])], v)
  BY <1>3 DEF NewMap
<1> QED BY <1>4 DEF l

\* The fields of a MultiStripe
LEMMA LongerIs ==
    ASSUME NEW m \in MultiStripes, NEW n \in Nat
    PROVE  /\ Longer(m, n) \in MultiStripes
           /\ extend(Longer(m, n)) = Longer(m, n + 1)
           /\ m.max_position < Word64 => Longer(m, 0) = m
<1> DEFINE b == m.width * m.slots
           x == n * b
           y == (n + 1) * b
<1>1. /\ m.base_id \in Nat /\ m.width \in Nat /\ m.slots \in Nat /\ m.min_position \in Nat
      /\ m.instances \in Nat /\ m.max_position \in Nat
  BY DEF MultiStripes
<1>2. b \in Nat
  BY <1>1, Products
<1>3. x \in Nat /\ y = x + b /\ 0 * b = 0
  <2> HIDE DEF b
  <2> QED BY <1>2, Products
<1>4. Word64 \in Nat /\ Word64 > 0
  BY Words
<1>5. m.instances + n \in Nat /\ (m.max_position + x) % Word64 \in Nat
  <2> HIDE DEF x
  <2> QED BY <1>1, <1>3, <1>4
<1>6. Longer(m, n) \in MultiStripes
  BY <1>1, <1>5 DEF Longer, MultiStripe, MultiStripes
<1>7. (((m.max_position + x) % Word64) + b) % Word64 = (m.max_position + y) % Word64
  <2> HIDE DEF b, x, y
  <2>1. m.max_position + x \in Nat
    BY <1>1, <1>3
  <2>2. (((m.max_position + x) % Word64) + b) % Word64 = (m.max_position + x + b) % Word64
    BY <1>2, <1>4, <2>1, WrapLate
  <2>3. m.max_position + x + b = m.max_position + y
    BY <1>1, <1>2, <1>3
  <2> QED BY <2>2, <2>3
<1>8. extend(Longer(m, n)) = Longer(m, n + 1)
  <2>1. m.instances + n + 1 = m.instances + (n + 1)
    BY <1>1
  <2> DEFINE z == (m.max_position + x) % Word64
  <2>2. Longer(m, n) = MultiStripe(m.base_id, m.width, m.slots, m.min_position,
                                   m.instances + n, z)
    BY DEF Longer
  <2>3. extend(Longer(m, n)) = MultiStripe(m.base_id, m.width, m.slots, m.min_position,
                                           m.instances + n + 1, (z + b) % Word64)
    <3> HIDE DEF z
    <3> QED BY <2>2, ExtendIs
  <2>4. Longer(m, n + 1) = MultiStripe(m.base_id, m.width, m.slots, m.min_position,
                                       m.instances + (n + 1), (m.max_position + y) % Word64)
    BY DEF Longer
  <2> HIDE DEF x, y, b
  <2> QED BY <1>7, <2>1, <2>3, <2>4
<1>9. ASSUME m.max_position < Word64 PROVE Longer(m, 0) = m
  <2>1. (m.max_position + 0 * b) % Word64 = m.max_position
    <3> HIDE DEF b
    <3>1. m.max_position + 0 * b = m.max_position
      BY <1>1, <1>3
    <3>2. m.max_position % Word64 = m.max_position
      BY <1>1, <1>4, <1>9
    <3> QED BY <3>1, <3>2
  <2>2. m.instances + 0 = m.instances
    BY <1>1
  <2>3. Longer(m, 0) = MultiStripe(m.base_id, m.width, m.slots, m.min_position, m.instances,
                                   m.max_position)
    BY <2>1, <2>2 DEF Longer
  <2> QED BY <2>3 DEF MultiStripe, MultiStripes
<1> QED BY <1>6, <1>8, <1>9

\* The fields of a longer map
LEMMA ExtendedIs ==
    ASSUME NEW map, Shaped(map), NEW n \in Nat
    PROVE  LET e == Extended(map, n)
               l == last_key(map)
           IN  /\ Shaped(e) /\ Keys(e) = Keys(map) /\ last_key(e) = l
               /\ e.next_stripe_id = map.next_stripe_id + n
               /\ e.min_valid_position = map.min_valid_position
               /\ e.stripes[l] = Longer(map.stripes[l], n)
               /\ \A k \in Keys(map) \ {l} : e.stripes[k] = map.stripes[k]
<1> DEFINE e == Extended(map, n)
           l == last_key(map)
<1>1. /\ e.next_stripe_id = map.next_stripe_id + n
      /\ e.stripes = [map.stripes EXCEPT ![l] = Longer(map.stripes[l], n)]
      /\ e.min_valid_position = map.min_valid_position
      /\ e = NewMap(e.next_stripe_id, e.stripes, e.min_valid_position)
  BY DEF Extended, NewMap
<1>2. l \in Keys(map) /\ map.stripes \in [Keys(map) -> MultiStripes] /\ map.next_stripe_id \in Nat
  BY DEF Shaped
<1>3. Longer(map.stripes[l], n) \in MultiStripes
  BY <1>2, LongerIs
<1> HIDE DEF e
<1>4. Keys(e) = Keys(map) /\ last_key(e) = l
  BY <1>1, <1>2 DEF Keys, last_key
<1> HIDE DEF l
<1>5. e.stripes \in [Keys(map) -> MultiStripes]
  BY <1>1, <1>2, <1>3
<1>6. e.stripes[l] = Longer(map.stripes[l], n)
      /\ \A k \in Keys(map) \ {l} : e.stripes[k] = map.stripes[k]
  BY <1>1, <1>2
<1>7. Shaped(e)
  BY <1>1, <1>2, <1>4, <1>5 DEF Shaped
<1> QED BY <1>1, <1>4, <1>6, <1>7 DEF e, l

\* One more round
LEMMA GrownExtended ==
    ASSUME NEW map, Shaped(map), NEW n \in Nat
    PROVE  Grown(Extended(map, n)) = Extended(map, n + 1)
<1> DEFINE e == Extended(map, n)
           l == last_key(map)
<1>1. /\ Keys(e) = Keys(map) /\ last_key(e) = l /\ l \in Keys(map)
      /\ e.next_stripe_id = map.next_stripe_id + n
      /\ e = NewMap(e.next_stripe_id, e.stripes, map.min_valid_position)
      /\ e.stripes = [map.stripes EXCEPT ![l] = Longer(map.stripes[l], n)]
      /\ e.stripes[l] = Longer(map.stripes[l], n)
  <2>1. /\ Keys(e) = Keys(map) /\ last_key(e) = l /\ l \in Keys(map)
        /\ e.next_stripe_id = map.next_stripe_id + n
        /\ e.stripes[l] = Longer(map.stripes[l], n)
    BY ExtendedIs DEF Shaped
  <2>2. /\ e = NewMap(e.next_stripe_id, e.stripes, map.min_valid_position)
        /\ e.stripes = [map.stripes EXCEPT ![l] = Longer(map.stripes[l], n)]
    BY DEF Extended, NewMap
  <2> QED BY <2>1, <2>2
<1>2. map.stripes \in [Keys(map) -> MultiStripes] /\ map.next_stripe_id \in Nat
  BY DEF Shaped
<1>3. extend(Longer(map.stripes[l], n)) = Longer(map.stripes[l], n + 1)
  BY <1>1, <1>2, LongerIs
<1> HIDE DEF e, l
<1>4. DOMAIN e.stripes # {} /\ Max(DOMAIN e.stripes) = l
  BY <1>1 DEF Keys, last_key
<1>5. Grown(e) = NewMap(e.next_stripe_id + 1, [e.stripes EXCEPT ![l] = extend(e.stripes[l])],
                        map.min_valid_position)
  BY <1>1, <1>4, GrownIs
<1>6. [e.stripes EXCEPT ![l] = extend(e.stripes[l])] =
        [map.stripes EXCEPT ![l] = Longer(map.stripes[l], n + 1)]
  BY <1>1, <1>2, <1>3
<1>7. e.next_stripe_id + 1 = map.next_stripe_id + (n + 1)
  BY <1>1, <1>2
<1> QED BY <1>5, <1>6, <1>7 DEF Extended, e, l

\* No round
LEMMA ExtendedNone ==
    ASSUME NEW map, Shaped(map), map.stripes[last_key(map)].max_position < Word64
    PROVE  Extended(map, 0) = map
<1> DEFINE l == last_key(map)
<1>1. /\ map = NewMap(map.next_stripe_id, map.stripes, map.min_valid_position)
      /\ map.next_stripe_id \in Nat
      /\ map.stripes \in [Keys(map) -> MultiStripes] /\ l \in Keys(map)
  BY DEF Shaped
<1> HIDE DEF l
<1>2. Longer(map.stripes[l], 0) = map.stripes[l]
  BY <1>1, LongerIs DEF l
<1>3. [map.stripes EXCEPT ![l] = Longer(map.stripes[l], 0)] = map.stripes
  BY <1>1, <1>2
<1>4. map.next_stripe_id + 0 = map.next_stripe_id
  BY <1>1
<1>5. Extended(map, 0) = NewMap(map.next_stripe_id, map.stripes, map.min_valid_position)
  BY <1>3, <1>4 DEF Extended, l
<1> QED BY <1>1, <1>5

\* The map with the first stripe
FirstMap(v) == NewMap(1, [k \in {0} |-> FirstStripe], v)

\* The values that the options can take
OptionsOk == options \in [width : Sides, slots : Sides]

\* The options are numbers, whose product may need more than 32 bits.
LEMMA OptionsAre ==
    ASSUME OptionsOk
    PROVE  /\ options.width \in Nat /\ options.width > 0
           /\ options.slots \in Nat /\ options.slots > 0
           /\ options.width * options.slots \in Nat /\ options.width * options.slots > 0
           /\ options.width * options.slots < Word64
<1> DEFINE w == options.width
           s == options.slots
<1>1. w \in Nat /\ w > 0 /\ w < Word32 /\ s \in Nat /\ s > 0 /\ s < Word32 /\ Word32 \in Nat
  <2>1. w \in Sides /\ s \in Sides
    BY DEF OptionsOk
  <2>2. Sides \subseteq 1 .. Word32 - 1
    BY MappingAssumption
  <2>3. w \in 1 .. Word32 - 1 /\ s \in 1 .. Word32 - 1
    BY <2>1, <2>2
  <2> HIDE DEF w, s
  <2> QED BY <2>3, Words
<1> HIDE DEF w, s
<1>2. w * s \in Nat /\ w * s > 0
  BY <1>1, Products
<1>3. w * s < Word64
  <2> DEFINE x == w * s
             y == Word32 * s
             z == Word32 * Word32
  <2>1. x <= y
    BY <1>1, Products
  <2>2. s + 1 \in Nat /\ s + 1 <= Word32
    BY <1>1
  <2>3. (s + 1) * Word32 <= z /\ (s + 1) * Word32 = s * Word32 + Word32
        /\ s * Word32 = y /\ y \in Nat /\ z \in Nat
    BY <1>1, <2>2, Products
  <2>4. z = Word64 /\ x \in Nat
    BY <1>2, MappingAssumption
  <2> DEFINE u == (s + 1) * Word32
  <2>5. u <= z /\ u = y + Word32
    BY <2>3
  <2> HIDE DEF x, y, z, u
  <2>6. x < z
    BY <1>1, <2>1, <2>3, <2>4, <2>5
  <2> QED BY <2>4, <2>6 DEF x
<1> QED BY <1>1, <1>2, <1>3 DEF w, s

\* The first map has one MultiStripe, with one stripe.
LEMMA FirstMapIs ==
    ASSUME OptionsOk, NEW v
    PROVE  LET f == FirstMap(v) IN
           /\ Shaped(f) /\ Keys(f) = {0} /\ last_key(f) = 0 /\ f.stripes[0] = FirstStripe
           /\ f.next_stripe_id = 1 /\ f.min_valid_position = v
           /\ FirstStripe \in MultiStripes /\ FirstStripe.max_position < Word64
<1> DEFINE f == FirstMap(v)
           y == (options.width * options.slots - 1) % Word32
<1>1. /\ f.stripes = [k \in {0} |-> FirstStripe] /\ f.next_stripe_id = 1 /\ f.min_valid_position = v
      /\ f = NewMap(f.next_stripe_id, f.stripes, f.min_valid_position)
  BY DEF FirstMap, NewMap
<1> HIDE DEF f
<1>2. Keys(f) = {0} /\ f.stripes[0] = FirstStripe
  BY <1>1 DEF Keys
<1>3. last_key(f) = 0
  BY <1>2, MaxOf DEF last_key
<1>4. y \in Nat /\ y < Word64
  <2> DEFINE x == options.width * options.slots
  <2>1. x \in Nat /\ x > 0
    BY OptionsAre
  <2> HIDE DEF x
  <2>2. x - 1 \in Nat
    BY <2>1
  <2>3. (x - 1) % Word32 \in Nat /\ (x - 1) % Word32 < Word32
    BY <2>2, Words
  <2>4. y = (x - 1) % Word32
    BY DEF x
  <2> HIDE DEF y
  <2> QED BY <2>3, <2>4, Words
<1> HIDE DEF y
<1>5. FirstStripe \in MultiStripes /\ FirstStripe.max_position = y
  <2>1. FirstStripe = MultiStripe(0, options.width, options.slots, 0, 1, y)
    BY DEF FirstStripe, y
  <2> QED BY <1>4, <2>1, OptionsAre DEF MultiStripe, MultiStripes
<1>6. f.stripes \in [Keys(f) -> MultiStripes]
  BY <1>1, <1>2, <1>5
<1>7. Shaped(f)
  BY <1>1, <1>2, <1>3, <1>6 DEF Shaped
<1> QED BY <1>1, <1>2, <1>3, <1>4, <1>5, <1>7 DEF f

\* The map after n rounds
Rounds(n) ==
    IF n = 0 THEN om
    ELSE IF Keys(om) = {} THEN Extended(FirstMap(om.min_valid_position), n - 1)
    ELSE Extended(om, n)

\* A map to start from
Startable ==
    /\ OptionsOk
    /\ Keys(om) # {} => Shaped(om) /\ om.stripes[last_key(om)].max_position < Word64

\* One round more is one call of Grown.
LEMMA RoundsGrow ==
    ASSUME Startable, NEW n \in Nat, n > 0
    PROVE  Rounds(n) = Grown(Rounds(n - 1))
<1> DEFINE f == FirstMap(om.min_valid_position)
<1>1. CASE Keys(om) = {} /\ n = 1
  <2>1. Shaped(f) /\ last_key(f) = 0 /\ f.stripes[0] = FirstStripe
        /\ FirstStripe.max_position < Word64
    BY FirstMapIs DEF Startable
  <2>2. Extended(f, 0) = f
    <3> HIDE DEF f
    <3> QED BY <2>1, ExtendedNone
  <2>3. Rounds(1) = f
    BY <1>1, <2>2 DEF Rounds
  <2>4. Rounds(0) = om
    BY DEF Rounds
  <2>5. Grown(om) = f
    BY <1>1 DEF Grown, FirstMap
  <2> QED BY <1>1, <2>3, <2>4, <2>5
<1>2. CASE Keys(om) = {} /\ n > 1
  <2>1. n - 2 \in Nat /\ n - 1 # 0 /\ n - 1 - 1 = n - 2 /\ n - 2 + 1 = n - 1 /\ n # 0
    BY <1>2
  <2>2. Shaped(f)
    BY FirstMapIs DEF Startable
  <2>3. Grown(Extended(f, n - 2)) = Extended(f, n - 2 + 1)
    <3> HIDE DEF f
    <3> QED BY <2>1, <2>2, GrownExtended
  <2>4. Rounds(n) = Extended(f, n - 1) /\ Rounds(n - 1) = Extended(f, n - 2)
    BY <1>2, <2>1 DEF Rounds
  <2> QED BY <2>1, <2>3, <2>4
<1>3. CASE Keys(om) # {}
  <2>1. Shaped(om) /\ om.stripes[last_key(om)].max_position < Word64
    BY <1>3 DEF Startable
  <2>2. n - 1 \in Nat /\ n - 1 + 1 = n /\ n # 0
    OBVIOUS
  <2>3. Grown(Extended(om, n - 1)) = Extended(om, n - 1 + 1)
    BY <2>1, <2>2, GrownExtended
  <2>4. Rounds(n - 1) = Extended(om, n - 1)
    <3>1. CASE n - 1 = 0
      BY <2>1, <3>1, ExtendedNone DEF Rounds
    <3>2. CASE n - 1 # 0
      BY <1>3, <3>2 DEF Rounds
    <3> QED BY <3>1, <3>2
  <2>5. Rounds(n) = Extended(om, n)
    BY <1>3, <2>2 DEF Rounds
  <2> QED BY <2>2, <2>3, <2>4, <2>5
<1>4. n = 1 \/ n > 1
  OBVIOUS
<1> QED BY <1>1, <1>2, <1>3, <1>4

\* The loop's rounds, in one step
LEMMA GrownByIs ==
    ASSUME Startable, NEW n \in Nat
    PROVE  GrownBy[n] = Rounds(n)
<1> DEFINE Eq(h) == h = [i \in Nat |-> IF i = 0 THEN om ELSE Grown(h[i - 1])]
           g == [i \in Nat |-> Rounds(i)]
<1>1. GrownBy = CHOOSE h : Eq(h)
  BY DEF GrownBy
<1>2. Eq(g)
  <2>1. ASSUME NEW i \in Nat
        PROVE  Rounds(i) = IF i = 0 THEN om ELSE Grown(g[i - 1])
    <3>1. CASE i = 0
      BY <3>1 DEF Rounds
    <3>2. CASE i # 0
      <4>1. i > 0 /\ i - 1 \in Nat
        BY <3>2
      <4>2. g[i - 1] = Rounds(i - 1)
        BY <4>1
      <4> QED BY <3>2, <4>1, <4>2, RoundsGrow
    <3> QED BY <3>1, <3>2
  <2> QED BY <2>1
<1>3. Eq(GrownBy)
  <2>1. \E h : Eq(h)
    BY <1>2
  <2> HIDE DEF Eq
  <2> QED BY <1>1, <2>1
<1>4. /\ GrownBy[0] = om
      /\ \A i \in Nat : i > 0 => GrownBy[i] = Grown(GrownBy[i - 1])
  BY <1>3
<1> DEFINE Bad == {i \in Nat : GrownBy[i] # Rounds(i)}
<1>5. ASSUME Bad # {} PROVE FALSE
  <2>1. PICK i \in Bad : \A y \in Bad : i <= y
    <3>1. Bad \subseteq Nat
      OBVIOUS
    <3> HIDE DEF Bad
    <3> QED BY <1>5, <3>1, Least
  <2>2. i \in Nat /\ GrownBy[i] # Rounds(i)
    OBVIOUS
  <2>3. i # 0
    BY <1>4, <2>2 DEF Rounds
  <2>4. i > 0 /\ i - 1 \in Nat /\ ~(i <= i - 1)
    BY <2>2, <2>3
  <2>5. GrownBy[i - 1] = Rounds(i - 1)
    BY <2>1, <2>4
  <2> QED BY <1>4, <2>2, <2>4, <2>5, RoundsGrow
<1> QED BY <1>5

\* The asserts of MultiStripe's constructor, where nothing wraps around
LEMMA ConstructibleIf ==
    ASSUME NEW m, StripeOk(m), (m.base_id > 0) <=> (m.min_position > 0)
    PROVE  Constructible(m)
<1> DEFINE b == m.width * m.slots
           x == m.instances * b
<1>1. /\ m.width \in Nat /\ m.slots \in Nat /\ m.min_position \in Nat
      /\ m.instances \in Nat /\ m.max_position \in Nat
      /\ m.width > 0 /\ m.slots > 0 /\ m.instances > 0 /\ m.max_position < Word64
      /\ m.max_position = m.min_position + x - 1
  BY DEF StripeOk, MultiStripes
<1>2. b \in Nat /\ b > 0
  BY <1>1, Products
<1>3. x \in Nat /\ x > 0
  <2> HIDE DEF b
  <2> QED BY <1>1, <1>2, Products
<1>4. m.instances * m.width * m.slots = x
  BY <1>1, Products
<1>5. m.min_position + m.instances * m.width * m.slots - 1 = m.max_position
  BY <1>1, <1>4
<1> HIDE DEF x
<1>6. m.max_position % Word64 = m.max_position
  BY <1>1, Words
<1>7. m.min_position <= m.max_position
  BY <1>1, <1>3
<1>8. m.max_position = (m.min_position + m.instances * m.width * m.slots - 1) % Word64
  BY <1>5, <1>6
<1> QED BY <1>1, <1>7, <1>8 DEF Constructible

\* A MultiStripe can be made longer up to the last position.
LEMMA LongerOk ==
    ASSUME NEW m, StripeOk(m), NEW n \in Nat, m.max_position + n * (m.width * m.slots) < Word64
    PROVE  LET e == Longer(m, n) IN
           /\ StripeOk(e) /\ e.max_position = m.max_position + n * (m.width * m.slots)
           /\ e.instances = m.instances + n
           /\ e.base_id = m.base_id /\ e.min_position = m.min_position
           /\ e.width = m.width /\ e.slots = m.slots
<1> DEFINE e == Longer(m, n)
           b == m.width * m.slots
           x == n * b
           y == m.instances * b
           z == (m.instances + n) * b
<1>1. /\ m \in MultiStripes /\ m.width \in Nat /\ m.slots \in Nat /\ m.min_position \in Nat
      /\ m.instances \in Nat /\ m.max_position \in Nat /\ m.instances > 0
      /\ m.max_position = m.min_position + y - 1
  BY DEF StripeOk, MultiStripes
<1>2. b \in Nat
  BY <1>1, Products
<1>3. x \in Nat /\ y \in Nat /\ z = y + x
  <2> HIDE DEF b
  <2> QED BY <1>1, <1>2, Products
<1>4. /\ e.instances = m.instances + n /\ e.max_position = (m.max_position + x) % Word64
      /\ e.base_id = m.base_id /\ e.min_position = m.min_position
      /\ e.width = m.width /\ e.slots = m.slots
  BY DEF Longer, MultiStripe
<1>5. m.max_position + x < Word64
  OBVIOUS
<1>6. e \in MultiStripes
  BY <1>1, LongerIs
<1> HIDE DEF e
<1>7. e.instances * (e.width * e.slots) = z
  BY <1>4
<1>8. m.width > 0 /\ m.slots > 0
  BY DEF StripeOk
<1> HIDE DEF x, y, z
<1>9. e.max_position = m.max_position + x
  <2>1. m.max_position + x \in Nat
    BY <1>1, <1>3
  <2>2. (m.max_position + x) % Word64 = m.max_position + x
    BY <1>5, <2>1, Words
  <2> QED BY <1>4, <2>2
<1>10. e.max_position = e.min_position + e.instances * (e.width * e.slots) - 1
  BY <1>1, <1>3, <1>4, <1>7, <1>9
<1>11. e.instances > 0
  BY <1>1, <1>4
<1>12. StripeOk(e)
  BY <1>4, <1>5, <1>6, <1>8, <1>9, <1>10, <1>11 DEF StripeOk
<1> QED BY <1>4, <1>9, <1>12 DEF e, x

\* A sound map has a last MultiStripe.
LEMMA OkShaped ==
    ASSUME NEW map, MapOk(map), Keys(map) # {}
    PROVE  Shaped(map) /\ map.stripes[last_key(map)].max_position < Word64
<1>1. Tiled(map)
  BY OkTiled
<1>2. last_key(map) \in Keys(map)
  BY <1>1 DEF Tiled
<1> QED BY <1>2 DEF MapOk, Typed, Shaped, StripeOk

\* The map of more stripes of the same kind is sound, up to the last position.
LEMMA ExtendedOk ==
    ASSUME NEW map, MapOk(map), Keys(map) # {}, NEW n \in Nat,
           End(map, last_key(map)) + n * Per(map, last_key(map)) <= Word64
    PROVE  LET e == Extended(map, n)
               l == last_key(map)
           IN  /\ MapOk(e) /\ Keys(e) = Keys(map) /\ last_key(e) = l
               /\ End(e, l) = End(map, l) + n * Per(map, l)
               /\ \A k \in Keys(map) : Base(e, k) = Base(map, k) /\ Per(e, k) = Per(map, k)
                    /\ e.stripes[k].width = map.stripes[k].width
                    /\ e.stripes[k].slots = map.stripes[k].slots
               /\ e.next_stripe_id = map.next_stripe_id + n
               /\ e.min_valid_position = map.min_valid_position
<1> DEFINE e == Extended(map, n)
           l == last_key(map)
           m == map.stripes[l]
<1>1. Shaped(map) /\ Tiled(map) /\ Typed(map) /\ Sound(map)
      /\ \A k \in Keys(map) : StripeOk(map.stripes[k])
  BY OkShaped, OkTiled DEF MapOk
<1>2. /\ Shaped(e) /\ Keys(e) = Keys(map) /\ last_key(e) = l
      /\ e.next_stripe_id = map.next_stripe_id + n
      /\ e.min_valid_position = map.min_valid_position
      /\ e.stripes[l] = Longer(m, n)
      /\ \A k \in Keys(map) \ {l} : e.stripes[k] = map.stripes[k]
  BY <1>1, ExtendedIs
<1>3. l \in Keys(map) /\ l \in Nat /\ \A k \in Keys(map) : k <= l
  BY <1>1 DEF Tiled
<1> HIDE DEF e
<1>4. /\ StripeOk(Longer(m, n)) /\ Longer(m, n).max_position = m.max_position + n * (m.width * m.slots)
      /\ Longer(m, n).instances = m.instances + n
      /\ Longer(m, n).base_id = m.base_id /\ Longer(m, n).min_position = m.min_position
      /\ Longer(m, n).width = m.width /\ Longer(m, n).slots = m.slots
  <2> DEFINE x == n * (m.width * m.slots)
  <2>1. StripeOk(m)
    BY <1>1, <1>3
  <2>2. m.max_position \in Nat
    BY <2>1 DEF StripeOk, MultiStripes
  <2>3. m.max_position + 1 + x <= Word64
    BY DEF End, Per
  <2>4. x \in Nat
    <3>1. Per(map, l) \in Nat
      BY <1>1, <1>3, TileAt
    <3>2. m.width * m.slots \in Nat
      BY <3>1 DEF Per
    <3> DEFINE b == m.width * m.slots
    <3> HIDE DEF b
    <3>3. n * b \in Nat
      BY <3>2, Products DEF b
    <3> QED BY <3>3 DEF b
  <2> HIDE DEF m
  <2>5. m.max_position + x < Word64
    <3> HIDE DEF x
    <3> QED BY <2>2, <2>3, <2>4, Words
  <2> QED BY <2>1, <2>5, LongerOk
<1> HIDE DEF m
<1>5. ASSUME NEW k \in Keys(map)
      PROVE  /\ StripeOk(e.stripes[k])
             /\ e.stripes[k].base_id = map.stripes[k].base_id
             /\ e.stripes[k].min_position = map.stripes[k].min_position
             /\ e.stripes[k].width = map.stripes[k].width
             /\ e.stripes[k].slots = map.stripes[k].slots
  <2>1. CASE k = l
    BY <1>2, <1>4, <2>1 DEF m
  <2>2. CASE k # l
    BY <1>1, <1>2, <2>2
  <2> QED BY <2>1, <2>2
<1>6. valid(map) /\ \A k \in Keys(map) : Constructible(map.stripes[k])
  BY <1>1 DEF Sound
<1>7. ASSUME NEW k \in Keys(map) PROVE Constructible(e.stripes[k])
  <2>1. (map.stripes[k].base_id > 0) <=> (map.stripes[k].min_position > 0)
    BY <1>6 DEF Constructible
  <2> QED BY <1>5, <2>1, ConstructibleIf
<1>8. m.base_id \in Nat /\ m.instances \in Nat /\ m.base_id + m.instances = map.next_stripe_id
  <2>1. Base(map, l) \in Nat /\ Inst(map, l) \in Nat
        /\ Base(map, l) + Inst(map, l) = map.next_stripe_id
    BY <1>1, <1>3 DEF Tiled
  <2> QED BY <2>1 DEF Base, Inst, m
<1>9. valid(e)
  <2>1. \A k \in Keys(e) : e.stripes[k].min_position = k
    BY <1>2, <1>5, <1>6 DEF valid
  <2>2. \A j, k \in Keys(e) : j # k => e.stripes[j].base_id # e.stripes[k].base_id
    BY <1>2, <1>5, <1>6 DEF valid
  <2>3. e.next_stripe_id = max_stripe_id(e.stripes[last_key(e)]) + 1
    BY <1>2, <1>4, <1>8 DEF max_stripe_id
  <2>4. 0 \in Keys(e) /\ e.stripes[0].base_id = 0
    BY <1>2, <1>5, <1>6 DEF valid
  <2>5. ASSUME NEW k \in Keys(e) \ {0}
        PROVE  LET prev == e.stripes[Max({j \in Keys(e) : j < k})]
               IN  prev.max_position + 1 = k /\ max_stripe_id(prev) + 1 = e.stripes[k].base_id
    <3> DEFINE S == {j \in Keys(map) : j < k}
               j == Max(S)
    <3>1. S \subseteq Nat /\ 0 \in S /\ k \in Nat /\ \A y \in S : y <= k
      BY <1>1, <1>2, <2>4 DEF Tiled
    <3>2. j \in S
      <4> HIDE DEF S
      <4> QED BY <3>1, MaxIs
    <3>3. j \in Keys(map) /\ j # l
      <4>1. j \in Nat /\ j < k /\ k <= l
        BY <1>2, <1>3, <3>1, <3>2
      <4> HIDE DEF j
      <4> QED BY <1>3, <3>1, <3>2, <4>1
    <3>4. e.stripes[j] = map.stripes[j]
      BY <1>2, <3>3
    <3>5. /\ map.stripes[j].max_position + 1 = k
          /\ max_stripe_id(map.stripes[j]) + 1 = map.stripes[k].base_id
      BY <1>2, <1>6 DEF valid
    <3>6. Max({i \in Keys(e) : i < k}) = j
      BY <1>2
    <3> HIDE DEF j, S
    <3> QED BY <1>2, <1>5, <3>4, <3>5, <3>6
  <2> HIDE DEF l
  <2> QED BY <1>2, <2>1, <2>2, <2>3, <2>4, <2>5 DEF valid
<1>10. Typed(e)
  BY <1>1, <1>2 DEF Shaped, Typed
<1>11. MapOk(e)
  BY <1>2, <1>5, <1>7, <1>9, <1>10 DEF MapOk, Sound
<1>12. End(e, l) = End(map, l) + n * Per(map, l)
  <2> DEFINE x == n * (m.width * m.slots)
  <2>1. e.stripes[l].max_position = m.max_position + x
    BY <1>2, <1>4
  <2>2. m.max_position \in Nat /\ x \in Nat
    <3>1. m.max_position \in Nat /\ m.width \in Nat /\ m.slots \in Nat
      BY <1>1, <1>3 DEF m, Tiled
    <3>2. m.width * m.slots \in Nat
      BY <3>1, Products
    <3> DEFINE b == m.width * m.slots
    <3> HIDE DEF b
    <3>3. n * b \in Nat
      BY <3>2, Products DEF b
    <3> QED BY <3>1, <3>3 DEF b
  <2>3. End(map, l) = m.max_position + 1 /\ n * Per(map, l) = x
    BY DEF End, Per, m
  <2> HIDE DEF x
  <2> QED BY <2>1, <2>2, <2>3 DEF End
<1> QED BY <1>2, <1>5, <1>11, <1>12 DEF e, l, Base, Per

\* The first map is sound exactly if its size is the one that 32 bits hold.
LEMMA FirstMapOk ==
    ASSUME OptionsOk, NEW v \in 0 .. Word64 - 1
    PROVE  LET f == FirstMap(v)
               size == options.width * options.slots
           IN  /\ size <= Word32 => MapOk(f) /\ End(f, 0) = size
               /\ size > Word32 => ~Sound(f)
               /\ Per(f, 0) = size
<1> DEFINE f == FirstMap(v)
           w == options.width
           s == options.slots
           size == w * s
           y == (size - 1) % Word32
<1>1. /\ Shaped(f) /\ Keys(f) = {0} /\ last_key(f) = 0 /\ f.stripes[0] = FirstStripe
      /\ f.next_stripe_id = 1 /\ f.min_valid_position = v
      /\ FirstStripe \in MultiStripes
  BY FirstMapIs
<1>2. /\ w \in Nat /\ w > 0 /\ s \in Nat /\ s > 0
      /\ size \in Nat /\ size > 0 /\ size < Word64
  BY OptionsAre
<1>3. FirstStripe = MultiStripe(0, w, s, 0, 1, y)
  BY DEF FirstStripe
<1>4. Per(f, 0) = size
  BY <1>1, <1>3 DEF Per, MultiStripe
<1> HIDE DEF f
<1>5. 0 + 1 * w * s - 1 = size - 1 /\ 0 + 1 * (w * s) - 1 = size - 1
  BY <1>2
<1>6. (size - 1) % Word64 = size - 1
  <2> HIDE DEF size
  <2> QED BY <1>2, Words
<1>7. ASSUME size > Word32 PROVE ~Sound(f)
  <2>1. y < Word32 /\ y \in Nat
    <3> HIDE DEF size
    <3>1. size - 1 \in Nat
      BY <1>2
    <3> QED BY <3>1, Words
  <2>2. y # size - 1
    <3> HIDE DEF size, y
    <3> QED BY <1>2, <1>7, <2>1, Words
  <2>3. ~Constructible(FirstStripe)
    <3> SUFFICES ASSUME Constructible(FirstStripe) PROVE FALSE
      OBVIOUS
    <3>1. y = (0 + 1 * w * s - 1) % Word64
      BY <1>3 DEF Constructible, MultiStripe
    <3> HIDE DEF w, s, y, size
    <3> QED BY <1>5, <1>6, <2>2, <3>1
  <2> QED BY <1>1, <2>3 DEF Sound
<1>8. ASSUME size <= Word32 PROVE MapOk(f) /\ End(f, 0) = size
  <2>1. y = size - 1
    <3> HIDE DEF size
    <3> QED BY <1>2, <1>8, Words
  <2>2. StripeOk(FirstStripe)
    <3> DEFINE m == FirstStripe
    <3>1. /\ m.base_id = 0 /\ m.width = w /\ m.slots = s /\ m.min_position = 0
          /\ m.instances = 1 /\ m.max_position = y
      BY <1>3 DEF MultiStripe
    <3> HIDE DEF m, w, s, y
    <3>2. m.max_position = m.min_position + m.instances * (m.width * m.slots) - 1
      BY <1>5, <2>1, <3>1
    <3>3. m.max_position < Word64
      BY <1>2, <2>1, <3>1, Words
    <3>4. m \in MultiStripes
      BY <1>1 DEF m
    <3> QED BY <1>2, <3>1, <3>2, <3>3, <3>4 DEF StripeOk, m
  <2>3. FirstStripe.base_id = 0 /\ FirstStripe.min_position = 0 /\ FirstStripe.instances = 1
        /\ FirstStripe.max_position = y
    BY <1>3 DEF MultiStripe
  <2>4. Constructible(FirstStripe)
    BY <2>2, <2>3, ConstructibleIf
  <2>5. valid(f)
    <3>1. max_stripe_id(FirstStripe) + 1 = 1
      BY <2>3 DEF max_stripe_id
    <3> QED BY <1>1, <2>3, <3>1 DEF valid
  <2>6. Typed(f)
    <3>1. {0} \subseteq 0 .. Word64 - 1
      BY Words
    <3> QED BY <1>1, <3>1 DEF Shaped, Typed
  <2>7. MapOk(f)
    BY <1>1, <2>2, <2>4, <2>5, <2>6 DEF MapOk, Sound
  <2>8. End(f, 0) = size
    <3>1. End(f, 0) = y + 1
      BY <1>1, <2>3 DEF End
    <3> HIDE DEF size, y
    <3> QED BY <1>2, <2>1, <3>1
  <2> QED BY <2>7, <2>8
<1> QED BY <1>4, <1>7, <1>8 DEF f

\* The size of the stripes that an expansion adds, and the end of the map after n of them
Size == IF Keys(om) = {} THEN options.width * options.slots ELSE Per(om, last_key(om))

Reach(n) == (IF Keys(om) = {} THEN 0 ELSE End(om, last_key(om))) + n * Size

\* Stripes have at most 2^32 positions, and those of 2^32 are of the options' size.
Capped(map) ==
    \A k \in Keys(map) :
      \/ Per(map, k) < Word32
      \/ /\ k = 0 /\ Per(map, k) = Word32
         /\ map.stripes[k].width = options.width /\ map.stripes[k].slots = options.slots

\* The inductive invariant
MapInv == OptionsOk /\ MapOk(om) /\ Capped(om)

\* An expansion starts from it, unless it is the assert's turn.
Expandable == MapInv /\ (Keys(om) = {} => options.width * options.slots <= Word32)

\* Rounds of the loop can start.
LEMMA InvStartable == ASSUME MapInv PROVE Startable
BY OkShaped DEF MapInv, Startable

\* How far rounds reach
LEMMA ReachIs ==
    ASSUME Expandable
    PROVE  /\ Size \in Nat /\ Size > 0 /\ Size <= Word32
           /\ Reach(0) \in Nat
           /\ \A n \in Nat : Reach(n) \in Nat /\ Reach(n + 1) = Reach(n) + Size /\ n <= Reach(n)
                             /\ Reach(n) = Reach(0) + n * Size
<1>1. Size \in Nat /\ Size > 0 /\ Size <= Word32
  <2>1. CASE Keys(om) = {}
    BY <2>1, OptionsAre DEF Size, Expandable, MapInv
  <2>2. CASE Keys(om) # {}
    <3> DEFINE l == last_key(om)
    <3>1. Tiled(om) /\ l \in Keys(om)
      BY <2>2, OkTiled DEF Expandable, MapInv, Tiled
    <3> HIDE DEF l
    <3>2. Per(om, l) \in Nat /\ Per(om, l) > 0
      BY <3>1, TileAt
    <3>3. Per(om, l) < Word32 \/ Per(om, l) = Word32
      BY <3>1 DEF Expandable, MapInv, Capped
    <3>4. Size = Per(om, l)
      BY <2>2 DEF Size, l
    <3> QED BY <3>2, <3>3, <3>4, Words
  <2> QED BY <2>1, <2>2
<1> DEFINE a == IF Keys(om) = {} THEN 0 ELSE End(om, last_key(om))
<1>2. a \in Nat
  <2>1. CASE Keys(om) = {}
    BY <2>1
  <2>2. CASE Keys(om) # {}
    <3> DEFINE l == last_key(om)
    <3>1. Tiled(om) /\ l \in Keys(om)
      BY <2>2, OkTiled DEF Expandable, MapInv, Tiled
    <3>2. End(om, l) \in Nat
      BY <3>1, TileAt
    <3> QED BY <2>2, <3>2
  <2> QED BY <2>1, <2>2
<1>3. \A n \in Nat : Reach(n) = a + n * Size
  BY DEF Reach
<1> HIDE DEF a
<1>4. 0 * Size = 0
  BY <1>1
<1>5. Reach(0) = a
  BY <1>2, <1>3, <1>4
<1>6. ASSUME NEW n \in Nat
      PROVE  Reach(n) \in Nat /\ Reach(n + 1) = Reach(n) + Size /\ n <= Reach(n)
  <2> DEFINE x == n * Size
             y == (n + 1) * Size
  <2>1. x \in Nat /\ y = x + Size /\ n <= x
    BY <1>1, Products
  <2>2. Reach(n) = a + x /\ Reach(n + 1) = a + y
    BY <1>3
  <2> HIDE DEF x, y
  <2> QED BY <1>1, <1>2, <2>1, <2>2
<1> QED BY <1>1, <1>2, <1>3, <1>5, <1>6

\* What the map is after n rounds, as long as it ends below 2^64
RoundOk(e, n) ==
    /\ MapOk(e) /\ Keys(e) # {} /\ Capped(e)
    /\ End(e, last_key(e)) = Reach(n) /\ Per(e, last_key(e)) = Size
    /\ e.min_valid_position = om.min_valid_position
    /\ Keys(om) = {} => Keys(e) = {0} /\ e.next_stripe_id = n
    /\ Keys(om) # {} =>
         /\ Keys(e) = Keys(om) /\ e.next_stripe_id = om.next_stripe_id + n
         /\ \A k \in Keys(om) : Base(e, k) = Base(om, k) /\ Per(e, k) = Per(om, k)
                                /\ e.stripes[k].width = om.stripes[k].width

\* It is sound.
LEMMA RoundsOk ==
    ASSUME Expandable, NEW n \in Nat, n > 0, Reach(n) <= Word64
    PROVE  RoundOk(Rounds(n), n)
<1>1. OptionsOk /\ MapOk(om) /\ Capped(om)
  BY DEF Expandable, MapInv
<1>2. CASE Keys(om) = {}
  <2> DEFINE f == FirstMap(om.min_valid_position)
             size == options.width * options.slots
             m == n - 1
             e == Extended(f, m)
  <2>1. om.min_valid_position \in 0 .. Word64 - 1
    BY <1>1 DEF MapOk, Typed
  <2>2. size <= Word32
    BY <1>2 DEF Expandable
  <2>3. MapOk(f) /\ End(f, 0) = size /\ Per(f, 0) = size
    BY <1>1, <2>1, <2>2, FirstMapOk
  <2>4. /\ Keys(f) = {0} /\ last_key(f) = 0 /\ f.stripes[0] = FirstStripe
        /\ f.next_stripe_id = 1 /\ f.min_valid_position = om.min_valid_position
    BY <1>1, FirstMapIs
  <2>5. m \in Nat /\ n = m + 1
    OBVIOUS
  <2> HIDE DEF f, m
  <2>6. Size = size
    BY <1>2 DEF Size
  <2>7. Reach(n) = size + m * size /\ m * size \in Nat /\ size \in Nat
    <3> DEFINE x == m * size
               y == n * size
    <3>1. size \in Nat
      BY <1>1, OptionsAre
    <3>2. x \in Nat /\ y = x + size
      <4> HIDE DEF size
      <4> QED BY <2>5, <3>1, Products
    <3>3. Reach(n) = 0 + y
      BY <1>2, <2>6 DEF Reach
    <3> HIDE DEF x, y, size
    <3>4. Reach(n) = size + x
      BY <3>1, <3>2, <3>3
    <3> QED BY <3>1, <3>2, <3>4 DEF x
  <2>8. Keys(f) # {} /\ End(f, last_key(f)) + m * Per(f, last_key(f)) = Reach(n)
    BY <2>3, <2>4, <2>7
  <2>9. /\ MapOk(e) /\ Keys(e) = Keys(f) /\ last_key(e) = last_key(f)
        /\ End(e, last_key(f)) = End(f, last_key(f)) + m * Per(f, last_key(f))
        /\ \A k \in Keys(f) : Base(e, k) = Base(f, k) /\ Per(e, k) = Per(f, k)
             /\ e.stripes[k].width = f.stripes[k].width
             /\ e.stripes[k].slots = f.stripes[k].slots
        /\ e.next_stripe_id = f.next_stripe_id + m
        /\ e.min_valid_position = f.min_valid_position
    BY <2>3, <2>5, <2>8, ExtendedOk
  <2>10. Rounds(n) = e
    BY <1>2 DEF Rounds, f, m
  <2> HIDE DEF e
  <2>11. e.next_stripe_id = n
    BY <2>4, <2>5, <2>9
  <2>12. Capped(e)
    <3>1. FirstStripe.width = options.width /\ FirstStripe.slots = options.slots
      BY DEF FirstStripe, MultiStripe
    <3>2. Per(e, 0) = size /\ e.stripes[0].width = options.width
          /\ e.stripes[0].slots = options.slots /\ Keys(e) = {0}
      BY <2>3, <2>4, <2>9, <3>1
    <3>3. size < Word32 \/ size = Word32
      <4> HIDE DEF size
      <4> QED BY <2>2, <2>7, Words
    <3> QED BY <3>2, <3>3 DEF Capped
  <2>13. End(e, last_key(e)) = Reach(n) /\ Per(e, last_key(e)) = Size
    BY <2>3, <2>4, <2>6, <2>8, <2>9
  <2>14. RoundOk(e, n)
    BY <1>2, <2>4, <2>9, <2>11, <2>12, <2>13 DEF RoundOk
  <2> QED BY <2>10, <2>14
<1>3. CASE Keys(om) # {}
  <2> DEFINE e == Extended(om, n)
             l == last_key(om)
  <2>1. Rounds(n) = e
    BY <1>3 DEF Rounds
  <2>2. Reach(n) = End(om, l) + n * Per(om, l) /\ Size = Per(om, l)
    BY <1>3 DEF Reach, Size
  <2>3. /\ MapOk(e) /\ Keys(e) = Keys(om) /\ last_key(e) = l
        /\ End(e, l) = End(om, l) + n * Per(om, l)
        /\ \A k \in Keys(om) : Base(e, k) = Base(om, k) /\ Per(e, k) = Per(om, k)
             /\ e.stripes[k].width = om.stripes[k].width
             /\ e.stripes[k].slots = om.stripes[k].slots
        /\ e.next_stripe_id = om.next_stripe_id + n
        /\ e.min_valid_position = om.min_valid_position
    BY <1>1, <1>3, <2>2, ExtendedOk
  <2>4. l \in Keys(om)
    BY <1>1, <1>3, OkTiled DEF Tiled
  <2> HIDE DEF e, l
  <2>5. Capped(e)
    BY <1>1, <2>3 DEF Capped
  <2>6. RoundOk(e, n)
    BY <1>3, <2>2, <2>3, <2>4, <2>5 DEF RoundOk
  <2> QED BY <2>1, <2>6
<1> QED BY <1>2, <1>3

\* A round maps the positions below its end, the map itself those below its own.
LEMMA RoundMaps ==
    ASSUME Expandable, NEW q \in Nat
    PROVE  /\ Maps(om, q) <=> q < Reach(0)
           /\ \A n \in Nat : n > 0 /\ Reach(n) <= Word64 =>
                (Maps(Rounds(n), q) <=> q < Reach(n))
<1>1. Maps(om, q) <=> q < Reach(0)
  <2>1. CASE Keys(om) = {}
    <3>1. 0 * Size = 0
      BY ReachIs
    <3>2. Reach(0) = 0
      BY <2>1, <3>1 DEF Reach
    <3> QED BY <2>1, <3>2 DEF Maps
  <2>2. CASE Keys(om) # {}
    <3>1. Tiled(om) /\ last_key(om) \in Keys(om)
      BY <2>2, OkTiled DEF Expandable, MapInv, Tiled
    <3>2. End(om, last_key(om)) \in Nat
      BY <3>1, TileAt
    <3>3. 0 * Size = 0
      BY ReachIs
    <3>4. Reach(0) = End(om, last_key(om))
      BY <2>2, <3>2, <3>3 DEF Reach
    <3> QED BY <2>2, <3>1, <3>4, MapsIs
  <2> QED BY <2>1, <2>2
<1>2. ASSUME NEW n \in Nat, n > 0, Reach(n) <= Word64
      PROVE  Maps(Rounds(n), q) <=> q < Reach(n)
  <2> DEFINE e == Rounds(n)
  <2>1. RoundOk(e, n)
    BY <1>2, RoundsOk
  <2> HIDE DEF e
  <2>2. Tiled(e) /\ Keys(e) # {} /\ End(e, last_key(e)) = Reach(n)
    BY <2>1, OkTiled DEF RoundOk
  <2>3. Maps(e, q) <=> q < Reach(n)
    BY <2>2, MapsIs
  <2> QED BY <2>3 DEF e
<1> QED BY <1>1, <1>2

\* No position moves.
LEMMA RoundKeeps ==
    ASSUME MapInv, NEW e, NEW n \in Nat, RoundOk(e, n), Reach(0) <= Reach(n),
           NEW q \in Mapped(om), Expandable
    PROVE  Maps(e, q) /\ RefOid(e, q) = RefOid(om, q)
<1>1. q \in Nat /\ Maps(om, q)
  BY Words DEF Mapped
<1>2. Tiled(om) /\ Tiled(e) /\ Keys(om) # {}
  BY <1>1, OkTiled DEF RoundOk, MapInv, Maps
<1>3. /\ Keys(e) = Keys(om) /\ End(e, last_key(e)) = Reach(n)
      /\ \A k \in Keys(om) : Base(e, k) = Base(om, k) /\ Per(e, k) = Per(om, k)
                             /\ e.stripes[k].width = om.stripes[k].width
  BY <1>2 DEF RoundOk
<1>4. Maps(e, q)
  <2>1. q < Reach(0) /\ Reach(0) \in Nat /\ Reach(n) \in Nat
    BY <1>1, RoundMaps, ReachIs
  <2>2. q < Reach(n)
    BY <1>1, <2>1
  <2> QED BY <1>1, <1>2, <1>3, <2>2, MapsIs
<1>5. KeyAt(e, q) = KeyAt(om, q)
  BY <1>3 DEF KeyAt
<1>6. KeyAt(om, q) \in Keys(om)
  BY <1>1, <1>2, KeyAtIs
<1>7. StripeNo(e, q) = StripeNo(om, q)
  BY <1>3, <1>5, <1>6 DEF StripeNo
<1>8. RefStripe(e, q) = RefStripe(om, q)
  BY <1>1, <1>2, <1>4, <1>7, Counted
<1>9. RefWidth(e, q) = RefWidth(om, q)
  <2>1. RefWidth(e, q) = e.stripes[KeyAt(e, q)].width
        /\ RefWidth(om, q) = om.stripes[KeyAt(om, q)].width
    BY DEF RefWidth, KeyAt
  <2> QED BY <1>3, <1>5, <1>6, <2>1
<1> QED BY <1>4, <1>8, <1>9 DEF RefOid

\* The number of rounds that expand_mapping makes
LoopRounds(p) == Min({k \in 1 .. p + 1 : ~Sound(GrownBy[k]) \/ Maps(GrownBy[k], p)})

\* What the loop ends with
Expanded(e, p) ==
    /\ MapOk(e) /\ Capped(e) /\ Maps(e, p) /\ Keys(e) # {}
    /\ e.min_valid_position = om.min_valid_position
    /\ \A q \in Mapped(om) : Maps(e, q) /\ RefOid(e, q) = RefOid(om, q)
    /\ p >= Max(Starts(e))

\* The loop stops with the first map that maps the position.
LEMMA Expansion ==
    ASSUME Expandable, NEW p \in Positions, ~Maps(om, p)
    PROVE  Expanded(GrownBy[LoopRounds(p)], p)
<1> DEFINE Far == {k \in Nat : p < Reach(k)}
           S == {k \in 1 .. p + 1 : ~Sound(GrownBy[k]) \/ Maps(GrownBy[k], p)}
<1>1. p \in Nat /\ p <= TopPosition /\ TopPosition \in Nat /\ TopPosition + Word32 <= Word64
  BY MappingAssumption DEF Positions
<1>2. /\ Size \in Nat /\ Size > 0 /\ Size <= Word32 /\ Reach(0) \in Nat
      /\ \A n \in Nat : Reach(n) \in Nat /\ Reach(n + 1) = Reach(n) + Size /\ n <= Reach(n)
                        /\ Reach(n) = Reach(0) + n * Size
  BY ReachIs
<1>3. Far # {} /\ Far \subseteq Nat /\ p + 1 \in Far
  <2>1. p + 1 \in Nat
    BY <1>1
  <2>2. p < Reach(p + 1)
    BY <1>1, <1>2, <2>1
  <2> QED BY <2>1, <2>2
<1>4. PICK n \in Far : \A y \in Far : n <= y
  <2>1. Far # {} /\ Far \subseteq Nat
    BY <1>3
  <2> HIDE DEF Far
  <2> QED BY <2>1, Least
<1>5. n \in Nat /\ p < Reach(n) /\ n <= p + 1
  BY <1>3, <1>4
<1>6. n # 0
  BY <1>1, <1>5, RoundMaps
<1> DEFINE m == n - 1
<1>7. m \in Nat /\ n = m + 1 /\ n > 0 /\ ~(n <= m)
  BY <1>5, <1>6
<1>8. Reach(m) <= p
  <2>1. m \notin Far
    BY <1>4, <1>7
  <2>2. ~(p < Reach(m))
    BY <1>7, <2>1
  <2> HIDE DEF m, Far
  <2>3. Reach(m) \in Nat
    BY <1>2, <1>7
  <2> QED BY <1>1, <2>2, <2>3
<1> HIDE DEF m
<1>9. Reach(n) = Reach(m) + Size /\ Reach(m) \in Nat /\ Reach(n) <= Word64
  BY <1>1, <1>2, <1>7, <1>8, Words
<1>10. \A k \in Nat : GrownBy[k] = Rounds(k)
  BY GrownByIs, InvStartable DEF Expandable
<1>11. RoundOk(Rounds(n), n)
  BY <1>5, <1>7, <1>9, RoundsOk
<1>12. n \in S
  <2>1. Maps(GrownBy[n], p)
    BY <1>1, <1>5, <1>7, <1>9, <1>10, RoundMaps
  <2> QED BY <1>1, <1>5, <1>7, <2>1
<1>13. ASSUME NEW k \in S PROVE n <= k
  <2>1. k \in Nat /\ k > 0
    BY <1>1
  <2>2. CASE k < n
    <3>1. k \notin Far
      BY <1>4, <1>5, <2>1, <2>2
    <3>2. Reach(k) <= p /\ Reach(k) <= Word64
      <4>1. ~(p < Reach(k)) /\ Reach(k) \in Nat
        BY <1>2, <2>1, <3>1
      <4> HIDE DEF Far
      <4> QED BY <1>1, <4>1, Words
    <3>3. ~Maps(Rounds(k), p)
      BY <1>1, <1>2, <2>1, <3>2, RoundMaps
    <3>4. Sound(Rounds(k))
      BY <2>1, <3>2, RoundsOk DEF RoundOk, MapOk
    <3> QED BY <1>10, <2>1, <3>3, <3>4
  <2> QED BY <1>5, <2>1, <2>2
<1>14. LoopRounds(p) = n
  <2>1. Min(S) \in S /\ Min(S) <= n
    <3>1. S \subseteq Nat
      BY <1>1
    <3> HIDE DEF S
    <3> QED BY <1>12, <3>1, MinIs
  <2>2. n <= Min(S) /\ Min(S) \in Nat
    <3>1. S \subseteq Nat
      BY <1>1
    <3> HIDE DEF S
    <3> QED BY <1>13, <2>1, <3>1
  <2>3. LoopRounds(p) = Min(S)
    BY DEF LoopRounds
  <2> HIDE DEF S
  <2> QED BY <1>5, <2>1, <2>2, <2>3
<1> DEFINE e == Rounds(n)
<1>15. GrownBy[LoopRounds(p)] = e
  BY <1>5, <1>10, <1>14
<1>16. RoundOk(e, n)
  BY <1>11
<1> HIDE DEF e
<1>17. Maps(e, p)
  BY <1>1, <1>5, <1>7, <1>9, RoundMaps DEF e
<1>18. Reach(0) <= Reach(n)
  <2> DEFINE x == n * Size
  <2>1. x \in Nat /\ Reach(n) = Reach(0) + x
    BY <1>2, <1>5, Products
  <2> HIDE DEF x
  <2> QED BY <1>2, <2>1
<1>19. \A q \in Mapped(om) : Maps(e, q) /\ RefOid(e, q) = RefOid(om, q)
  BY <1>5, <1>16, <1>18, RoundKeeps DEF Expandable
<1>20. p >= Max(Starts(e))
  <2> DEFINE i == e.next_stripe_id - 1
             l == last_key(e)
  <2>1. Tiled(e) /\ Keys(e) # {}
    BY <1>16, OkTiled DEF RoundOk
  <2>2. /\ i \in Nat /\ Max(Starts(e)) = First(e, i) /\ IdAt(e, i) = l
        /\ First(e, i) + PerAt(e, i) = End(e, l)
    BY <2>1, LastStart
  <2>3. i < e.next_stripe_id
    BY <2>1, <2>2 DEF Tiled
  <2>4. PerAt(e, i) = Size /\ End(e, l) = Reach(n)
    BY <1>16, <2>2 DEF PerAt, RoundOk
  <2>5. First(e, i) \in Nat
    BY <2>1, <2>2, <2>3, FirstIs
  <2> HIDE DEF i, l
  <2> QED BY <1>1, <1>2, <1>8, <1>9, <2>2, <2>4, <2>5
<1>21. Expanded(e, p)
  BY <1>16, <1>17, <1>19, <1>20 DEF RoundOk, Expanded
<1> QED BY <1>15, <1>21

-----------------------------------------------------------------------------
(* The machine *)

\* decode undoes encode.
LEMMA StoredBack == ASSUME NEW map, MapOk(map) PROVE decode(encode(map)) = map
<1> DEFINE data == encode(map)
           back == {DecodeStripe(f) : f \in data[2]}
           own == {map.stripes[k] : k \in Keys(map)}
<1>1. /\ map = NewMap(map.next_stripe_id, map.stripes, map.min_valid_position)
      /\ map.stripes \in [Keys(map) -> MultiStripes]
      /\ \A k \in Keys(map) : map.stripes[k].min_position = k
  BY DEF MapOk, Typed, Sound, valid
<1>2. ASSUME NEW m \in MultiStripes PROVE DecodeStripe(EncodeStripe(m)) = m
  <2>1. DecodeStripe(EncodeStripe(m)) =
          MultiStripe(m.base_id, m.width, m.slots, m.min_position, m.instances, m.max_position)
    BY DEF DecodeStripe, EncodeStripe
  <2> QED BY <2>1 DEF MultiStripe, MultiStripes
<1>3. /\ data[1] = map.next_stripe_id /\ data[3] = map.min_valid_position
      /\ data[2] = {EncodeStripe(map.stripes[k]) : k \in Keys(map)}
  BY DEF encode
<1>4. decode(data) = NewMap(data[1], [k \in {m.min_position : m \in back} |->
                                        CHOOSE m \in back : m.min_position = k], data[3])
  BY DEF decode
<1> HIDE DEF data
<1>5. back = own
  <2>1. \A k \in Keys(map) : DecodeStripe(EncodeStripe(map.stripes[k])) = map.stripes[k]
    BY <1>1, <1>2
  <2> QED BY <1>3, <2>1
<1>6. {m.min_position : m \in own} = Keys(map)
  BY <1>1
<1>7. ASSUME NEW k \in Keys(map) PROVE (CHOOSE m \in own : m.min_position = k) = map.stripes[k]
  <2>1. \A m \in own : m.min_position = k => m = map.stripes[k]
    BY <1>1
  <2>2. map.stripes[k] \in own /\ map.stripes[k].min_position = k
    BY <1>1
  <2> HIDE DEF own
  <2> QED BY <2>1, <2>2
<1> DEFINE g == [k \in {m.min_position : m \in back} |-> CHOOSE m \in back : m.min_position = k]
<1>8. g = map.stripes
  <2>1. g = [k \in Keys(map) |-> CHOOSE m \in own : m.min_position = k]
    <3> HIDE DEF back, own
    <3> QED BY <1>5, <1>6
  <2> HIDE DEF g, own
  <2>2. g = [k \in Keys(map) |-> map.stripes[k]]
    BY <1>7, <2>1
  <2> QED BY <1>1, <2>2
<1> HIDE DEF g
<1>9. decode(data) = NewMap(data[1], g, data[3])
  BY <1>4 DEF g
<1> QED BY <1>1, <1>3, <1>8, <1>9 DEF data

\* A map without MultiStripes is sound.
LEMMA EmptyOk == MapOk(EmptyMap) /\ Keys(EmptyMap) = {} /\ Capped(EmptyMap)
<1>1. /\ EmptyMap.next_stripe_id = 0 /\ EmptyMap.stripes = <<>> /\ EmptyMap.min_valid_position = 0
      /\ EmptyMap = NewMap(EmptyMap.next_stripe_id, EmptyMap.stripes, EmptyMap.min_valid_position)
  BY DEF EmptyMap, NewMap
<1>2. Keys(EmptyMap) = {}
  BY <1>1 DEF Keys
<1>3. EmptyMap.stripes \in [Keys(EmptyMap) -> MultiStripes]
  <2>1. <<>> \in [{} -> MultiStripes]
    OBVIOUS
  <2> QED BY <1>1, <1>2, <2>1
<1>4. Typed(EmptyMap)
  BY <1>1, <1>2, <1>3, Words DEF Typed
<1>5. Sound(EmptyMap)
  BY <1>1, <1>2 DEF Sound, valid
<1> QED BY <1>2, <1>4, <1>5 DEF MapOk, Capped

\* Stored maps are sound, and no lookup in them divides by zero.
LEMMA StoredOk == ASSUME NEW map \in StoredMaps PROVE MapOk(map) /\ Capped(map)
<1>1. /\ Typed(map) /\ Sound(map) /\ Straight(map)
      /\ \A k \in Keys(map) : map.stripes[k].width * map.stripes[k].slots < Word32
  BY MappingAssumption
<1>2. ASSUME NEW k \in Keys(map) PROVE StripeOk(map.stripes[k])
  <2> DEFINE m == map.stripes[k]
             b == m.width * m.slots
             x == m.instances * b
  <2>1. m \in MultiStripes
    BY <1>1 DEF Typed
  <2>2. Constructible(m)
    BY <1>1 DEF Sound
  <2>3. m.min_position + m.instances * m.width * m.slots <= Word64
    BY <1>1 DEF Straight
  <2> HIDE DEF m
  <2>4. /\ m.width \in Nat /\ m.slots \in Nat /\ m.min_position \in Nat
        /\ m.instances \in Nat /\ m.max_position \in Nat
    BY <2>1 DEF MultiStripes
  <2>5. /\ m.width > 0 /\ m.slots > 0 /\ m.instances > 0
        /\ m.max_position = (m.min_position + m.instances * m.width * m.slots - 1) % Word64
    BY <2>2 DEF Constructible
  <2>6. b \in Nat /\ b > 0
    BY <2>4, <2>5, Products
  <2>7. x \in Nat /\ x > 0
    <3> HIDE DEF b
    <3> QED BY <2>4, <2>5, <2>6, Products
  <2>8. m.instances * m.width * m.slots = x
    BY <2>4, Products
  <2>9. m.max_position = (m.min_position + x - 1) % Word64 /\ m.min_position + x <= Word64
    BY <2>3, <2>5, <2>8
  <2> HIDE DEF x
  <2>10. m.min_position + x - 1 \in Nat /\ m.min_position + x - 1 < Word64
    BY <2>4, <2>7, <2>9, Words
  <2>11. m.max_position = m.min_position + x - 1 /\ m.max_position < Word64
    BY <2>9, <2>10, Words
  <2>12. StripeOk(m)
    BY <2>1, <2>5, <2>11 DEF StripeOk, x
  <2> QED BY <2>12 DEF m
<1> QED BY <1>1, <1>2 DEF MapOk, Capped, Per

\* Nothing but the minimum valid position changes.
LEMMA AdvancedOk ==
    ASSUME MapInv, NEW v \in 0 .. Word64 - 1
    PROVE  LET e == [om EXCEPT !.min_valid_position = v] IN
           /\ MapOk(e) /\ Capped(e) /\ e.stripes = om.stripes /\ e.min_valid_position = v
<1> DEFINE e == [om EXCEPT !.min_valid_position = v]
<1>1. MapOk(om) /\ Capped(om) /\ Typed(om) /\ Sound(om)
      /\ \A k \in Keys(om) : StripeOk(om.stripes[k])
  BY DEF MapInv, MapOk
<1>2. om = NewMap(om.next_stripe_id, om.stripes, om.min_valid_position)
  BY <1>1 DEF Typed
<1>3. e = NewMap(om.next_stripe_id, om.stripes, v)
  BY <1>2 DEF NewMap
<1> HIDE DEF e
<1>4. e.stripes = om.stripes /\ e.next_stripe_id = om.next_stripe_id /\ e.min_valid_position = v
  BY <1>3 DEF NewMap
<1>5. Keys(e) = Keys(om) /\ last_key(e) = last_key(om)
  BY <1>4 DEF Keys, last_key
<1>6. Typed(e)
  BY <1>1, <1>3, <1>4, <1>5 DEF Typed
<1>7. Sound(e)
  BY <1>1, <1>4, <1>5 DEF Sound, valid
<1>8. Capped(e)
  BY <1>1, <1>4, <1>5 DEF Capped, Per
<1> QED BY <1>1, <1>4, <1>5, <1>6, <1>7, <1>8 DEF MapOk, e

\* Lookups depend on the MultiStripes alone.
LEMMA SameStripes ==
    ASSUME NEW map, NEW e, e.stripes = map.stripes, NEW q
    PROVE  Maps(e, q) = Maps(map, q) /\ RefOid(e, q) = RefOid(map, q)
<1>1. Keys(e) = Keys(map)
  BY DEF Keys
<1>2. Maps(e, q) = Maps(map, q)
  BY <1>1 DEF Maps, MultiStripeAt
<1>3. Starts(e) = Starts(map)
  BY <1>1 DEF Starts
<1>4. RefStripe(e, q) = RefStripe(map, q) /\ RefWidth(e, q) = RefWidth(map, q)
  BY <1>1, <1>3 DEF RefStripe, RefWidth
<1> QED BY <1>2, <1>4 DEF RefOid

\* Only stripes of 2^32 positions divide by zero,
LEMMA ZeroSize ==
    ASSUME NEW map, MapOk(map), Capped(map), NEW p \in Nat, DividesByZero(map, p)
    PROVE  options.width * options.slots = Word32
<1> DEFINE k == KeyAt(map, p)
<1>1. Tiled(map) /\ Keys(map) # {}
  BY OkTiled DEF DividesByZero, Maps
<1>2. k \in Keys(map)
  BY <1>1, KeyAtIs
<1>3. Mul32(map.stripes[k].width, map.stripes[k].slots) = 0
  BY DEF DividesByZero, MultiStripeAt, KeyAt
<1> HIDE DEF k
<1>4. Per(map, k) % Word32 = 0
  BY <1>3 DEF Mul32, Per
<1>5. Per(map, k) \in Nat /\ Per(map, k) > 0
  BY <1>1, <1>2, TileAt
<1>6. ~(Per(map, k) < Word32)
  <2> SUFFICES ASSUME Per(map, k) < Word32 PROVE FALSE
    OBVIOUS
  <2>1. Per(map, k) % Word32 = Per(map, k)
    BY <1>5, Words
  <2> QED BY <1>4, <1>5, <2>1
<1> QED BY <1>2, <1>6 DEF Capped, Per

\* and the first lookup shows it.
LEMMA UsableNarrow == ASSUME MapInv, Usable PROVE Narrow(om)
<1> SUFFICES ASSUME NEW k \in Keys(om), ~(Per(om, k) < Word32) PROVE FALSE
  BY DEF Narrow
<1>1. MapOk(om) /\ Tiled(om) /\ k = 0 /\ Per(om, 0) = Word32
  BY OkTiled DEF MapInv, Capped
<1>2. 0 \in Positions
  BY MappingAssumption DEF Positions
<1>3. End(om, 0) \in Nat /\ 0 < End(om, 0) /\ 0 \in Keys(om)
  BY <1>1, TileAt
<1>4. KeyAt(om, 0) = 0
  BY <1>1, <1>3, KeyOf
<1>5. Maps(om, 0)
  BY <1>1, <1>3, <1>4, MapsIs
<1>6. Mul32(om.stripes[0].width, om.stripes[0].slots) = 0
  <2>1. Mul32(om.stripes[0].width, om.stripes[0].slots) = Word32 % Word32
    BY <1>1 DEF Mul32, Per
  <2> QED BY <2>1, Words
<1>7. DividesByZero(om, 0)
  BY <1>4, <1>5, <1>6 DEF DividesByZero, MultiStripeAt, KeyAt
<1> QED BY <1>2, <1>7 DEF Usable

\* What every step does
GoodStep ==
    /\ options' = options
    /\ MapOk(om') /\ Capped(om')
    /\ \A q \in Mapped(om) : Maps(om', q) /\ RefOid(om', q) = RefOid(om, q)
    /\ om'.min_valid_position >= om.min_valid_position
    /\ status' = "assert" => options.width * options.slots > Word32
    /\ status' = "sigfpe" => options.width * options.slots = Word32

\* A sound map is adopted as it is.
LEMMA Adopted ==
    ASSUME NEW map, MapOk(map), Adopt(map)
    PROVE  om' = map /\ status' = "ok"
BY StoredBack DEF Adopt, MapOk

\* The map stays.
LEMMA StayGood ==
    ASSUME MapInv, om' = om, options' = options,
           status' = "assert" => options.width * options.slots > Word32,
           status' = "sigfpe" => options.width * options.slots = Word32
    PROVE  GoodStep
<1>1. MapOk(om) /\ Capped(om)
  BY DEF MapInv
<1>2. om.min_valid_position >= om.min_valid_position
  <2>1. om.min_valid_position \in 0 .. Word64 - 1
    BY <1>1 DEF MapOk, Typed
  <2> QED BY <2>1, Words
<1>3. \A q \in Mapped(om) : Maps(om, q) /\ RefOid(om, q) = RefOid(om, q)
  BY DEF Mapped
<1> QED BY <1>1, <1>2, <1>3 DEF GoodStep

\* Creation
LEMMA CreateGood == ASSUME MapInv, create_initial PROVE GoodStep
<1> DEFINE size == options.width * options.slots
           f == FirstMap(0)
<1>1. om = EmptyMap /\ Adopt(f) /\ options' = options
  BY DEF create_initial, FirstMap
<1>2. OptionsOk /\ 0 \in 0 .. Word64 - 1
  BY Words DEF MapInv
<1>3. size <= Word32 => MapOk(f) /\ End(f, 0) = size
  BY <1>2, FirstMapOk
<1>4. size > Word32 => ~Sound(f)
  BY <1>2, FirstMapOk
<1>5. Per(f, 0) = size
  BY <1>2, FirstMapOk
<1>6. size \in Nat
  BY <1>2, OptionsAre
<1>7. Keys(f) = {0} /\ f.stripes[0] = FirstStripe /\ f.min_valid_position = 0
  BY <1>2, FirstMapIs
<1> HIDE DEF f
<1>8. Mapped(om) = {} /\ om.min_valid_position = 0
  <2>1. Keys(om) = {}
    BY <1>1, EmptyOk
  <2>2. om.min_valid_position = 0
    BY <1>1 DEF EmptyMap, NewMap
  <2> QED BY <2>1, <2>2 DEF Mapped, Maps
<1>9. CASE size <= Word32
  <2>1. MapOk(f)
    BY <1>3, <1>9
  <2>2. om' = f /\ status' = "ok"
    BY <1>1, <2>1, Adopted
  <2>3. FirstStripe.width = options.width /\ FirstStripe.slots = options.slots
    BY DEF FirstStripe, MultiStripe
  <2>4. size < Word32 \/ size = Word32
    <3> HIDE DEF size
    <3> QED BY <1>6, <1>9, Words
  <2>5. Capped(f)
    BY <1>5, <1>7, <2>3, <2>4 DEF Capped
  <2>6. f.min_valid_position >= om.min_valid_position
    BY <1>7, <1>8
  <2> HIDE DEF size
  <2> QED BY <1>1, <1>8, <2>1, <2>2, <2>5, <2>6 DEF GoodStep
<1>10. CASE size > Word32
  <2>1. om' = om /\ status' = "assert"
    BY <1>1, <1>4, <1>10 DEF Adopt
  <2> QED BY <1>1, <1>10, <2>1, StayGood
<1>11. size <= Word32 \/ size > Word32
  <2> HIDE DEF size
  <2> QED BY <1>6, Words
<1> QED BY <1>9, <1>10, <1>11

\* Expansion
LEMMA ExpandGood ==
    ASSUME MapInv, NEW p \in Positions, expand_mapping(p)
    PROVE  /\ GoodStep
           /\ status' = "ok" => Maps(om', p) /\ p >= Max(Starts(om'))
<1> DEFINE n == LoopRounds(p)
           e == GrownBy[n]
           size == options.width * options.slots
<1>1. ~Maps(om, p) /\ options' = options
      /\ IF Sound(e) /\ DividesByZero(e, p) THEN Fails("sigfpe") ELSE Adopt(e)
  BY DEF expand_mapping, LoopRounds
<1>2. p \in Nat /\ size \in Nat
  BY OptionsAre DEF Positions, MapInv
<1>3. CASE Expandable
  <2>1. Expanded(e, p)
    BY <1>1, <1>3, Expansion
  <2> HIDE DEF e
  <2>2. MapOk(e) /\ Capped(e) /\ Maps(e, p) /\ p >= Max(Starts(e)) /\ Sound(e)
        /\ e.min_valid_position = om.min_valid_position
        /\ \A q \in Mapped(om) : Maps(e, q) /\ RefOid(e, q) = RefOid(om, q)
    BY <2>1 DEF Expanded, MapOk
  <2>3. CASE DividesByZero(e, p)
    <3>1. om' = om /\ status' = "sigfpe"
      BY <1>1, <2>2, <2>3 DEF Fails
    <3>2. size = Word32
      BY <1>2, <2>2, <2>3, ZeroSize
    <3>3. GoodStep
      BY <1>1, <3>1, <3>2, StayGood
    <3> QED BY <3>1, <3>3
  <2>4. CASE ~DividesByZero(e, p)
    <3>1. Adopt(e)
      BY <1>1, <2>4
    <3>2. om' = e /\ status' = "ok"
      BY <2>2, <3>1, Adopted
    <3>3. om.min_valid_position \in 0 .. Word64 - 1
      BY DEF MapInv, MapOk, Typed
    <3>4. e.min_valid_position >= om.min_valid_position
      BY <2>2, <3>3, Words
    <3>5. GoodStep
      BY <1>1, <2>2, <3>2, <3>4 DEF GoodStep
    <3> QED BY <2>2, <3>2, <3>5
  <2> QED BY <2>3, <2>4
<1>4. CASE ~Expandable
  <2>1. Keys(om) = {} /\ size > Word32
    <3>1. Keys(om) = {} /\ ~(size <= Word32)
      BY <1>4 DEF Expandable
    <3> HIDE DEF size
    <3> QED BY <1>2, <3>1, Words
  <2> DEFINE f == FirstMap(om.min_valid_position)
             S == {k \in 1 .. p + 1 : ~Sound(GrownBy[k]) \/ Maps(GrownBy[k], p)}
  <2>2. GrownBy[1] = f
    <3>1. GrownBy[1] = Rounds(1)
      BY GrownByIs, InvStartable
    <3>2. Rounds(1) = Extended(f, 0)
      BY <2>1 DEF Rounds
    <3>3. Extended(f, 0) = f
      <4>1. Shaped(f) /\ last_key(f) = 0 /\ f.stripes[0] = FirstStripe
            /\ FirstStripe.max_position < Word64
        BY FirstMapIs DEF MapInv
      <4> HIDE DEF f
      <4> QED BY <4>1, ExtendedNone
    <3> QED BY <3>1, <3>2, <3>3
  <2>3. ~Sound(f)
    <3>1. om.min_valid_position \in 0 .. Word64 - 1 /\ OptionsOk
      BY DEF MapInv, MapOk, Typed
    <3> QED BY <2>1, <3>1, FirstMapOk
  <2>4. 1 \in S /\ S \subseteq 1 .. p + 1
    BY <1>2, <2>2, <2>3
  <2>5. n = Min(S)
    BY DEF LoopRounds
  <2> HIDE DEF S, n, f
  <2>6. n = 1
    <3>1. S \subseteq Nat /\ S # {}
      BY <2>4
    <3>2. Min(S) \in S /\ Min(S) \in Nat /\ Min(S) <= 1
      BY <2>4, <3>1, MinIs
    <3>3. Min(S) >= 1
      BY <1>2, <2>4, <3>2
    <3> QED BY <2>5, <3>2, <3>3
  <2>7. ~Sound(e)
    BY <2>2, <2>3, <2>6
  <2> HIDE DEF e
  <2>8. Adopt(e)
    BY <1>1, <2>7
  <2>9. om' = om /\ status' = "assert"
    BY <2>7, <2>8 DEF Adopt
  <2>10. GoodStep
    BY <1>1, <2>1, <2>9, StayGood
  <2> QED BY <2>9, <2>10
<1> QED BY <1>3, <1>4

\* Lookups
LEMMA LookupGood == ASSUME MapInv, NEW p \in Positions, Lookup(p) PROVE GoodStep
<1>1. om' = om /\ status' = "sigfpe" /\ options' = options /\ DividesByZero(om, p)
  BY DEF Lookup, Fails
<1>2. p \in Nat
  BY DEF Positions
<1>3. options.width * options.slots = Word32
  BY <1>1, <1>2, ZeroSize DEF MapInv
<1> QED BY <1>1, <1>3, StayGood

\* A larger minimum valid position
LEMMA AdvanceGood ==
    ASSUME MapInv, NEW p \in Nat, p < Word64, advance_min_valid_position(p)
    PROVE  GoodStep /\ (status' = "spins" => p = Word64 - 1)
<1> DEFINE v == (p + 1) % Word64
           e == [om EXCEPT !.min_valid_position = v]
<1>1. p >= om.min_valid_position /\ options' = options
      /\ IF v <= om.min_valid_position THEN Fails("spins") ELSE Adopt(e)
  BY DEF advance_min_valid_position
<1>2. om.min_valid_position \in Nat
  <2>1. om.min_valid_position \in 0 .. Word64 - 1
    BY DEF MapInv, MapOk, Typed
  <2> QED BY <2>1, Words
<1>3. v \in 0 .. Word64 - 1 /\ v \in Nat
  BY Words
<1>4. p # Word64 - 1 => v = p + 1
  BY Words
<1> HIDE DEF v
<1>5. CASE v <= om.min_valid_position
  <2>1. om' = om /\ status' = "spins"
    BY <1>1, <1>5 DEF Fails
  <2>2. GoodStep
    BY <1>1, <2>1, StayGood
  <2>3. p = Word64 - 1
    BY <1>1, <1>2, <1>4, <1>5
  <2> QED BY <2>2, <2>3
<1>6. CASE ~(v <= om.min_valid_position)
  <2>1. MapOk(e) /\ Capped(e) /\ e.stripes = om.stripes /\ e.min_valid_position = v
    BY <1>3, AdvancedOk
  <2> HIDE DEF e
  <2>2. om' = e /\ status' = "ok"
    <3>1. Adopt(e)
      BY <1>1, <1>6
    <3> QED BY <2>1, <3>1, Adopted
  <2>3. \A q \in Mapped(om) : Maps(e, q) /\ RefOid(e, q) = RefOid(om, q)
    BY <2>1, SameStripes DEF Mapped
  <2>4. e.min_valid_position >= om.min_valid_position
    BY <1>2, <1>3, <1>6, <2>1
  <2> QED BY <1>1, <2>1, <2>2, <2>3, <2>4 DEF GoodStep
<1> QED BY <1>5, <1>6

\* Every step is good.
LEMMA NextGood == ASSUME MapInv, Next PROVE GoodStep
<1>1. ASSUME NEW p \in Positions \cup {Word64 - 1} PROVE p \in Nat /\ p < Word64
  <2>1. TopPosition \in Nat /\ TopPosition + Word32 <= Word64
    BY MappingAssumption
  <2> QED BY <2>1, Words DEF Positions
<1>2. CASE create_initial
  BY <1>2, CreateGood
<1>3. ASSUME NEW p \in Positions, expand_mapping(p) \/ Lookup(p) PROVE GoodStep
  BY <1>3, ExpandGood, LookupGood
<1>4. ASSUME NEW p \in Positions \cup {Word64 - 1}, advance_min_valid_position(p)
      PROVE  GoodStep
  BY <1>1, <1>4, AdvanceGood
<1> QED BY <1>2, <1>3, <1>4 DEF Next

-----------------------------------------------------------------------------
(* Theorems *)

\* Whatever the program maps, its MultiStripes cover the positions and the
\* stripe ids from 0 on without a gap or a wrap, and only stripes of the
\* options' size can have 2^32 positions (object_map.cc, stripe.h).
THEOREM MapHolds == Spec => []MapInv
<1>1. Init => MapInv
  <2> SUFFICES ASSUME Init PROVE MapInv
    OBVIOUS
  <2>1. OptionsOk /\ (om = EmptyMap \/ om \in StoredMaps)
    BY DEF Init, OptionsOk
  <2> QED BY <2>1, EmptyOk, StoredOk DEF MapInv
<1>2. MapInv /\ [Next]_vars => MapInv'
  <2> SUFFICES ASSUME MapInv, [Next]_vars PROVE MapInv'
    OBVIOUS
  <2>1. CASE Next
    <3>1. GoodStep
      BY <2>1, NextGood
    <3> QED BY <3>1 DEF GoodStep, MapInv, OptionsOk, Capped
  <2>2. CASE UNCHANGED vars
    BY <2>2 DEF vars, MapInv, OptionsOk, Capped
  <2> QED BY <2>1, <2>2
<1> QED BY <1>1, <1>2, PTL DEF Spec

\* Lookups name the object that counting stripes gives, know the last stripe,
\* and map_stripe has its positions, for which stripe.h's asserts hold.
THEOREM LookupIsExact == Spec => []MapExact
<1>1. MapInv => MapExact
  <2> SUFFICES ASSUME MapInv, Usable, NEW p \in Mapped(om)
               PROVE  /\ map_oid(om, p) = RefOid(om, p)
                      /\ map_last(om, p) = (p >= Max(Starts(om)))
                      /\ LET s == map_stripe(om, p)
                         IN  /\ StripeAsserts(s)
                             /\ s.min_position .. s.max_position =
                                  {q \in Mapped(om) : RefStripe(om, q) = RefStripe(om, p)}
    BY DEF MapExact
  <2>1. Tiled(om) /\ Narrow(om)
    BY OkTiled, UsableNarrow DEF MapInv
  <2> QED BY <2>1, LookupsExact
<1> QED BY <1>1, MapHolds, PTL

\* The iteration of trimTo over the stripes yields the objects with a position
\* up to the limit, and marks those full that have none beyond it; the maps on
\* which these are the objects that map finds are the aligned ones.
THEOREM TrimIsExact == Spec => []MapToExact
<1>1. MapInv => MapToExact
  <2> SUFFICES ASSUME MapInv, Usable PROVE MapToExact
    BY DEF MapToExact
  <2>1. Tiled(om) /\ Narrow(om)
    BY OkTiled, UsableNarrow DEF MapInv
  <2>2. ASSUME NEW p \in Mapped(om) \cap Positions
        PROVE  UNION {map_to(om, p, id) : id \in 0 .. om.next_stripe_id - 1} =
                 {<<CountedOid(om, q), \A r \in Beside(om, q) : r <= p>> : q \in 0 .. p}
    <3>1. p \in Nat /\ Maps(om, p)
      BY DEF Mapped, Positions
    <3> QED BY <2>1, <3>1, TrimsExact
  <2>3. \A q \in Mapped(om) : map_oid(om, q) = RefOid(om, q)
    BY <2>1, LookupsExact
  <2>4. Aligned(om) <=> \A q \in Mapped(om) : map_oid(om, q) = CountedOid(om, q)
    BY <2>1, <2>3, SameObjects
  <2> QED BY <2>2, <2>4 DEF MapToExact
<1> QED BY <1>1, MapHolds, PTL

\* No step moves a position, unmaps it or lowers the minimum valid position, and
\* expand_mapping adds no stripe beyond the one it needs.
THEOREM MappingIsStable == Spec => MappingStable
<1> DEFINE A == /\ \A p \in Mapped(om) : Maps(om', p) /\ RefOid(om', p) = RefOid(om, p)
                /\ om'.min_valid_position >= om.min_valid_position
                /\ \A p \in Positions :
                     expand_mapping(p) /\ status' = "ok" => Maps(om', p) /\ p >= Max(Starts(om'))
<1>1. MapInv /\ [Next]_vars => [A]_vars
  <2> SUFFICES ASSUME MapInv, Next PROVE A
    OBVIOUS
  <2>1. GoodStep
    BY NextGood
  <2>2. ASSUME NEW p \in Positions, expand_mapping(p), status' = "ok"
        PROVE  Maps(om', p) /\ p >= Max(Starts(om'))
    BY <2>2, ExpandGood
  <2> QED BY <2>1, <2>2 DEF GoodStep
<1>2. MappingStable <=> [][A]_vars
  BY DEF MappingStable
<1> HIDE DEF A
<1> QED BY <1>1, <1>2, MapHolds, PTL DEF Spec

\* The arithmetic stops the program only at its limits.
THEOREM WrapsOnlyAtLimits == Spec => OnlyAtLimits
<1> DEFINE A == LET size == options.width * options.slots IN
                /\ status' = "assert" => size > Word32
                /\ status' = "sigfpe" \/ (status' = "ok" /\ ~Usable') => size = Word32
                /\ status' = "spins" => \A p \in Positions : ~advance_min_valid_position(p)
<1>1. MapInv /\ [Next]_vars => [A]_vars
  <2> SUFFICES ASSUME MapInv, Next PROVE A
    OBVIOUS
  <2>1. GoodStep
    BY NextGood
  <2>2. ASSUME status' = "ok", ~Usable' PROVE options.width * options.slots = Word32
    <3>1. PICK p \in Positions : DividesByZero(om', p)
      BY <2>2 DEF Usable, Positions
    <3>2. p \in Nat
      BY DEF Positions
    <3> QED BY <2>1, <3>1, <3>2, ZeroSize DEF GoodStep
  <2>3. ASSUME status' = "spins", NEW p \in Positions, advance_min_valid_position(p)
        PROVE  FALSE
    <3>1. p \in Nat /\ p < Word64 - 1
      <4>1. Word32 > 1
        <5>1. options.width \in Sides /\ Sides \subseteq 1 .. Word32 - 1
          BY MappingAssumption DEF MapInv, OptionsOk
        <5> DEFINE w == options.width
        <5>2. w \in 1 .. Word32 - 1
          BY <5>1
        <5> HIDE DEF w
        <5> QED BY <5>2, Words
      <4>2. TopPosition \in Nat /\ TopPosition + Word32 <= Word64
        BY MappingAssumption
      <4> QED BY <4>1, <4>2, Words DEF Positions
    <3>2. p < Word64 /\ p # Word64 - 1
      BY <3>1, Words
    <3> QED BY <2>3, <3>1, <3>2, AdvanceGood
  <2> QED BY <2>1, <2>2, <2>3 DEF GoodStep
<1>2. OnlyAtLimits <=> [][A]_vars
  BY DEF OnlyAtLimits
<1> HIDE DEF A
<1> QED BY <1>1, <1>2, MapHolds, PTL DEF Spec

-----------------------------------------------------------------------------
(* The maps of the other modules *)

\* A map the program made is one MultiStripe from position 0, of the options'
\* size.
LEMMA SelfMadeIs ==
    ASSUME MapInv, SelfMade
    PROVE  LET size == options.width * options.slots
               inst == om.next_stripe_id
           IN  /\ inst \in Nat /\ inst * size \in Nat
               /\ Keys(om) = {} => inst = 0
               /\ Keys(om) # {} =>
                    Keys(om) = {0} /\ End(om, 0) = inst * size /\ Base(om, 0) = 0
                    /\ Per(om, 0) = size /\ Inst(om, 0) = inst /\ last_key(om) = 0
               /\ \A p \in Nat : Maps(om, p) <=> p < inst * size
<1> DEFINE w == options.width
           s == options.slots
           size == w * s
           inst == om.next_stripe_id
<1>1. Tiled(om) /\ Typed(om) /\ valid(om)
  BY OkTiled DEF MapInv, MapOk, Sound
<1>2. inst \in Nat /\ size \in Nat
  BY <1>1, OptionsAre DEF Typed, MapInv
<1>3. inst * size \in Nat
  <2> HIDE DEF size, inst
  <2> QED BY <1>2, Products
<1>4. Keys(om) = {} => inst = 0
  BY <1>1 DEF valid
<1>5. ASSUME Keys(om) # {}
      PROVE  /\ Keys(om) = {0} /\ End(om, 0) = inst * size /\ Base(om, 0) = 0
             /\ Per(om, 0) = size /\ Inst(om, 0) = inst /\ last_key(om) = 0
  <2>1. Keys(om) \subseteq {0} /\ 0 \in Keys(om) /\ Base(om, 0) = 0 /\ last_key(om) \in Keys(om)
        /\ inst = Base(om, last_key(om)) + Inst(om, last_key(om))
    BY <1>1, <1>5 DEF Tiled, SelfMade
  <2>2. Per(om, 0) = size
    BY <2>1 DEF SelfMade, Per
  <2>3. Inst(om, 0) = inst /\ last_key(om) = 0
    <3>1. last_key(om) = 0
      BY <2>1
    <3>2. Inst(om, 0) \in Nat
      BY <1>1, <2>1, TileAt
    <3> QED BY <2>1, <3>1, <3>2
  <2>4. End(om, 0) = 0 + Inst(om, 0) * Per(om, 0)
    BY <1>1, <2>1, TileAt
  <2> HIDE DEF inst, size
  <2> QED BY <1>3, <2>1, <2>2, <2>3, <2>4
<1>6. ASSUME NEW p \in Nat PROVE Maps(om, p) <=> p < inst * size
  <2>1. CASE Keys(om) = {}
    <3>1. inst * size = 0
      <4> HIDE DEF size, inst
      <4> QED BY <1>2, <1>4, <2>1
    <3> QED BY <2>1, <3>1 DEF Maps
  <2>2. CASE Keys(om) # {}
    BY <1>1, <1>5, <2>2, MapsIs
  <2> QED BY <2>1, <2>2
<1> QED BY <1>2, <1>3, <1>4, <1>5, <1>6

\* Where its stripes and positions are
LEMMA SelfMadeAt ==
    ASSUME MapInv, SelfMade, NEW p \in Nat, Maps(om, p)
    PROVE  LET size == options.width * options.slots
               inst == om.next_stripe_id
           IN  /\ Keys(om) # {} /\ om.stripes[0].width = options.width
               /\ RefOid(om, p) = <<p \div size, p % options.width>>
               /\ \A id \in Nat : id < inst =>
                    IdAt(om, id) = 0 /\ First(om, id) = id * size /\ PerAt(om, id) = size
<1> DEFINE size == options.width * options.slots
           inst == om.next_stripe_id
<1>1. Keys(om) # {} /\ Tiled(om)
  BY OkTiled DEF Maps, MapInv
<1>2. /\ inst \in Nat /\ Keys(om) = {0} /\ Base(om, 0) = 0 /\ Per(om, 0) = size
      /\ Inst(om, 0) = inst
  BY <1>1, SelfMadeIs
<1>3. size \in Nat /\ size > 0
  BY OptionsAre DEF MapInv
<1>4. om.stripes[0].width = options.width
  BY <1>2 DEF SelfMade
<1>5. KeyAt(om, p) = 0
  BY <1>1, <1>2, KeyAtIs
<1>6. RefOid(om, p) = <<p \div size, p % options.width>>
  <2>1. StripeNo(om, p) = 0 + (p - 0) \div size
    BY <1>2, <1>5 DEF StripeNo
  <2>2. 0 + (p - 0) \div size = p \div size
    <3> HIDE DEF size
    <3>1. p - 0 = p /\ p \div size \in Nat
      BY <1>3, Division
    <3> QED BY <3>1
  <2>3. RefStripe(om, p) = StripeNo(om, p)
    BY <1>1, Counted
  <2>4. RefWidth(om, p) = options.width
    BY <1>4, <1>5 DEF RefWidth, KeyAt
  <2> QED BY <2>1, <2>2, <2>3, <2>4 DEF RefOid
<1>7. ASSUME NEW id \in Nat, id < inst
      PROVE  IdAt(om, id) = 0 /\ First(om, id) = id * size /\ PerAt(om, id) = size
  <2>1. IdAt(om, id) = 0
    <3>1. 0 \in Keys(om) /\ Base(om, 0) <= id /\ id < Base(om, 0) + Inst(om, 0)
      BY <1>2, <1>7
    <3> QED BY <1>1, <3>1, IdOf
  <2>2. First(om, id) = 0 + (id - 0) * size
    BY <1>2, <2>1 DEF First
  <2>3. 0 + (id - 0) * size = id * size
    <3> HIDE DEF size
    <3>1. id - 0 = id /\ id * size \in Nat
      BY <1>3, Products
    <3> QED BY <3>1
  <2> QED BY <1>2, <2>1, <2>2, <2>3 DEF PerAt
<1> QED BY <1>1, <1>4, <1>6, <1>7

\* ObjectMap's operators, by their numbers: those of positions
LEMMA AbstractIs ==
    ASSUME NEW w \in Nat, NEW s \in Nat, NEW inst \in Nat, NEW p \in Nat
    PROVE  LET size == w * s IN
           /\ Abstract(w, s)!Mapped(inst, p) = (p < inst * size)
           /\ Abstract(w, s)!Oid(p) = <<p \div size, p % w>>
           /\ Abstract(w, s)!InLastStripe(inst, p) = (p < inst * size /\ p \div size = inst - 1)
           /\ p < inst * size => Abstract(w, s)!ExpandMapping(inst, p) = inst
           /\ ~(p < inst * size) => Abstract(w, s)!ExpandMapping(inst, p) = p \div size + 1
<1> DEFINE size == w * s
<1>1. Abstract(w, s)!Mapped(inst, p) = (p < inst * size)
  BY DEF Abstract!Mapped, Abstract!StripeSize
<1>2. Abstract(w, s)!StripeOf(p) = p \div size
  BY DEF Abstract!StripeOf, Abstract!StripeSize
<1>3. Abstract(w, s)!Oid(p) = <<p \div size, p % w>>
  BY <1>2 DEF Abstract!Oid
<1>4. Abstract(w, s)!InLastStripe(inst, p) = (p < inst * size /\ p \div size = inst - 1)
  BY <1>1, <1>2 DEF Abstract!InLastStripe
<1>5. /\ p < inst * size => Abstract(w, s)!ExpandMapping(inst, p) = inst
      /\ ~(p < inst * size) => Abstract(w, s)!ExpandMapping(inst, p) = p \div size + 1
  BY <1>1, <1>2 DEF Abstract!ExpandMapping
<1> HIDE DEF size
<1> QED BY <1>1, <1>3, <1>4, <1>5 DEF size

\* and those of a trim's objects
LEMMA AbstractTrims ==
    ASSUME NEW w \in Nat, NEW s \in Nat, NEW p \in Nat, NEW id \in Nat, NEW i \in Nat
    PROVE  LET size == w * s IN
           /\ Abstract(w, s)!FullyTrimmed(id, i, p) = ((id * size + size - 1) - (w - 1) + i <= p)
           /\ Abstract(w, s)!InTrimRange(id, i, p) = (id * size + i <= p)
<1> DEFINE size == w * s
           m == id * size + size - 1
<1>1. Abstract(w, s)!MinPos(id) = id * size
  BY DEF Abstract!MinPos, Abstract!StripeSize
<1>2. Abstract(w, s)!MaxPos(id) = m
  BY <1>1 DEF Abstract!MaxPos, Abstract!StripeSize
<1>3. Abstract(w, s)!InTrimRange(id, i, p) = (id * size + i <= p)
  BY <1>1 DEF Abstract!InTrimRange
<1> HIDE DEF m
<1>4. Abstract(w, s)!FullyTrimmed(id, i, p) = (m - (w - 1) + i <= p)
  BY <1>2 DEF Abstract!FullyTrimmed
<1> HIDE DEF size
<1> QED BY <1>3, <1>4 DEF size, m

\* Lookups and trims, for a mapped position
LEMMA LooksAbstract ==
    ASSUME MapInv, Usable, SelfMade, NEW p \in Nat, Maps(om, p)
    PROVE  LET w == options.width
               s == options.slots
               inst == om.next_stripe_id
           IN  /\ map_oid(om, p) = Abstract(w, s)!Oid(p)
               /\ map_last(om, p) = Abstract(w, s)!InLastStripe(inst, p)
               /\ \A id \in 0 .. inst - 1 :
                    map_to(om, p, id) =
                      {<<<<id, i>>, Abstract(w, s)!FullyTrimmed(id, i, p)>> :
                         i \in {j \in 0 .. w - 1 : Abstract(w, s)!InTrimRange(id, j, p)}}
<1> DEFINE w == options.width
           s == options.slots
           size == w * s
           inst == om.next_stripe_id
<1>1. /\ w \in Nat /\ w > 0 /\ s \in Nat /\ size \in Nat /\ size > 0
  BY OptionsAre DEF MapInv
<1>2. inst \in Nat /\ inst * size \in Nat /\ p < inst * size
  BY SelfMadeIs
<1>3. /\ Keys(om) # {} /\ om.stripes[0].width = w /\ RefOid(om, p) = <<p \div size, p % w>>
      /\ \A id \in Nat : id < inst =>
           IdAt(om, id) = 0 /\ First(om, id) = id * size /\ PerAt(om, id) = size
  BY SelfMadeAt
<1>4. Tiled(om) /\ Narrow(om) /\ p \in Mapped(om)
  <2>1. p < Word64
    BY MapsIs, OkTiled DEF MapInv
  <2> QED BY <2>1, OkTiled, UsableNarrow, Words DEF MapInv, Mapped
<1>5. map_oid(om, p) = RefOid(om, p) /\ map_last(om, p) = (p >= Max(Starts(om)))
  BY <1>4, LookupsExact
<1>6. map_oid(om, p) = Abstract(w, s)!Oid(p)
  <2>1. Abstract(w, s)!Oid(p) = <<p \div size, p % w>>
    BY <1>1, <1>2, AbstractIs
  <2> QED BY <1>3, <1>5, <2>1
<1>7. map_last(om, p) = Abstract(w, s)!InLastStripe(inst, p)
  <2> DEFINE n == inst - 1
             q == p \div size
             x == n * size
  <2>1. n \in Nat /\ Max(Starts(om)) = First(om, n)
    BY <1>3, <1>4, LastStart
  <2>2. n < inst /\ First(om, n) = x
    BY <1>2, <1>3, <2>1
  <2>3. q \in Nat /\ q < inst
    <3> HIDE DEF size, inst
    <3> QED BY <1>1, <1>2, Division, Between
  <2>4. x <= p <=> n <= q
    <3> HIDE DEF size, n
    <3> QED BY <1>1, <2>1, Between
  <2>5. Abstract(w, s)!InLastStripe(inst, p) = (p < inst * size /\ q = n)
    BY <1>1, <1>2, AbstractIs
  <2>6. x \in Nat
    <3> HIDE DEF size, n
    <3> QED BY <1>1, <2>1, Products
  <2> HIDE DEF x, q, size
  <2>7. (p >= Max(Starts(om))) = (x <= p)
    BY <2>1, <2>2, <2>6
  <2>8. (x <= p) = (q = n)
    BY <1>2, <2>3, <2>4
  <2> HIDE DEF n
  <2>9. Abstract(w, s)!InLastStripe(inst, p) = (q = n)
    BY <1>2, <2>5
  <2> QED BY <1>5, <2>7, <2>8, <2>9
<1>8. ASSUME NEW id \in 0 .. inst - 1
      PROVE  map_to(om, p, id) =
               {<<<<id, i>>, Abstract(w, s)!FullyTrimmed(id, i, p)>> :
                  i \in {j \in 0 .. w - 1 : Abstract(w, s)!InTrimRange(id, j, p)}}
  <2> DEFINE st == stripe_by_id(om, id)
             f == id * size
             e == id * size + size - 1
             full(i) == e - (w - 1) + i <= p
             up(i) == f + i <= p
  <2>1. id \in Nat /\ id < inst
    BY <1>2
  <2>2. IdAt(om, id) = 0 /\ First(om, id) = id * size /\ PerAt(om, id) = size
    BY <1>3, <2>1
  <2>3. st.width = w /\ st.max_position = id * size + size - 1
    BY <1>3, <1>4, <2>1, <2>2, StripeIs
  <2>4. map_to(om, p, id) =
          {<<<<id, i>>, st.max_position - (st.width - 1) + i <= p>> :
             i \in {j \in 0 .. st.width - 1 : First(om, id) + j <= p}}
    BY <1>3, <1>4, <2>1, MapToIs
  <2>5. \A i \in 0 .. w - 1 : /\ Abstract(w, s)!FullyTrimmed(id, i, p) = full(i)
                              /\ Abstract(w, s)!InTrimRange(id, i, p) = up(i)
    <3> SUFFICES ASSUME NEW i \in 0 .. w - 1
                 PROVE  /\ Abstract(w, s)!FullyTrimmed(id, i, p) = full(i)
                        /\ Abstract(w, s)!InTrimRange(id, i, p) = up(i)
      OBVIOUS
    <3>1. i \in Nat
      BY <1>1
    <3> HIDE DEF w, s, inst
    <3>2. /\ Abstract(w, s)!FullyTrimmed(id, i, p) =
               ((id * (w * s) + w * s - 1) - (w - 1) + i <= p)
          /\ Abstract(w, s)!InTrimRange(id, i, p) = (id * (w * s) + i <= p)
      BY <1>1, <2>1, <3>1, AbstractTrims
    <3> QED BY <3>2
  <2>6. st.width = w /\ st.max_position = e /\ First(om, id) = f
    BY <2>2, <2>3
  <2> HIDE DEF st, e, f, size, w
  <2>7. map_to(om, p, id) = {<<<<id, i>>, full(i)>> : i \in {j \in 0 .. w - 1 : up(j)}}
    BY <2>4, <2>6
  <2> HIDE DEF full, up
  <2> QED BY <2>5, <2>7
<1> QED BY <1>6, <1>7, <1>8

\* An expansion ends with the stripe of the position.
LEMMA GrowsAbstract ==
    ASSUME MapInv, SelfMade, options.width * options.slots < Word32,
           NEW p \in Positions, ~Maps(om, p)
    PROVE  LET inst == om.next_stripe_id
               n == Abstract(options.width, options.slots)!ExpandMapping(inst, p) - inst
           IN  Maps(GrownBy[n], p) /\ ~Maps(GrownBy[n - 1], p)
<1> DEFINE w == options.width
           s == options.slots
           size == w * s
           inst == om.next_stripe_id
           q == p \div size
           n == Abstract(w, s)!ExpandMapping(inst, p) - inst
           m == n - 1
<1>1. /\ w \in Nat /\ w > 0 /\ s \in Nat /\ size \in Nat /\ size > 0 /\ size < Word32
      /\ p \in Nat /\ p <= TopPosition /\ TopPosition \in Nat /\ TopPosition + Word32 <= Word64
  BY OptionsAre, MappingAssumption DEF MapInv, Positions
<1>2. /\ inst \in Nat /\ inst * size \in Nat
      /\ Keys(om) = {} => inst = 0
      /\ Keys(om) # {} => End(om, 0) = inst * size /\ Per(om, 0) = size /\ last_key(om) = 0
  BY SelfMadeIs
<1>3. ~(p < inst * size)
  BY <1>1, SelfMadeIs
<1>4. q \in Nat /\ q * size <= p /\ p < (q + 1) * size /\ inst <= q
  <2> HIDE DEF size, inst
  <2>1. q \in Nat
    BY <1>1, Division
  <2>2. q <= p \div size /\ p \div size < q + 1 /\ q + 1 \in Nat
    BY <2>1
  <2>3. q * size <= p /\ p < (q + 1) * size
    <3> HIDE DEF q
    <3> QED BY <1>1, <2>1, <2>2, Between
  <2>4. inst <= q
    <3>1. inst * size <= p
      BY <1>1, <1>2, <1>3
    <3> QED BY <1>1, <1>2, <3>1, Between
  <2> QED BY <2>1, <2>3, <2>4
<1>5. Abstract(w, s)!ExpandMapping(inst, p) = q + 1
  <2>1. w \in Nat /\ s \in Nat /\ inst \in Nat /\ p \in Nat
    BY <1>1, <1>2
  <2> HIDE DEF w, s, inst
  <2> QED BY <1>3, <2>1, AbstractIs
<1> HIDE DEF q
<1>6. n \in Nat /\ m \in Nat /\ n > 0 /\ n = m + 1 /\ inst + n = q + 1 /\ inst + m = q
  BY <1>2, <1>4, <1>5
<1> HIDE DEF n, m
<1>7. Expandable
  <2>1. size <= Word32
    <3> HIDE DEF size
    <3> QED BY <1>1, Words
  <2> QED BY <2>1 DEF Expandable
<1>8. Size = size
  BY <1>2 DEF Size
<1>9. ASSUME NEW k \in Nat PROVE Reach(k) = (inst + k) * size
  <2>1. Keys(om) = {} => Reach(k) = 0 + k * size
    BY <1>8 DEF Reach
  <2>2. Keys(om) # {} => Reach(k) = inst * size + k * size
    BY <1>2, <1>8 DEF Reach
  <2> HIDE DEF size, inst
  <2>3. (inst + k) * size = inst * size + k * size /\ k * size \in Nat
    BY <1>1, <1>2, Products
  <2>4. inst = 0 => inst * size = 0
    BY <1>1
  <2> QED BY <1>2, <2>1, <2>2, <2>3, <2>4
<1>10. Reach(n) = (q + 1) * size /\ Reach(m) = q * size
  BY <1>6, <1>9
<1> HIDE DEF inst
<1>11. \A k \in Nat : Reach(k) \in Nat /\ Reach(k + 1) = Reach(k) + size
  BY <1>7, <1>8, ReachIs
<1> HIDE DEF size
<1>12. p < Reach(n) /\ Reach(m) <= p /\ Reach(n) <= Word64 /\ Reach(m) <= Word64
       /\ Reach(m) \in Nat
  <2>1. p < Reach(n) /\ Reach(m) <= p
    BY <1>4, <1>10
  <2>2. Reach(m) \in Nat /\ Reach(n) = Reach(m) + size
    BY <1>6, <1>11
  <2> QED BY <1>1, <2>1, <2>2, Words
<1>13. GrownBy[n] = Rounds(n) /\ GrownBy[m] = Rounds(m)
  BY <1>6, GrownByIs, InvStartable
<1>14. Maps(GrownBy[n], p)
  BY <1>1, <1>6, <1>7, <1>12, <1>13, RoundMaps
<1>15. ~Maps(GrownBy[m], p)
  <2>1. CASE m = 0
    BY <1>13, <2>1 DEF Rounds
  <2>2. CASE m > 0
    BY <1>1, <1>6, <1>7, <1>12, <1>13, <2>2, RoundMaps
  <2> QED BY <1>6, <2>1, <2>2
<1> QED BY <1>14, <1>15 DEF n, m, inst

\* The number of stripes, as the other modules keep it, determines what the code
\* computes on a map that the program made.
THEOREM NumberIsExact == Spec => []AbstractionExact
<1>1. MapInv => AbstractionExact
  <2> SUFFICES ASSUME MapInv, Usable, SelfMade, NEW p \in Positions
               PROVE  LET w == options.width
                          s == options.slots
                          inst == om.next_stripe_id
                      IN
                      /\ Maps(om, p) = Abstract(w, s)!Mapped(inst, p)
                      /\ Maps(om, p) =>
                           /\ map_oid(om, p) = Abstract(w, s)!Oid(p)
                           /\ map_last(om, p) = Abstract(w, s)!InLastStripe(inst, p)
                           /\ \A id \in 0 .. inst - 1 :
                                map_to(om, p, id) =
                                  {<<<<id, i>>, Abstract(w, s)!FullyTrimmed(id, i, p)>> :
                                     i \in {j \in 0 .. w - 1 : Abstract(w, s)!InTrimRange(id, j, p)}}
                      /\ w * s < Word32 /\ ~Maps(om, p) =>
                           LET n == Abstract(w, s)!ExpandMapping(inst, p) - inst
                           IN  Maps(GrownBy[n], p) /\ ~Maps(GrownBy[n - 1], p)
    BY DEF AbstractionExact
  <2> DEFINE w == options.width
             s == options.slots
             inst == om.next_stripe_id
  <2>1. p \in Nat /\ w \in Nat /\ s \in Nat
    BY OptionsAre DEF Positions, MapInv
  <2>2. inst \in Nat /\ (Maps(om, p) <=> p < inst * (w * s))
    BY <2>1, SelfMadeIs
  <2>3. Abstract(w, s)!Mapped(inst, p) = (p < inst * (w * s))
    BY <2>1, <2>2, AbstractIs
  <2>4. Maps(om, p) = Abstract(w, s)!Mapped(inst, p)
    <3>1. Maps(om, p) \in BOOLEAN
      BY DEF Maps
    <3>2. (p < inst * (w * s)) \in BOOLEAN
      OBVIOUS
    <3> DEFINE x == inst * (w * s)
    <3> HIDE DEF x
    <3>3. Maps(om, p) = (p < x)
      BY <2>2, <3>1, <3>2 DEF x
    <3> QED BY <2>3, <3>3 DEF x
  <2>5. Maps(om, p) =>
          /\ map_oid(om, p) = Abstract(w, s)!Oid(p)
          /\ map_last(om, p) = Abstract(w, s)!InLastStripe(inst, p)
          /\ \A id \in 0 .. inst - 1 :
               map_to(om, p, id) =
                 {<<<<id, i>>, Abstract(w, s)!FullyTrimmed(id, i, p)>> :
                    i \in {j \in 0 .. w - 1 : Abstract(w, s)!InTrimRange(id, j, p)}}
    BY <2>1, LooksAbstract
  <2>6. w * s < Word32 /\ ~Maps(om, p) =>
          LET n == Abstract(w, s)!ExpandMapping(inst, p) - inst
          IN  Maps(GrownBy[n], p) /\ ~Maps(GrownBy[n - 1], p)
    BY GrowsAbstract
  <2> QED BY <2>4, <2>5, <2>6
<1> QED BY <1>1, MapHolds, PTL
==============================================================================
