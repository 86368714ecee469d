------------------------------- MODULE Mapping -------------------------------
(***************************************************************************)
(* The object map as the code keeps it (object_map.{h,cc}, stripe.{h,cc}   *)
(* and view.cc): stripes_by_pos_, a map from first positions to            *)
(* MultiStripes, with the arithmetic in the widths of the code.  The other *)
(* modules use ObjectMap, where a map is a number of stripes; here the two *)
(* are compared.                                                           *)
(*                                                                         *)
(* The machine's state is one view's map and its options: it is created,   *)
(* expanded, given a larger minimum valid position, and written and read   *)
(* back.  A map that is read may have several MultiStripes, as those of    *)
(* object_map_test.cc: views are decoded as they are, although the code    *)
(* itself only ever extends the last one.                                  *)
(***************************************************************************)
EXTENDS Integers, FiniteSetsExt, SequencesExt

CONSTANTS
    Word32, Word64,  \* 2^32 and 2^64
    Sides,           \* values of stripe_width and stripe_slots
    TopPosition,     \* bound: largest position looked at
    StoredMaps       \* further maps that may be read

VARIABLES
    options,  \* stripe_width and stripe_slots
    om,       \* [next_stripe_id, stripes, min_valid_position]
    status    \* "ok", or what became of the process: "assert", "sigfpe", or
              \* "spins" for a loop without progress

vars == <<options, om, status>>

Positions == 0 .. TopPosition

\* A product of two uint32_t
Mul32(a, b) == (a * b) % Word32

(* MultiStripe *)
MultiStripe(base_id, width, slots, min, instances, max) ==
    [base_id |-> base_id, width |-> width, slots |-> slots,
     min_position |-> min, instances |-> instances, max_position |-> max]

\* The asserts of the constructor; instances_ is 64 bits wide, and so is the
\* product with it.
Constructible(m) ==
    /\ m.width > 0 /\ m.slots > 0 /\ m.instances > 0
    /\ (m.base_id > 0) <=> (m.min_position > 0)
    /\ m.min_position <= m.max_position
    /\ m.max_position = (m.min_position + m.instances * m.width * m.slots - 1) % Word64

max_stripe_id(m) == m.base_id + m.instances - 1

\* Seeded fault: the positions of the new stripe are counted in 32 bits.
FaultyExtend(m) ==
    [m EXCEPT !.instances = @ + 1, !.max_position = (@ + Mul32(m.width, m.slots)) % Word64]

extend(m) ==
    [m EXCEPT !.instances = @ + 1, !.max_position = (@ + m.width * m.slots) % Word64]

\* Stripe, as MultiStripe::stripe_by_id builds it
Stripe(m, id) ==
    LET entries == m.width * m.slots
        min == m.min_position + (id - m.base_id) * entries
    IN  [id |-> id, width |-> m.width, min_position |-> min, max_position |-> min + entries - 1]

\* The asserts of Stripe's constructor
StripeAsserts(s) ==
    /\ s.width > 0
    /\ (s.id > 0) <=> (s.min_position > 0)
    /\ s.max_position >= s.min_position + s.width - 1
    /\ (s.max_position - s.min_position + 1) % s.width = 0

\* Stripe::make_oid: the stripe's id and the position's index
make_oid(id, width, p) == <<id, p % width>>

(* ObjectMap *)
Keys(map) == DOMAIN map.stripes
last_key(map) == Max(Keys(map))

\* ObjectMap::valid; stripes_by_id_ holds the same MultiStripes, by base id.
valid(map) ==
    /\ \A k \in Keys(map) : map.stripes[k].min_position = k
    /\ \A j, k \in Keys(map) : j # k => map.stripes[j].base_id # map.stripes[k].base_id
    /\ map.next_stripe_id = IF Keys(map) = {} THEN 0
                            ELSE max_stripe_id(map.stripes[last_key(map)]) + 1
    /\ Keys(map) # {} => 0 \in Keys(map) /\ map.stripes[0].base_id = 0
    /\ \A k \in Keys(map) \ {0} :
         LET prev == map.stripes[Max({j \in Keys(map) : j < k})]
         IN  prev.max_position + 1 = k /\ max_stripe_id(prev) + 1 = map.stripes[k].base_id

\* std::prev(upper_bound(position))
MultiStripeAt(map, p) == map.stripes[Max({k \in Keys(map) : k <= p})]

Maps(map, p) == Keys(map) # {} /\ p <= MultiStripeAt(map, p).max_position

\* map and map_stripe divide by the 32 bit product.
DividesByZero(map, p) ==
    /\ Maps(map, p)
    /\ Mul32(MultiStripeAt(map, p).width, MultiStripeAt(map, p).slots) = 0

\* Seeded fault: the position is not made relative to the MultiStripe.
FaultyStripeId(map, p) ==
    LET m == MultiStripeAt(map, p)
    IN  m.base_id + p \div Mul32(m.width, m.slots)

StripeId(map, p) ==
    LET m == MultiStripeAt(map, p)
    IN  m.base_id + (p - m.min_position) \div Mul32(m.width, m.slots)

\* ObjectMap::map, for a position that is mapped
map_oid(map, p) == make_oid(StripeId(map, p), MultiStripeAt(map, p).width, p)

\* Seeded fault: every instance of the last MultiStripe is the last stripe.
FaultyMapLast(map, p) == MultiStripeAt(map, p) = map.stripes[last_key(map)]

map_last(map, p) ==
    LET m == MultiStripeAt(map, p)
    IN  m = map.stripes[last_key(map)] /\ StripeId(map, p) = max_stripe_id(m)

\* ObjectMap::stripe_by_id, through stripes_by_id_
stripe_by_id(map, id) ==
    LET k == CHOOSE j \in Keys(map) :
               map.stripes[j].base_id <= id /\ id <= max_stripe_id(map.stripes[j])
    IN  Stripe(map.stripes[k], id)

\* ObjectMap::map_stripe
map_stripe(map, p) == stripe_by_id(map, StripeId(map, p))

\* Seeded fault: the last position of an object is taken for that of its stripe.
FaultyMapTo(map, p, id) ==
    LET s == stripe_by_id(map, id) IN
    {<<<<id, i>>, s.max_position <= p>> :
        i \in {j \in 0 .. s.width - 1 : s.min_position + j <= p}}

\* ObjectMap::map_to, one step of the iteration: the objects of stripe `id'
\* with positions up to p, and whether these are all of the object's.
map_to(map, p, id) ==
    LET s == stripe_by_id(map, id)
        full(i) == s.max_position - (s.width - 1) + i <= p
    IN  IF s.min_position > p THEN {}
        ELSE {<<<<id, i>>, full(i)>> :
                i \in {j \in 0 .. s.width - 1 : full(j) \/ s.min_position + j <= p}}

NewMap(next, stripes, min) ==
    [next_stripe_id |-> next, stripes |-> stripes, min_valid_position |-> min]

\* The first stripe, in View::create_initial and ObjectMap::expand_mapping: the
\* largest position is computed in 32 bits.
FirstStripe ==
    MultiStripe(0, options.width, options.slots, 0, 1,
                (options.width * options.slots - 1) % Word32)

\* One round of expand_mapping's loop
Grown(map) ==
    IF Keys(map) = {} THEN NewMap(1, [k \in {0} |-> FirstStripe], map.min_valid_position)
    ELSE [map EXCEPT !.next_stripe_id = @ + 1, !.stripes[last_key(map)] = extend(@)]

\* n rounds
GrownBy[n \in Nat] == IF n = 0 THEN om ELSE Grown(GrownBy[n - 1])

(* The stored form: MultiStripe::encode and ObjectMap::encode write the     *)
(* fields in the order of the schema, decode reads them back by name.  The  *)
(* stripes are a vector, whose order decode ignores.                        *)
EncodeStripe(m) ==
    <<m.base_id, m.width, m.slots, m.instances, m.min_position, m.max_position>>

DecodeStripe(f) == MultiStripe(f[1], f[2], f[3], f[5], f[4], f[6])

encode(map) ==
    <<map.next_stripe_id, {EncodeStripe(map.stripes[k]) : k \in Keys(map)},
      map.min_valid_position>>

decode(data) ==
    LET stripes == {DecodeStripe(f) : f \in data[2]}
    IN  NewMap(data[1],
               [k \in {m.min_position : m \in stripes} |->
                   CHOOSE m \in stripes : m.min_position = k],
               data[3])

(* The state machine *)
\* The asserts of the constructors of a map and its MultiStripes
Sound(map) == valid(map) /\ \A k \in Keys(map) : Constructible(map.stripes[k])

MultiStripes ==
    [base_id : Nat, width : Nat, slots : Nat, min_position : Nat, instances : Nat,
     max_position : Nat]

\* The values that a map's fields can take
Typed(map) ==
    /\ map = NewMap(map.next_stripe_id, map.stripes, map.min_valid_position)
    /\ map.next_stripe_id \in Nat /\ map.min_valid_position \in 0 .. Word64 - 1
    /\ Keys(map) \subseteq 0 .. Word64 - 1
    /\ map.stripes \in [Keys(map) -> MultiStripes]

\* Nothing wraps around in the map: every MultiStripe ends where its size says.
Straight(map) ==
    \A k \in Keys(map) :
      LET m == map.stripes[k]
      IN  m.min_position + m.instances * m.width * m.slots <= Word64

\* The head room below Word64 lets every position looked at be mapped.  A stored
\* map passed the asserts of the program that wrote it, whose stripes, if they
\* divide nothing by zero, have less than 2^32 positions.
ASSUME MappingAssumption ==
    /\ Word32 \in Nat \ {0} /\ Word64 = Word32 * Word32
    /\ Sides \subseteq 1 .. Word32 - 1
    /\ TopPosition \in Nat /\ TopPosition + Word32 <= Word64
    /\ \A map \in StoredMaps :
         /\ Typed(map) /\ Sound(map) /\ Straight(map)
         /\ \A k \in Keys(map) : map.stripes[k].width * map.stripes[k].slots < Word32

\* A map is built, proposed as part of a view, and in use once it is read back.
Adopt(map) ==
    IF Sound(map) THEN om' = decode(encode(map)) /\ status' = "ok"
                  ELSE om' = om /\ status' = "assert"

Fails(how) == om' = om /\ status' = how

EmptyMap == NewMap(0, <<>>, 0)

\* The view of a log created without create_initial_view_stripes, or a view
\* that was stored before.
Init ==
    /\ options \in [width : Sides, slots : Sides]
    /\ om \in {EmptyMap} \cup StoredMaps
    /\ status = "ok"

\* View::create_initial with create_initial_view_stripes
create_initial ==
    /\ status = "ok" /\ om = EmptyMap
    /\ Adopt(NewMap(1, [k \in {0} |-> FirstStripe], 0))
    /\ UNCHANGED options

\* Seeded fault: one stripe more than the position needs
FaultyExpandMapping(p) ==
    /\ status = "ok" /\ ~Maps(om, p)
    /\ LET n == Min({k \in 1 .. p + 1 : ~Sound(GrownBy[k]) \/ Maps(GrownBy[k], p)}) + 1
       IN  IF Sound(GrownBy[n]) /\ DividesByZero(GrownBy[n], p) THEN Fails("sigfpe") ELSE Adopt(GrownBy[n])
    /\ UNCHANGED options

\* ObjectMap::expand_mapping: the position is looked up in the map of every
\* round, until it is found or an assert fails.
expand_mapping(p) ==
    /\ status = "ok" /\ ~Maps(om, p)
    /\ LET n == Min({k \in 1 .. p + 1 : ~Sound(GrownBy[k]) \/ Maps(GrownBy[k], p)})
       IN  IF Sound(GrownBy[n]) /\ DividesByZero(GrownBy[n], p)
             THEN Fails("sigfpe") ELSE Adopt(GrownBy[n])
    /\ UNCHANGED options

\* The other operations on a position, and expand_mapping for one that is
\* mapped, look it up and change nothing.
Lookup(p) ==
    /\ status = "ok" /\ DividesByZero(om, p)
    /\ Fails("sigfpe")
    /\ UNCHANGED options

\* The head of TrimToOp::run's loop, with ObjectMap::advance_min_valid_position
advance_min_valid_position(p) ==
    /\ status = "ok" /\ p >= om.min_valid_position
    /\ LET next == (p + 1) % Word64
       IN  IF next <= om.min_valid_position
             THEN Fails("spins") ELSE Adopt([om EXCEPT !.min_valid_position = next])
    /\ UNCHANGED options

Next ==
    \/ create_initial
    \/ \E p \in Positions : expand_mapping(p) \/ Lookup(p)
    \/ \E p \in Positions \cup {Word64 - 1} : advance_min_valid_position(p)

Spec == Init /\ [][Next]_vars

(* Reference definitions, by counting positions *)
Usable == status = "ok" /\ \A p \in Positions : ~DividesByZero(om, p)

\* The first positions of all stripes
Starts(map) ==
    UNION {{k + n * map.stripes[k].width * map.stripes[k].slots :
                n \in 0 .. map.stripes[k].instances - 1} : k \in Keys(map)}

RefStripe(map, p) == Cardinality({b \in Starts(map) : b <= p}) - 1

RefWidth(map, p) == map.stripes[Max({k \in Keys(map) : k <= p})].width

RefOid(map, p) == <<RefStripe(map, p), p % RefWidth(map, p)>>

Mapped(map) == {p \in 0 .. Word64 - 1 : Maps(map, p)}

\* The object that map_to takes a position to be in: it numbers the objects of
\* a stripe from the stripe's first position, where map takes the remainder of
\* the position itself.
CountedOid(map, p) ==
    <<RefStripe(map, p), (p - Max({b \in Starts(map) : b <= p})) % RefWidth(map, p)>>

\* All positions in the object that map_to takes p to be in
Beside(map, p) == {q \in Mapped(map) : CountedOid(map, q) = CountedOid(map, p)}

\* Every MultiStripe starts at a multiple of its width.
Aligned(map) == \A k \in Keys(map) : k % map.stripes[k].width = 0

\* MapExact: map names the object that counting stripes from the start of the
\* log gives, says "last stripe" exactly for the positions after the last
\* stripe's start, and map_stripe gives the stripe with just the positions that
\* share a stripe id, for which the asserts of stripe.h:30-46 hold
\* (object_map.cc:7-53), whatever mix of widths the map has.
MapExact ==
    Usable => \A p \in Mapped(om) :
      /\ map_oid(om, p) = RefOid(om, p)
      /\ map_last(om, p) = (p >= Max(Starts(om)))
      /\ LET s == map_stripe(om, p)
         IN  /\ StripeAsserts(s)
             /\ s.min_position .. s.max_position =
                  {q \in Mapped(om) : RefStripe(om, q) = RefStripe(om, p)}

\* MapToExact: for a mapped position, the iteration of map_to over the stripes
\* yields every object that holds a position up to it, no other, and marks it
\* full exactly if it holds no later position (object_map.cc:55-104): TrimToOp
\* deletes the data of the objects marked full.  These are the objects of
\* map's lookups if every MultiStripe starts at a multiple of its width; in any
\* other map, which ObjectMap::valid admits, map_to names some positions' objects
\* wrong (object_map.cc:87-97 against stripe.cc:15).
MapToExact ==
    Usable =>
    /\ \A p \in Mapped(om) \cap Positions :
         UNION {map_to(om, p, id) : id \in 0 .. om.next_stripe_id - 1} =
           {<<CountedOid(om, q), \A r \in Beside(om, q) : r <= p>> : q \in 0 .. p}
    /\ Aligned(om) <=> \A q \in Mapped(om) : map_oid(om, q) = CountedOid(om, q)

\* MappingStable: no step moves a position to another object or unmaps it, none
\* lowers the minimum valid position, and an expansion adds no stripe that is
\* not needed: the stripe before the last maps nothing beyond the position.
MappingStable ==
    [][/\ \A p \in Mapped(om) : Maps(om', p) /\ RefOid(om', p) = RefOid(om, p)
       /\ om'.min_valid_position >= om.min_valid_position
       /\ \A p \in Positions :
            expand_mapping(p) /\ status' = "ok" => Maps(om', p) /\ p >= Max(Starts(om'))]_vars

\* OnlyAtLimits: the arithmetic that wraps around stops the program only for
\* stripes of 2^32 positions and more and for trimTo of the largest position
\* (log_impl.cc:470, where position_ + 1 wraps and the loop spins).  The asserts
\* stop every stripe of more than 2^32 positions; 2^32 itself they let through,
\* and the first lookup divides by zero (object_map.cc:17, 39).
OnlyAtLimits ==
    [][LET size == options.width * options.slots IN
       /\ status' = "assert" => size > Word32
       /\ status' = "sigfpe" \/ (status' = "ok" /\ ~Usable') => size = Word32
       /\ status' = "spins" => \A p \in Positions : ~advance_min_valid_position(p)]_vars

\* The map as the other modules see it: a number of stripes
Abstract(width, slots) ==
    INSTANCE ObjectMap WITH Width <- width, Slots <- slots, MaxStripes <- Word64

SelfMade ==
    \A k \in Keys(om) :
      k = 0 /\ om.stripes[k].width = options.width /\ om.stripes[k].slots = options.slots

\* AbstractionExact: a map the program itself made is determined by its number
\* of stripes, and ObjectMap's operators give what the code computes: lookup,
\* the last stripe, the objects of a trim and the size after an expansion.
AbstractionExact ==
    Usable /\ SelfMade =>
    LET w == options.width
        s == options.slots
        inst == om.next_stripe_id
    IN  \A p \in Positions :
          /\ Maps(om, p) = Abstract(w, s)!Mapped(inst, p)
          /\ Maps(om, p) =>
               /\ map_oid(om, p) = Abstract(w, s)!Oid(p)
               /\ map_last(om, p) = Abstract(w, s)!InLastStripe(inst, p)
               /\ \A id \in 0 .. inst - 1 :
                    map_to(om, p, id) =
                      {<<<<id, i>>, Abstract(w, s)!FullyTrimmed(id, i, p)>> :
                         i \in {j \in 0 .. w - 1 : Abstract(w, s)!InTrimRange(id, j, p)}}
          /\ w * s < Word32 /\ ~Maps(om, p) =>
               LET n == Abstract(w, s)!ExpandMapping(inst, p) - inst
               IN  Maps(GrownBy[n], p) /\ ~Maps(GrownBy[n - 1], p)
==============================================================================
