------------------------------ MODULE ObjectMap ------------------------------
(***************************************************************************)
(* How a view maps log positions to storage objects (object_map.{h,cc} and *)
(* stripe.{h,cc}).                                                         *)
(*                                                                         *)
(* Every object map the program builds holds at most one MultiStripe: the  *)
(* initial view has none or one, and expand_mapping only ever extends the  *)
(* last one.  Such a map is determined by the number of its stripe         *)
(* instances, so a view carries `inst' where the code carries              *)
(* stripes_by_pos_ and next_stripe_id_.                                    *)
(*                                                                         *)
(* A stripe instance s maps the StripeSize consecutive positions that      *)
(* start at s * StripeSize onto Width objects, round robin.  An object is  *)
(* named by its stripe id and its index in the stripe (Stripe::make_oid).  *)
(***************************************************************************)
EXTENDS Integers

CONSTANTS
    Width,       \* Options::stripe_width
    Slots,       \* Options::stripe_slots
    MaxStripes   \* bound: stripes a view may map

ASSUME LayoutAssumption ==
    /\ Width \in Nat \ {0}
    /\ Slots \in Nat \ {0}
    /\ MaxStripes \in Nat \ {0}

StripeSize == Width * Slots

Positions == 0 .. (MaxStripes * StripeSize - 1)

StripeIds == 0 .. (MaxStripes - 1)

Indexes == 0 .. (Width - 1)

Oids == StripeIds \X Indexes

\* ObjectMap::map: is the position mapped, and by which stripe and object?
Mapped(inst, p) == p < inst * StripeSize

StripeOf(p) == p \div StripeSize

Oid(p) == <<StripeOf(p), p % Width>>

\* The second component of ObjectMap::map: the position falls in the last
\* instance of the last stripe.
InLastStripe(inst, p) == Mapped(inst, p) /\ StripeOf(p) = inst - 1

\* ObjectMap::max_position
MaxPosition(inst) == inst * StripeSize - 1

MinPos(s) == s * StripeSize

MaxPos(s) == MinPos(s) + StripeSize - 1

\* ObjectMap::expand_mapping adds one instance at a time until the position is
\* mapped; this is the number of instances it stops at.
ExpandMapping(inst, p) == IF Mapped(inst, p) THEN inst ELSE StripeOf(p) + 1

\* ObjectMap::map_to, the objects of one stripe that hold positions <= p, in
\* the order they are trimmed.  Object i's smallest position is MinPos(s) + i
\* and its largest MaxPos(s) - (Width - 1) + i.
InTrimRange(s, i, p) == MinPos(s) + i <= p

\* The flag of the pair map_to builds: all of the object's positions are <= p.
FullyTrimmed(s, i, p) == MaxPos(s) - (Width - 1) + i <= p
==============================================================================
