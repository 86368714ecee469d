--------------------------- MODULE ZLogFenceProofs ---------------------------
(***************************************************************************)
(* What the layout of positions guarantees, for every stripe width, number *)
(* of slots and number of stripes, and what each call of the RAM backend   *)
(* does to an object and to the history of views: the proofs about the log *)
(* cite these facts and never expand the arithmetic of ObjectMap.          *)
(*                                                                         *)
(* Then type correctness of ZLog; and that the history of views only moves *)
(* forward, and a sequencer that takes over fences the one before.         *)
(***************************************************************************)
EXTENDS ZLogInv, SequenceTheorems, WellFoundedInduction, TLAPS

-----------------------------------------------------------------------------
(* ObjectMap *)

\* A stripe maps at least one position (Options::stripe_width, stripe_slots).
LEMMA StripeSizePos == StripeSize \in Nat \ {0}
BY LayoutAssumption DEF StripeSize

\* Positions start at 0 and are natural numbers,
LEMMA PositionsNat == Positions \subseteq Nat /\ 0 \in Positions
BY StripeSizePos, LayoutAssumption DEF Positions

\* and end where the last stripe ends.
LEMMA PositionsBound ==
    /\ MaxStripes * StripeSize \in Nat
    /\ \A p \in Nat : p \in Positions <=> p < MaxStripes * StripeSize
BY StripeSizePos, LayoutAssumption DEF Positions

\* Division and remainder as ObjectMap::map uses them: a position lies in the
\* stripe it is divided to.
LEMMA StripeOfBounds ==
    ASSUME NEW p \in Nat
    PROVE  /\ StripeOf(p) \in Nat
           /\ MinPos(StripeOf(p)) <= p
           /\ p < MinPos(StripeOf(p)) + StripeSize
BY StripeSizePos DEF StripeOf, MinPos

\* A map of n stripes maps the positions of the stripes below n.
LEMMA MappedStripe ==
    ASSUME NEW p \in Nat, NEW n \in Nat
    PROVE  Mapped(n, p) <=> StripeOf(p) < n
BY StripeSizePos DEF StripeOf, Mapped

\* Extending a map keeps what it maps (MultiStripe::extend).
LEMMA MappedMonotone ==
    ASSUME NEW p \in Nat, NEW m \in Nat, NEW n \in Nat, m <= n, Mapped(m, p)
    PROVE  Mapped(n, p)
BY MappedStripe, StripeOfBounds

\* Every position the bound allows belongs to an object.
LEMMA OidType ==
    ASSUME NEW p \in Positions
    PROVE  /\ Oid(p) \in Oids
           /\ Oid(p)[1] = StripeOf(p)
           /\ Oid(p)[2] = p % Width
<1>1. StripeOf(p) \in StripeIds
  BY MappedStripe, StripeOfBounds, PositionsNat, PositionsBound, LayoutAssumption
  DEF Mapped, StripeIds
<1>2. p % Width \in Indexes
  BY PositionsNat, PositionsBound, LayoutAssumption DEF Indexes
<1> QED BY <1>1, <1>2 DEF Oid, Oids

\* The first position of a stripe is a natural number.
LEMMA MinPosNat == \A s \in Nat : MinPos(s) \in Nat
BY StripeSizePos DEF MinPos

\* The first position of a stripe separates the stripes before it.
LEMMA MinPosSeparates ==
    ASSUME NEW p \in Nat, NEW s \in Nat, MinPos(s) <= p
    PROVE  s <= StripeOf(p)
<1>1. ~Mapped(s, p)
  BY MinPosNat DEF Mapped, MinPos
<1> QED BY <1>1, MappedStripe, StripeOfBounds

\* expand_mapping never shrinks the map, stays within the bound and maps the
\* position it was called for.
LEMMA ExpandMappingMaps ==
    ASSUME NEW n \in 0 .. MaxStripes, NEW p \in Positions
    PROVE  /\ ExpandMapping(n, p) \in 0 .. MaxStripes
           /\ n <= ExpandMapping(n, p)
           /\ Mapped(ExpandMapping(n, p), p)
<1>1. p \in Nat /\ StripeOf(p) \in Nat /\ StripeOf(p) < MaxStripes
  BY PositionsNat, PositionsBound, StripeOfBounds, MappedStripe, LayoutAssumption DEF Mapped
<1> QED BY <1>1, MappedStripe, LayoutAssumption DEF ExpandMapping

\* The position asked for in the background is within the bound.
LEMMA NextStripePosition ==
    ASSUME NEW n \in 0 .. MaxStripes, n < MaxStripes
    PROVE  MaxPosition(n) + 1 \in Positions
<1>1. n * StripeSize < MaxStripes * StripeSize
  BY StripeSizePos, LayoutAssumption
<1> QED BY <1>1, StripeSizePos, PositionsNat, PositionsBound, LayoutAssumption DEF MaxPosition

\* map_to's flag: an object reported as covered by a trim up to q holds no
\* position above q.
LEMMA FullyTrimmedCovers ==
    ASSUME NEW p \in Positions, NEW q \in Positions,
           FullyTrimmed(Oid(p)[1], Oid(p)[2], q)
    PROVE  p <= q
<1> DEFINE k == p \div Width
           s == StripeOf(p)
<1>1. p \in Nat /\ q \in Nat /\ s \in Nat /\ k \in Nat
  BY PositionsNat, PositionsBound, StripeOfBounds, LayoutAssumption
<1>2. p = k * Width + (p % Width) /\ p % Width \in 0 .. Width - 1
  BY <1>1, LayoutAssumption
<1>3. p < (s + 1) * StripeSize
  BY <1>1, StripeOfBounds, StripeSizePos DEF MinPos
<1>4. (s + 1) * StripeSize = ((s + 1) * Slots) * Width
  BY <1>1, LayoutAssumption DEF StripeSize
<1>5. k * Width < ((s + 1) * Slots) * Width
  BY <1>1, <1>2, <1>3, <1>4, LayoutAssumption
<1>6. k < (s + 1) * Slots
  BY <1>1, <1>5, LayoutAssumption
<1>7. k * Width + Width <= ((s + 1) * Slots) * Width
  <2>1. k + 1 <= (s + 1) * Slots
    BY <1>1, <1>6, LayoutAssumption
  <2>2. (k + 1) * Width <= ((s + 1) * Slots) * Width
    BY <1>1, <2>1, LayoutAssumption
  <2> QED BY <1>1, <2>2, LayoutAssumption
<1>8. MaxPos(s) - (Width - 1) + (p % Width) <= q
  BY OidType DEF FullyTrimmed
<1>9. (s + 1) * StripeSize - Width + (p % Width) <= q
  BY <1>1, <1>2, <1>8, StripeSizePos, LayoutAssumption DEF MaxPos, MinPos
<1> QED BY <1>1, <1>2, <1>4, <1>7, <1>9, StripeSizePos, LayoutAssumption

\* Dividing a * Width + j leaves the remainder j.
LEMMA RemainderOf ==
    ASSUME NEW a \in Nat, NEW j \in Indexes, NEW p \in Nat, p = a * Width + j
    PROVE  p % Width = j
<1> DEFINE k == p \div Width
           r == p % Width
<1>1. /\ p = k * Width + r /\ r \in 0 .. Width - 1 /\ k \in Nat
      /\ j \in 0 .. Width - 1 /\ Width \in Nat /\ k * Width \in Nat /\ a * Width \in Nat
  BY LayoutAssumption DEF Indexes
<1> HIDE DEF k, r
<1>2. k = a
  <2>1. CASE k < a
    <3>1. (k + 1) * Width <= a * Width
      BY <1>1, <2>1
    <3>2. k * Width + Width <= a * Width
      BY <1>1, <3>1
    <3> QED BY <1>1, <3>2
  <2>2. CASE a < k
    <3>1. (a + 1) * Width <= k * Width
      BY <1>1, <2>2
    <3>2. a * Width + Width <= k * Width
      BY <1>1, <3>1
    <3> QED BY <1>1, <3>2
  <2> QED BY <1>1, <2>1, <2>2
<1>3. r = j
  BY <1>1, <1>2
<1> QED BY <1>3 DEF r

\* map_to's range: when the walk over the objects, stripe after stripe, has
\* reached the end of the map or an object outside the range, it is past every
\* object that holds a position of the range.
LEMMA TrimRangeCovers ==
    ASSUME NEW p \in Positions, NEW q \in Positions, p <= q,
           NEW n \in Nat, Mapped(n, q), NEW s \in Nat, NEW i \in Indexes,
           s >= n \/ ~InTrimRange(s, i, q)
    PROVE  Oid(p)[1] < s \/ (Oid(p)[1] = s /\ Oid(p)[2] < i)
<1>1. /\ p \in Nat /\ q \in Nat /\ StripeOf(p) \in Nat
      /\ Oid(p)[1] = StripeOf(p) /\ Oid(p)[2] = p % Width
  BY PositionsNat, StripeOfBounds, OidType
<1>2. CASE s >= n
  <2>1. n * StripeSize \in Nat
    BY StripeSizePos
  <2>2. Mapped(n, p)
    BY <1>1, <2>1 DEF Mapped
  <2> QED BY <1>1, <1>2, <2>2, MappedStripe
<1>3. CASE ~InTrimRange(s, i, q)
  <2>1. i \in Nat /\ i < Width /\ MinPos(s) \in Nat /\ Width \in Nat
    BY LayoutAssumption, MinPosNat DEF Indexes
  <2>2. p < MinPos(s) + i
    BY <1>1, <1>3, <2>1 DEF InTrimRange
  <2>3. Width <= StripeSize /\ StripeSize \in Nat
    BY LayoutAssumption, StripeSizePos DEF StripeSize
  <2>4. (s + 1) * StripeSize = MinPos(s) + StripeSize
    BY <2>3 DEF MinPos
  <2>5. StripeOf(p) < s + 1
    <3>1. Mapped(s + 1, p)
      BY <1>1, <2>1, <2>2, <2>3, <2>4 DEF Mapped
    <3> QED BY <1>1, <3>1, MappedStripe
  <2>6. ASSUME StripeOf(p) = s PROVE p % Width < i
    <3>1. MinPos(s) <= p
      BY <1>1, <2>6, StripeOfBounds
    <3>2. p - MinPos(s) \in Indexes /\ p - MinPos(s) < i
      BY <1>1, <2>1, <2>2, <3>1 DEF Indexes
    <3>3. MinPos(s) = (s * Slots) * Width /\ s * Slots \in Nat
      BY LayoutAssumption DEF MinPos, StripeSize
    <3>4. p = (s * Slots) * Width + (p - MinPos(s))
      BY <1>1, <2>1, <3>3
    <3>5. p % Width = p - MinPos(s)
      BY <1>1, <3>2, <3>3, <3>4, RemainderOf
    <3> QED BY <3>2, <3>5
  <2> QED BY <1>1, <2>5, <2>6
<1> QED BY <1>2, <1>3

-----------------------------------------------------------------------------
(* Backend *)


\* The sentinels are not positions, the data values are.
LEMMA BackendTypes ==
    /\ NoEntry \in Entries /\ Junk \in Entries /\ Junk # NoEntry
    /\ NoLimit \notin Positions
    /\ Entries \subseteq Int
BY PositionsNat, MaxOpsAssumption DEF NoEntry, Junk, Entries, NoLimit

\* A trim limit is a number, set or not.
LEMMA LimitsInt == \A x \in Positions \cup {NoLimit} : x \in Int
BY PositionsNat DEF NoLimit

\* An object that does not exist is an empty one.
LEMMA AbsentType ==
    ASSUME NEW E, 0 \in E PROVE Absent \in LogObject(E)
BY BackendTypes, PositionsNat DEF Absent, LogObject

\* The larger of two numbers.
LEMMA LargerFacts ==
    ASSUME NEW m \in Int, NEW n \in Int
    PROVE  Larger(m, n) \in {m, n} /\ Larger(m, n) >= m /\ Larger(m, n) >= n
BY DEF Larger

\* Seal keeps the contents, never lowers the epoch, and leaves the object
\* sealed with at least the epoch it was given, whatever it returns.
LEMMA SealFacts ==
    ASSUME NEW E, E \subseteq Int, NEW o \in LogObject(E), NEW epoch \in E
    PROVE  /\ Seal(o, epoch).obj \in LogObject(E)
           /\ Seal(o, epoch).ret \in {"OK", "ESPIPE"}
           /\ Seal(o, epoch).obj.epoch >= o.epoch
           /\ Seal(o, epoch).obj.epoch >= epoch
           /\ Seal(o, epoch).obj.entries = o.entries
           /\ Seal(o, epoch).obj.maxpos = o.maxpos
           /\ Seal(o, epoch).obj.trim_limit = o.trim_limit
BY DEF Seal, Result, LogObject

\* Inserting an entry raises maxpos and touches nothing else.
LEMMA InsertFacts ==
    ASSUME NEW E, NEW o \in LogObject(E), NEW p \in Positions, NEW x \in Entries
    PROVE  /\ Insert(o, p, x) \in LogObject(E)
           /\ Insert(o, p, x).epoch = o.epoch
           /\ Insert(o, p, x).trim_limit = o.trim_limit
           /\ Insert(o, p, x).entries[p] = x
           /\ \A q \in Positions : q # p => Insert(o, p, x).entries[q] = o.entries[q]
           /\ Insert(o, p, x).maxpos >= o.maxpos
           /\ Insert(o, p, x).maxpos >= p
<1> DEFINE m == Larger(o.maxpos, p)
           f == [o.entries EXCEPT ![p] = x]
<1>1. /\ o.entries \in [Positions -> Entries] /\ o.maxpos \in Positions
      /\ o.epoch \in E /\ o.trim_limit \in Positions \cup {NoLimit}
  BY DEF LogObject
<1>2. m \in Positions /\ m >= o.maxpos /\ m >= p
  <2>1. o.maxpos \in Int /\ p \in Int
    BY <1>1, LimitsInt
  <2>2. m \in {o.maxpos, p} /\ m >= o.maxpos /\ m >= p
    BY <2>1, LargerFacts
  <2> QED BY <1>1, <2>2
<1>3. /\ f \in [Positions -> Entries] /\ f[p] = x
      /\ \A q \in Positions : q # p => f[q] = o.entries[q]
  BY <1>1
<1>4. Insert(o, p, x) = [[o EXCEPT !.entries = f] EXCEPT !.maxpos = m]
  BY DEF Insert
<1> HIDE DEF m, f
<1> QED BY <1>1, <1>2, <1>3, <1>4 DEF LogObject

\* A write with a stale epoch is refused, and one that succeeds inserts.
LEMMA WriteFacts ==
    ASSUME NEW E, E \subseteq Int, NEW o \in LogObject(E), NEW epoch \in Int,
           NEW p \in Positions, NEW d \in Entries
    PROVE  /\ Write(o, epoch, p, d).ret \in {"OK", "ENOENT", "ESPIPE", "EROFS"}
           /\ Write(o, epoch, p, d).ret = "OK" =>
                /\ epoch >= o.epoch
                /\ Write(o, epoch, p, d).obj = Insert(o, p, d)
           /\ Write(o, epoch, p, d).ret # "OK" =>
                Write(o, epoch, p, d).obj = o
<1>1. o.epoch \in Int
  BY DEF LogObject
<1>2. CheckEpoch(o, epoch) \in {"OK", "ENOENT", "ESPIPE"}
  BY DEF CheckEpoch
<1>3. CheckEpoch(o, epoch) = "OK" => epoch >= o.epoch
  BY <1>1 DEF CheckEpoch
<1> QED BY <1>2, <1>3 DEF Write, Result

\* A write that succeeds found the position free.
LEMMA WriteFree ==
    ASSUME NEW o, NEW epoch, NEW p, NEW d, Write(o, epoch, p, d).ret = "OK"
    PROVE  o.entries[p] = NoEntry /\ ~Trimmed(o, p)
<1>1. CheckEpoch(o, epoch) = "OK"
  BY DEF Write, Result
<1>2. ~(Trimmed(o, p) \/ o.entries[p] # NoEntry)
  BY <1>1 DEF Write, Result
<1> QED BY <1>2

\* A fill that changes anything found the position free.
LEMMA FillFree ==
    ASSUME NEW o, NEW epoch, NEW p
    PROVE  \/ Fill(o, epoch, p).obj = o
           \/ /\ Fill(o, epoch, p).obj = Insert(o, p, Junk)
              /\ o.entries[p] = NoEntry /\ ~Trimmed(o, p)
BY DEF Fill, Result

\* A read says that a position is not written only if it is free.
LEMMA ReadFree ==
    ASSUME NEW o, NEW epoch, NEW p, Read(o, epoch, p) = "ERANGE"
    PROVE  o.entries[p] = NoEntry /\ ~Trimmed(o, p)
BY DEF Read, CheckEpoch

\* A fill inserts junk or changes nothing.
LEMMA FillFacts ==
    ASSUME NEW E, E \subseteq Int, NEW o \in LogObject(E), NEW epoch \in Int,
           NEW p \in Positions
    PROVE  /\ Fill(o, epoch, p).ret \in {"OK", "ENOENT", "ESPIPE", "EROFS"}
           /\ Fill(o, epoch, p).obj \in {o, Insert(o, p, Junk)}
BY DEF Fill, CheckEpoch, Result, LogObject

\* A trim of one position inserts junk or changes nothing.
LEMMA TrimFacts ==
    ASSUME NEW E, E \subseteq Int, NEW o \in LogObject(E), NEW epoch \in Int,
           NEW p \in Positions
    PROVE  /\ Trim(o, epoch, p).ret \in {"OK", "ENOENT", "ESPIPE"}
           /\ Trim(o, epoch, p).obj \in {o, Insert(o, p, Junk)}
BY DEF Trim, CheckEpoch, Result, LogObject

\* A trim up to a position never lowers the limit, and only drops entries when
\* the whole object is covered.
LEMMA TrimLimitFacts ==
    ASSUME NEW E, E \subseteq Int, NEW o \in LogObject(E), NEW epoch \in Int,
           NEW p \in Positions, NEW full \in BOOLEAN
    PROVE  LET res == TrimLimit(o, epoch, p, full) IN
           /\ res.ret \in {"OK", "ENOENT", "ESPIPE"}
           /\ res.obj \in LogObject(E)
           /\ res.obj.epoch = o.epoch
           /\ res.obj.maxpos = o.maxpos
           /\ res.ret # "OK" => res.obj = o
           /\ res.ret = "OK" =>
                /\ res.obj.trim_limit >= p
                /\ res.obj.trim_limit >= o.trim_limit
                /\ res.obj.trim_limit \in {o.trim_limit, p}
                /\ ~full => res.obj.entries = o.entries
                /\ full => \A q \in Positions : res.obj.entries[q] = NoEntry
<1> DEFINE m == Larger(o.trim_limit, p)
           f == IF full THEN Absent.entries ELSE o.entries
           new == [o EXCEPT !.trim_limit = m, !.entries = f]
<1>1. /\ o.entries \in [Positions -> Entries] /\ o.maxpos \in Positions
      /\ o.epoch \in E /\ o.trim_limit \in Positions \cup {NoLimit}
  BY DEF LogObject
<1>2. /\ m \in Positions /\ m >= o.trim_limit /\ m >= p
      /\ m \in {o.trim_limit, p}
  <2>1. o.trim_limit \in Int /\ p \in Int
    BY <1>1, LimitsInt
  <2>2. m \in {o.trim_limit, p} /\ m >= o.trim_limit /\ m >= p
    BY <2>1, LargerFacts
  <2>3. ~(NoLimit >= p)
    BY PositionsNat DEF NoLimit
  <2> HIDE DEF m
  <2> QED BY <1>1, <2>2, <2>3
<1>3. /\ f \in [Positions -> Entries]
      /\ full => \A q \in Positions : f[q] = NoEntry
      /\ ~full => f = o.entries
  BY <1>1, BackendTypes DEF Absent
<1>4. new \in LogObject(E)
      /\ new.epoch = o.epoch /\ new.maxpos = o.maxpos
      /\ new.entries = f /\ new.trim_limit = m
  <2> HIDE DEF m, f
  <2> QED BY <1>1, <1>2, <1>3 DEF LogObject, new
<1>5. CheckEpoch(o, epoch) \in {"OK", "ENOENT", "ESPIPE"}
  BY DEF CheckEpoch
<1>6. TrimLimit(o, epoch, p, full) =
        IF CheckEpoch(o, epoch) # "OK" THEN Result(CheckEpoch(o, epoch), o)
        ELSE Result("OK", new)
  BY DEF TrimLimit
<1> HIDE DEF m, f, new
<1> QED BY <1>2, <1>3, <1>4, <1>5, <1>6 DEF Result

\* Read has no effect; these are its answers.
LEMMA ReadFacts ==
    ASSUME NEW o, NEW epoch, NEW p
    PROVE  Read(o, epoch, p) \in {"OK", "ENOENT", "ESPIPE", "ENODATA", "ERANGE"}
BY DEF Read, CheckEpoch

\* MaxPos answers at most one past the last position.
LEMMA MaxPosFacts ==
    ASSUME NEW E, NEW o \in LogObject(E)
    PROVE  MaxPosPlus1(o) \in 0 .. (MaxStripes * StripeSize)
<1>1. o.maxpos \in Positions /\ o.trim_limit \in Positions \cup {NoLimit}
  BY DEF LogObject
<1>2. \A p \in Positions : p + 1 \in 0 .. (MaxStripes * StripeSize)
  BY PositionsNat, PositionsBound
<1>3. NoLimit + 1 \in 0 .. (MaxStripes * StripeSize)
  BY PositionsBound DEF NoLimit
<1>4. Larger(o.maxpos, o.trim_limit) \in Positions
  <2>1. o.maxpos \in Nat /\ o.trim_limit \in Int
    BY <1>1, PositionsNat, LimitsInt
  <2>2. Larger(o.maxpos, o.trim_limit) \in {o.maxpos, o.trim_limit}
        /\ Larger(o.maxpos, o.trim_limit) >= o.maxpos
    BY <2>1, LargerFacts
  <2>3. NoLimit < o.maxpos
    BY <2>1 DEF NoLimit
  <2> QED BY <1>1, <2>1, <2>2, <2>3
<1> QED BY <1>1, <1>2, <1>3, <1>4 DEF MaxPosPlus1

\* MaxPos covers what was inserted and not deleted, and what was trimmed; and
\* it is at least m if all of that is.
LEMMA MaxPosCovers ==
    ASSUME NEW E, NEW o \in LogObject(E), NEW m \in Nat,
           o.trim_limit # NoLimit => o.trim_limit >= m,
           (\E p \in Positions : o.entries[p] # NoEntry) => o.maxpos >= m
    PROVE  /\ MaxPosPlus1(o) = 0 \/ MaxPosPlus1(o) > m
           /\ \A p \in Positions :
                \/ o.entries[p] # NoEntry /\ p <= o.maxpos
                \/ p <= o.trim_limit
                => p < MaxPosPlus1(o)
<1>1. o.maxpos \in Int /\ o.trim_limit \in Int /\ Positions \subseteq Int
  <2>1. o.maxpos \in Positions /\ o.trim_limit \in Positions \cup {NoLimit}
    BY DEF LogObject
  <2> QED BY <2>1, LimitsInt, PositionsNat
<1>2. Larger(o.maxpos, o.trim_limit) >= o.maxpos
      /\ Larger(o.maxpos, o.trim_limit) >= o.trim_limit
      /\ Larger(o.maxpos, o.trim_limit) \in Int
  BY <1>1, LargerFacts
<1>3. CASE \A p \in Positions : o.entries[p] = NoEntry
  BY <1>1, <1>3 DEF MaxPosPlus1, NoLimit
<1>4. CASE \E p \in Positions : o.entries[p] # NoEntry
  BY <1>1, <1>2, <1>4 DEF MaxPosPlus1
<1> QED BY <1>3, <1>4

\* A proposal computed from an accepted view is accepted exactly when that view
\* is still the latest, and then extends the history by one.
LEMMA ProposeFacts ==
    ASSUME NEW V, NEW vs \in Seq(V), NEW v \in V, NEW cur \in 1 .. Len(vs)
    PROVE  /\ ProposeRet(vs, cur + 1) \in {"OK", "ESPIPE"}
           /\ ProposeView(vs, cur + 1, v) \in Seq(V)
           /\ cur # Len(vs) => ProposeView(vs, cur + 1, v) = vs
           /\ cur = Len(vs) =>
                /\ Len(ProposeView(vs, cur + 1, v)) = cur + 1
                /\ ProposeView(vs, cur + 1, v)[cur + 1] = v
                /\ \A i \in 1 .. cur : ProposeView(vs, cur + 1, v)[i] = vs[i]
BY DEF ProposeRet, ProposeView

-----------------------------------------------------------------------------
(* Constants *)

\* Positions and the position one past the last are natural numbers.
LEMMA PosOrEndFacts ==
    /\ PosOrEnd \subseteq Nat
    /\ 0 \in PosOrEnd
    /\ \A p \in PosOrEnd : p \in Int
    /\ \A p \in Positions : p \in PosOrEnd /\ p + 1 \in PosOrEnd
BY PositionsNat, PositionsBound DEF PosOrEnd

\* Epochs are an initial segment of the naturals; objects may be one ahead.
LEMMA EpochFacts ==
    /\ MaxEpoch \in Nat /\ MaxEpoch >= 1
    /\ Epochs = 0 .. MaxEpoch
    /\ 0 \in Epochs
    /\ Epochs \subseteq 0 .. MaxEpoch + 1
    /\ 0 .. MaxEpoch + 1 \subseteq Int
BY ZLogAssumption DEF Epochs

\* The next object of a stripe and the previous stripe exist unless at the end.
LEMMA IndexFacts ==
    /\ 0 \in StripeIds /\ 0 \in Indexes /\ 0 \in 0 .. MaxStripes
    /\ StripeIds \subseteq 0 .. MaxStripes
    /\ \A i \in Indexes : i # Width - 1 => i + 1 \in Indexes
    /\ \A s \in StripeIds : s # 0 => s - 1 \in StripeIds
    /\ \A s \in 0 .. MaxStripes : s < MaxStripes => s \in StripeIds
    /\ \A s \in 0 .. MaxStripes : s # 0 => s - 1 \in StripeIds
BY LayoutAssumption DEF StripeIds, Indexes

\* Every thread belongs to a client.
LEMMA ClientOfType == \A t \in Threads : ClientOf(t) \in Clients
BY ZLogAssumption DEF Threads, ClientOf

\* NoPos is no position, and both kinds are integers.
LEMMA NoPosFacts ==
    /\ NoPos \notin Positions
    /\ \A x \in Positions \cup {NoPos} : x \in Int
BY PositionsNat DEF NoPos

\* The states of a client and of a thread that do nothing.
LEMMA RestTypes ==
    /\ NoSeqConfig \in SeqConfig
    /\ NoSequencer \in Sequencer
    /\ NoJob \in Job
    /\ NoOpener \in Opener
    /\ Idle \in Thread
<1>1. NoSeqConfig \in SeqConfig
  BY EpochFacts, PosOrEndFacts DEF NoSeqConfig, SeqConfig
<1>2. NoSequencer \in Sequencer
  BY EpochFacts, PosOrEndFacts DEF NoSequencer, Sequencer
<1>3. NoJob \in Job
  BY EpochFacts, IndexFacts DEF NoJob, Job
<1>4. NoOpener \in Opener
  BY EpochFacts, IndexFacts, PosOrEndFacts, ZLogAssumption DEF NoOpener, Opener
<1>5. 0 \in 0 .. MaxOps /\ 0 \in 0 .. ExpandRetries
  BY MaxOpsAssumption, ZLogAssumption
<1>6. "idle" \in PcValues /\ "OK" \in RetValues
  BY DEF PcValues, RetValues
<1>7. Idle \in Thread
  BY <1>5, <1>6, EpochFacts, IndexFacts, PosOrEndFacts, BackendTypes
  DEF Idle, Thread
<1> QED BY <1>1, <1>2, <1>3, <1>4, <1>7

-----------------------------------------------------------------------------
(* Initial states *)

\* The initial states are typed and hold no epochs.
LEMMA TypeInit == Init => TypeInv
<1> SUFFICES ASSUME Init PROVE TypeInv
  OBVIOUS
<1>1. views \in Seq(View) /\ Len(views) = 1
  <2> DEFINE v == [inst |-> InitialStripes, min_valid |-> 0, seq |-> NoSeqConfig]
  <2>1. InitialStripes \in 0 .. MaxStripes
    BY ZLogAssumption, LayoutAssumption
  <2>2. v \in View
    BY <2>1, RestTypes, PosOrEndFacts DEF View
  <2>3. views = <<v>>
    BY DEF Init
  <2> HIDE DEF v
  <2> QED BY <2>2, <2>3
<1>2. objs \in [Oids -> LogObject(0 .. MaxEpoch + 1)]
  BY AbsentType, EpochFacts DEF Init
<1>3. /\ init_q \in [Clients -> Seq(Positions)]
      /\ nops \in 0 .. MaxOps
      /\ Len(views) \in 1 .. MaxEpoch
  BY <1>1, EpochFacts, MaxOpsAssumption DEF Init
<1>4. TypeOK
  BY <1>1, <1>2, <1>3, RestTypes, EpochFacts, PositionsNat DEF Init, TypeOK
<1>5. ClientsValid
  BY <1>1 DEF Init, ClientsValid, ClientValid, NoOpener
<1>6. ThreadsValid
  BY PositionsNat
  DEF Init, ThreadsValid, ThreadValid, Idle, HoldsView, HoldsCur
<1> QED BY <1>4, <1>5, <1>6 DEF TypeInv

-----------------------------------------------------------------------------
(* What the invariant says of the pieces of state an action uses *)

\* The fields of an accepted view.
LEMMA ViewFacts ==
    ASSUME TypeOK, NEW e \in 1 .. Len(views)
    PROVE  /\ views[e] \in View
           /\ views[e].inst \in 0 .. MaxStripes
           /\ views[e].min_valid \in PosOrEnd
           /\ views[e].seq \in SeqConfig
           /\ views[e].seq.epoch \in Epochs
           /\ views[e].seq.position \in PosOrEnd
           /\ e \in Epochs
<1>1. views[e] \in View /\ e \in Epochs
  BY EpochFacts DEF TypeOK
<1> QED BY <1>1 DEF View, SeqConfig

\* The fields of a thread that the proofs refer to.
LEMMA ThreadFacts ==
    ASSUME TypeOK, NEW t \in Threads
    PROVE  /\ th[t] \in Thread
           /\ th[t].pos \in PosOrEnd /\ th[t].data \in 0 .. MaxOps
           /\ th[t].view \in Epochs /\ th[t].cur \in Epochs
           /\ th[t].retries \in 0 .. ExpandRetries
           /\ th[t].stripe \in 0 .. MaxStripes /\ th[t].idx \in Indexes
<1>1. th[t] \in Thread
  BY DEF TypeOK
<1> QED BY <1>1 DEF Thread

\* Every object has the type of a log object.
LEMMA ObjectType ==
    ASSUME TypeOK, NEW o \in Oids
    PROVE  objs[o] \in LogObject(0 .. MaxEpoch + 1)
BY DEF TypeOK

\* A client that is opening or open has an accepted view cached.
LEMMA CachedView ==
    ASSUME TypeInv, NEW c \in Clients, status[c] \in {"opening", "open"}
    PROVE  cview[c] \in 1 .. Len(views)
<1>1. cview[c] \in Epochs /\ Len(views) \in Nat
  BY EpochFacts DEF TypeInv, TypeOK
<1> QED BY <1>1, EpochFacts DEF TypeInv, ClientsValid, ClientValid

\* A step of a thread that leaves the thread in a legal state and the rest of
\* the state in its type.
LEMMA ThreadStep ==
    ASSUME TypeInv, NEW t \in Threads, NEW r \in Thread, ThreadValid(t, r),
           th' = [th EXCEPT ![t] = r],
           views' \in Seq(View), Len(views') \in Len(views) .. MaxEpoch,
           objs' \in [Oids -> LogObject(0 .. MaxEpoch + 1)],
           seq' \in [Clients -> Sequencer],
           expand_pos' \in [Clients -> Positions \cup {NoPos}],
           init_q' \in [Clients -> Seq(Positions)],
           \A c \in Clients : c # ClientOf(t) =>
               expand_pos'[c] = expand_pos[c] /\ init_q'[c] = init_q[c],
           status[ClientOf(t)] = "open",
           wrote' \in [Positions -> Epochs],
           trimmed_to' \in Positions \cup {NoPos},
           asked' = asked, UnchangedByOp
    PROVE  TypeInv'
<1>1. th' \in [Threads -> Thread]
  BY DEF TypeInv, TypeOK
<1>2. Len(views) \in Nat /\ Len(views') \in 1 .. MaxEpoch
      /\ Len(views) <= Len(views')
  BY EpochFacts DEF TypeInv, TypeOK
<1>3. TypeOK'
  BY <1>1, <1>2 DEF TypeInv, TypeOK, UnchangedByOp
<1>4. ClientsValid'
  <2> SUFFICES ASSUME NEW c \in Clients PROVE ClientValid(c)'
    BY DEF ClientsValid
  <2>1. ClientValid(c) /\ cview[c] \in Nat
    BY EpochFacts DEF TypeInv, TypeOK, ClientsValid
  <2>2. status[c] # "open" => /\ expand_pos'[c] = expand_pos[c]
                              /\ init_q'[c] = init_q[c]
    OBVIOUS
  <2> QED BY <1>2, <2>1, <2>2 DEF ClientValid, UnchangedByOp
<1>5. \A u \in Threads : ThreadValid(u, th[u]) /\ th'[u] = IF u = t THEN r ELSE th[u]
  BY DEF TypeInv, TypeOK, ThreadsValid
<1>6. \A u \in Threads : ThreadValid(u, th[u])'
  <2> SUFFICES ASSUME NEW u \in Threads PROVE ThreadValid(u, th[u])'
    OBVIOUS
  <2>1. ThreadValid(u, th'[u])
    BY <1>5
  <2> QED BY <2>1, <1>2 DEF ThreadValid, UnchangedByOp
<1> QED BY <1>3, <1>4, <1>6 DEF TypeInv, ThreadsValid

\* A thread that is not idle belongs to an open client, which caches a view.
LEMMA ThreadRuns ==
    ASSUME TypeInv, NEW t \in Threads, th[t].pc # "idle"
    PROVE  /\ ClientOf(t) \in Clients
           /\ status[ClientOf(t)] = "open"
           /\ cview[ClientOf(t)] \in 1 .. Len(views)
           /\ ThreadValid(t, th[t])
           /\ TypeOK
<1>1. ThreadValid(t, th[t]) /\ ClientOf(t) \in Clients /\ TypeOK
  BY ClientOfType DEF TypeInv, ThreadsValid
<1>2. status[ClientOf(t)] = "open"
  BY <1>1 DEF ThreadValid
<1> QED BY <1>1, <1>2, CachedView

\* ThreadStep for an action that changes nothing but the thread,
LEMMA ThreadOnlyStep ==
    ASSUME TypeInv, NEW t \in Threads, NEW r \in Thread, ThreadValid(t, r),
           th' = [th EXCEPT ![t] = r], status[ClientOf(t)] = "open",
           UNCHANGED <<views, objs, seq, expand_pos, init_q, history>>,
           UnchangedByOp
    PROVE  TypeInv'
<1>1. Len(views') \in Len(views) .. MaxEpoch
  BY EpochFacts DEF TypeInv, TypeOK
<1> QED BY <1>1, ThreadStep DEF TypeInv, TypeOK, history

\* the thread and one object,
LEMMA ThreadObjStep ==
    ASSUME TypeInv, NEW t \in Threads, NEW r \in Thread, ThreadValid(t, r),
           th' = [th EXCEPT ![t] = r], status[ClientOf(t)] = "open",
           NEW o \in Oids, NEW x \in LogObject(0 .. MaxEpoch + 1),
           objs' = [objs EXCEPT ![o] = x],
           wrote' \in [Positions -> Epochs],
           UNCHANGED <<views, seq, expand_pos, init_q, asked, trimmed_to>>,
           UnchangedByOp
    PROVE  TypeInv'
<1>1. Len(views') \in Len(views) .. MaxEpoch
  BY EpochFacts DEF TypeInv, TypeOK
<1>2. objs' \in [Oids -> LogObject(0 .. MaxEpoch + 1)]
  BY DEF TypeInv, TypeOK
<1> QED BY <1>1, <1>2, ThreadStep DEF TypeInv, TypeOK

\* A proposal keeps the history within its bounds.
LEMMA ProposeGrows ==
    ASSUME TypeOK, NEW cur \in 1 .. Len(views), cur + 1 <= MaxEpoch,
           NEW v \in View, views' = ProposeView(views, cur + 1, v)
    PROVE  views' \in Seq(View) /\ Len(views') \in Len(views) .. MaxEpoch
<1>1. views \in Seq(View) /\ Len(views) \in 1 .. MaxEpoch /\ MaxEpoch \in Nat
  BY EpochFacts DEF TypeOK
<1> QED BY <1>1, ProposeFacts

\* the thread and the history of views.
LEMMA ThreadProposeStep ==
    ASSUME TypeInv, NEW t \in Threads, NEW r \in Thread, ThreadValid(t, r),
           th' = [th EXCEPT ![t] = r], status[ClientOf(t)] = "open",
           NEW cur \in 1 .. Len(views), cur + 1 <= MaxEpoch, NEW v \in View,
           views' = ProposeView(views, cur + 1, v),
           UNCHANGED <<objs, seq, expand_pos, init_q, history>>,
           UnchangedByOp
    PROVE  TypeInv'
<1>1. views' \in Seq(View) /\ Len(views') \in Len(views) .. MaxEpoch
  BY ProposeGrows DEF TypeInv
<1>2. /\ objs' \in [Oids -> LogObject(0 .. MaxEpoch + 1)]
      /\ seq' \in [Clients -> Sequencer]
      /\ expand_pos' \in [Clients -> Positions \cup {NoPos}]
      /\ init_q' \in [Clients -> Seq(Positions)]
      /\ wrote' \in [Positions -> Epochs]
      /\ trimmed_to' \in Positions \cup {NoPos}
      /\ asked' = asked /\ expand_pos' = expand_pos /\ init_q' = init_q
  BY DEF TypeInv, TypeOK, history
<1> QED BY <1>1, <1>2, ThreadStep

-----------------------------------------------------------------------------
(* One lemma for every action of a thread *)

\* CheckTail keeps the type invariant and the epochs threads hold valid.
LEMMA CheckTailType ==
    ASSUME TypeInv, NEW t \in Threads, CheckTail(t) PROVE TypeInv'
<1> DEFINE r == [th[t] EXCEPT !.pc = "done", !.pos = seq[ClientOf(t)].pos]
<1>1. th[t].pc # "idle" /\ th' = [th EXCEPT ![t] = r]
  BY DEF CheckTail
<1>2. seq[ClientOf(t)].pos \in PosOrEnd
  BY <1>1, ThreadRuns DEF TypeOK, Sequencer
<1>3. r \in Thread
  <2>1. th[t] \in Thread
    BY <1>1, ThreadRuns, ThreadFacts
  <2> QED BY <1>2, <2>1 DEF Thread, PcValues
<1>4. ThreadValid(t, r)
  BY <1>1, ThreadRuns, ThreadFacts DEF ThreadValid, HoldsView, HoldsCur, Thread
<1> HIDE DEF r
<1> QED BY <1>1, <1>3, <1>4, ThreadRuns, ThreadOnlyStep DEF CheckTail

\* map sends an operation to its I/O or to an expansion.
LEMMA MapNextFacts ==
    ASSUME NEW e, NEW p
    PROVE  MapNext(e, p) \in {"io", "expand"}
BY DEF MapNext

\* async_expand_view only asks for positions, and only of its own client.
LEMMA AsyncExpandType ==
    ASSUME TypeOK, NEW c \in Clients, NEW e \in 1 .. Len(views), NEW p
    PROVE  /\ AsyncExpand(c, e, p) \in [Clients -> Positions \cup {NoPos}]
           /\ \A d \in Clients : d # c => AsyncExpand(c, e, p)[d] = expand_pos[d]
<1> DEFINE n == MaxPosition(views[e].inst) + 1
           x == Larger(expand_pos[c], n)
<1>1. expand_pos \in [Clients -> Positions \cup {NoPos}]
  BY DEF TypeOK
<1>2. CASE InLastStripe(views[e].inst, p) /\ views[e].inst < MaxStripes
  <2>1. n \in Positions
    BY <1>2, ViewFacts, NextStripePosition
  <2>2. expand_pos[c] \in Int /\ n \in Int
    BY <1>1, <2>1, NoPosFacts
  <2>3. x \in {expand_pos[c], n}
    BY <2>2, LargerFacts
  <2>4. x \in Positions \cup {NoPos}
    BY <1>1, <2>1, <2>3
  <2>5. AsyncExpand(c, e, p) = [expand_pos EXCEPT ![c] = x]
    BY <1>2 DEF AsyncExpand
  <2> HIDE DEF x
  <2> QED BY <1>1, <2>4, <2>5
<1>3. CASE ~(InLastStripe(views[e].inst, p) /\ views[e].inst < MaxStripes)
  BY <1>1, <1>3 DEF AsyncExpand
<1> QED BY <1>2, <1>3

\* SeqGetView keeps the type invariant and the epochs threads hold valid.
LEMMA SeqGetViewType ==
    ASSUME TypeInv, NEW t \in Threads, SeqGetView(t) PROVE TypeInv'
<1> DEFINE c == ClientOf(t)
           e == cview[c]
           r1 == [th[t] EXCEPT !.pc = "done", !.ret = "EIO", !.view = e]
           r2 == [th[t] EXCEPT !.pc = MapNext(e, th[t].pos), !.view = e,
                               !.retries = ExpandRetries]
           r3 == [th[t] EXCEPT !.pc = "tail", !.view = e]
<1>1. th[t].pc = "view" /\ th[t].pc # "idle"
  BY DEF SeqGetView
<1>2. /\ c \in Clients /\ e \in 1 .. Len(views) /\ e \in Epochs
      /\ status[c] = "open" /\ ThreadValid(t, th[t]) /\ th[t] \in Thread
      /\ th[t].pos \in Positions /\ TypeOK
  <2>1. c \in Clients /\ e \in 1 .. Len(views) /\ TypeOK
        /\ status[c] = "open" /\ ThreadValid(t, th[t])
    BY <1>1, ThreadRuns
  <2> QED BY <1>1, <2>1, ThreadFacts, ViewFacts DEF ThreadValid
<1>3. ExpandRetries \in 0 .. ExpandRetries /\ ExpandRetries # 0
  BY ZLogAssumption
<1>4. MapNext(e, th[t].pos) \in {"io", "expand"}
  BY MapNextFacts
<1> HIDE DEF c, e
<1>5. r1 \in Thread /\ r2 \in Thread /\ r3 \in Thread
  BY <1>2, <1>3, <1>4 DEF Thread, PcValues, RetValues
<1>6. ThreadValid(t, r1) /\ ThreadValid(t, r2) /\ ThreadValid(t, r3)
  BY <1>2, <1>3, <1>4 DEF ThreadValid, HoldsView, HoldsCur, Thread, c
<1>7. \/ th' = [th EXCEPT ![t] = r1] /\ UNCHANGED expand_pos
      \/ th' = [th EXCEPT ![t] = r2] /\ expand_pos' = AsyncExpand(c, e, th[t].pos)
      \/ th' = [th EXCEPT ![t] = r3] /\ UNCHANGED expand_pos
  BY DEF SeqGetView, c, e
<1>8. UNCHANGED <<views, objs, seq, init_q, history>> /\ UnchangedByOp
  BY DEF SeqGetView
<1> HIDE DEF r1, r2, r3
<1>9. CASE th' = [th EXCEPT ![t] = r1] /\ UNCHANGED expand_pos
  BY <1>2, <1>5, <1>6, <1>8, <1>9, ThreadOnlyStep DEF c
<1>10. CASE th' = [th EXCEPT ![t] = r3] /\ UNCHANGED expand_pos
  BY <1>2, <1>5, <1>6, <1>8, <1>10, ThreadOnlyStep DEF c
<1>11. CASE th' = [th EXCEPT ![t] = r2] /\ expand_pos' = AsyncExpand(c, e, th[t].pos)
  <2>1. Len(views') \in Len(views) .. MaxEpoch
    BY <1>2, <1>8, EpochFacts DEF TypeOK
  <2>2. /\ expand_pos' \in [Clients -> Positions \cup {NoPos}]
        /\ \A d \in Clients : d # c => expand_pos'[d] = expand_pos[d]
    BY <1>2, <1>11, AsyncExpandType
  <2> QED BY <1>2, <1>5, <1>6, <1>8, <1>11, <2>1, <2>2, ThreadStep
          DEF TypeOK, c, history
<1> QED BY <1>7, <1>9, <1>10, <1>11

\* AppendTail keeps the type invariant and the epochs threads hold valid.
LEMMA AppendTailType ==
    ASSUME TypeInv, NEW t \in Threads, AppendTail(t) PROVE TypeInv'
<1> DEFINE c == ClientOf(t)
           p == seq[c].pos
           r == [th[t] EXCEPT !.pc = MapNext(th[t].view, p), !.pos = p,
                              !.position_epoch = seq[c].epoch,
                              !.retries = ExpandRetries]
<1>1. th[t].pc = "tail" /\ th[t].pc # "idle" /\ th' = [th EXCEPT ![t] = r]
      /\ p \in Positions
  BY DEF AppendTail
<1>2. /\ c \in Clients /\ status[c] = "open" /\ TypeOK /\ ThreadValid(t, th[t])
      /\ th[t] \in Thread /\ seq[c] \in Sequencer
  BY <1>1, ThreadRuns, ThreadFacts DEF TypeOK
<1>3. th[t].view \in 1 .. Len(views) /\ seq[c].epoch \in Epochs
  BY <1>1, <1>2 DEF ThreadValid, HoldsView, Sequencer
<1>4. ExpandRetries \in 0 .. ExpandRetries /\ ExpandRetries # 0
  BY ZLogAssumption
<1>5. MapNext(th[t].view, p) \in {"io", "expand"}
  BY MapNextFacts
<1>6. p \in PosOrEnd /\ p + 1 \in PosOrEnd
  BY <1>1, PosOrEndFacts
<1>7. seq' \in [Clients -> Sequencer]
  <2>1. seq' = [seq EXCEPT ![c].pos = p + 1] /\ seq \in [Clients -> Sequencer]
    BY <1>2 DEF AppendTail, TypeOK
  <2> HIDE DEF p
  <2> QED BY <1>2, <1>6, <2>1 DEF Sequencer
<1> HIDE DEF c, p
<1>8. r \in Thread
  BY <1>2, <1>3, <1>4, <1>5, <1>6 DEF Thread, PcValues
<1>9. ThreadValid(t, r)
  BY <1>1, <1>2, <1>3, <1>4, <1>5 DEF ThreadValid, HoldsView, HoldsCur, Thread, c
<1>10. Len(views') \in Len(views) .. MaxEpoch
  BY <1>2, EpochFacts DEF TypeOK, AppendTail
<1>11. expand_pos' = AsyncExpand(c, th[t].view, p)
  BY DEF AppendTail, c, p
<1>12. /\ expand_pos' \in [Clients -> Positions \cup {NoPos}]
       /\ \A d \in Clients : d # c => expand_pos'[d] = expand_pos[d]
  BY <1>2, <1>3, <1>11, AsyncExpandType
<1> HIDE DEF r
<1> QED BY <1>1, <1>2, <1>7, <1>8, <1>9, <1>10, <1>12, ThreadStep
        DEF TypeOK, c, history, AppendTail

\* PosGetView keeps the type invariant and the epochs threads hold valid.
LEMMA PosGetViewType ==
    ASSUME TypeInv, NEW t \in Threads, PosGetView(t) PROVE TypeInv'
<1> DEFINE c == ClientOf(t)
           e == cview[c]
           r == [th[t] EXCEPT !.pc = MapNext(e, th[t].pos), !.view = e,
                              !.retries = ExpandRetries]
<1>1. th[t].pc = "view" /\ th[t].pc # "idle" /\ th' = [th EXCEPT ![t] = r]
  BY DEF PosGetView
<1>2. /\ c \in Clients /\ e \in 1 .. Len(views) /\ status[c] = "open"
      /\ TypeOK /\ ThreadValid(t, th[t])
  BY <1>1, ThreadRuns
<1>3. th[t] \in Thread /\ e \in Epochs /\ th[t].pos \in Positions
  BY <1>1, <1>2, ThreadFacts, ViewFacts DEF ThreadValid
<1>4. ExpandRetries \in 0 .. ExpandRetries /\ ExpandRetries # 0
  BY ZLogAssumption
<1>5. MapNext(e, th[t].pos) \in {"io", "expand"}
  BY MapNextFacts
<1>6. expand_pos' = AsyncExpand(c, e, th[t].pos)
  BY DEF PosGetView
<1> HIDE DEF c, e
<1>7. r \in Thread
  BY <1>3, <1>4, <1>5 DEF Thread, PcValues
<1>8. ThreadValid(t, r)
  BY <1>2, <1>3, <1>4, <1>5 DEF ThreadValid, HoldsView, HoldsCur, Thread, c
<1>9. Len(views') \in Len(views) .. MaxEpoch
  BY <1>2, EpochFacts DEF TypeOK, PosGetView
<1>10. /\ expand_pos' \in [Clients -> Positions \cup {NoPos}]
       /\ \A d \in Clients : d # c => expand_pos'[d] = expand_pos[d]
  BY <1>2, <1>6, AsyncExpandType
<1> HIDE DEF r
<1> QED BY <1>1, <1>2, <1>7, <1>8, <1>9, <1>10, ThreadStep
        DEF TypeOK, c, history, PosGetView

\* AfterIo leaves a thread that holds a view in a legal state.
LEMMA AfterIoFacts ==
    ASSUME TypeInv, NEW t \in Threads, th[t].pc \in {"io", "trim"},
           th[t].op = "trimTo" => th[t].stripe \in StripeIds,
           NEW ret \in RetValues
    PROVE  AfterIo(th[t], ret) \in Thread /\ ThreadValid(t, AfterIo(th[t], ret))
<1> DEFINE r1 == [th[t] EXCEPT !.pc = "wait", !.cur = th[t].view]
           r2 == [th[t] EXCEPT !.pc = "seal"]
           r3 == [th[t] EXCEPT !.pc = "done", !.ret = ret]
<1>1. /\ status[ClientOf(t)] = "open" /\ th[t] \in Thread
      /\ ThreadValid(t, th[t]) /\ th[t].view \in Epochs
  BY ThreadRuns, ThreadFacts
<1>2. th[t].view \in 1 .. Len(views) /\ th[t].pos \in Positions
  BY <1>1 DEF ThreadValid, HoldsView
<1>3. r1 \in Thread /\ r2 \in Thread /\ r3 \in Thread
  BY <1>1 DEF Thread, PcValues
<1>4. ThreadValid(t, r1) /\ ThreadValid(t, r2) /\ ThreadValid(t, r3)
  BY <1>1, <1>2 DEF ThreadValid, HoldsView, HoldsCur, Thread
<1>5. AfterIo(th[t], ret) \in {r1, r2, r3}
  BY DEF AfterIo
<1> HIDE DEF r1, r2, r3
<1> QED BY <1>3, <1>4, <1>5

\* ReadIo keeps the type invariant and the epochs threads hold valid.
LEMMA ReadIoType ==
    ASSUME TypeInv, NEW t \in Threads, ReadIo(t) PROVE TypeInv'
<1> DEFINE ret == Read(objs[Oid(th[t].pos)], th[t].view, th[t].pos)
           r1 == [th[t] EXCEPT !.pc = "done", !.ret = "ENOENT"]
           r == IF ret = "ERANGE" THEN r1 ELSE AfterIo(th[t], ret)
<1>1. th[t].pc = "io" /\ th[t].op = "read" /\ th' = [th EXCEPT ![t] = r]
  BY DEF ReadIo
<1>2. /\ status[ClientOf(t)] = "open" /\ th[t] \in Thread
      /\ ThreadValid(t, th[t])
  BY <1>1, ThreadRuns, ThreadFacts
<1>3. r1 \in Thread /\ ThreadValid(t, r1)
  <2>1. r1 \in Thread
    BY <1>2 DEF Thread, PcValues, RetValues
  <2>2. ThreadValid(t, r1)
    BY <1>2 DEF Thread, ThreadValid, HoldsView, HoldsCur
  <2> QED BY <2>1, <2>2
<1>4. ret # "ERANGE" => ret \in RetValues
  BY ReadFacts DEF RetValues
<1> HIDE DEF ret, r1
<1>5. r \in Thread /\ ThreadValid(t, r)
  BY <1>1, <1>3, <1>4, AfterIoFacts
<1> HIDE DEF r
<1> QED BY <1>1, <1>2, <1>5, ThreadOnlyStep DEF ReadIo

\* The object of an operation that holds a view.
LEMMA PosObject ==
    ASSUME TypeInv, NEW t \in Threads, th[t].pc \in {"io", "seal"}
    PROVE  /\ th[t].pos \in Positions
           /\ Oid(th[t].pos) \in Oids
           /\ objs[Oid(th[t].pos)] \in LogObject(0 .. MaxEpoch + 1)
           /\ th[t].view \in 1 .. Len(views) /\ th[t].view \in Int
<1>1. ThreadValid(t, th[t]) /\ TypeOK
  BY ThreadRuns
<1>2. th[t].pos \in Positions /\ th[t].view \in 1 .. Len(views)
  BY <1>1 DEF ThreadValid, HoldsView
<1> QED BY <1>1, <1>2, OidType, ObjectType

\* WriteIo keeps the type invariant and the epochs threads hold valid.
LEMMA WriteIoType ==
    ASSUME TypeInv, NEW t \in Threads, WriteIo(t) PROVE TypeInv'
<1> DEFINE me == th[t]
           o == Oid(me.pos)
           res == Write(objs[o], me.view, me.pos, me.data)
           r1 == [me EXCEPT !.pc = "view", !.position_epoch = 0]
           r == IF res.ret = "EROFS" THEN r1 ELSE AfterIo(me, res.ret)
<1>1. /\ me.pc = "io" /\ me.op = "append"
      /\ th' = [th EXCEPT ![t] = r] /\ objs' = [objs EXCEPT ![o] = res.obj]
      /\ wrote' = IF res.ret = "OK"
                  THEN [wrote EXCEPT ![me.pos] = views[me.view].seq.epoch]
                  ELSE wrote
  BY DEF WriteIo
<1>2. /\ status[ClientOf(t)] = "open" /\ me \in Thread /\ TypeOK
      /\ ThreadValid(t, me) /\ me.data \in Entries
  BY <1>1, ThreadRuns, ThreadFacts DEF Entries
<1>3. /\ me.pos \in Positions /\ o \in Oids /\ me.view \in 1 .. Len(views)
      /\ objs[o] \in LogObject(0 .. MaxEpoch + 1) /\ me.view \in Int
  BY <1>1, PosObject
<1>4. r1 \in Thread /\ ThreadValid(t, r1)
  <2>1. r1 \in Thread
    BY <1>2, EpochFacts DEF Thread, PcValues
  <2>2. ThreadValid(t, r1)
    BY <1>2, <1>3 DEF Thread, ThreadValid, HoldsView, HoldsCur
  <2> QED BY <2>1, <2>2
<1>5. /\ res.ret \in {"OK", "ENOENT", "ESPIPE", "EROFS"}
      /\ res.obj \in {objs[o], Insert(objs[o], me.pos, me.data)}
  BY <1>2, <1>3, EpochFacts, WriteFacts
<1>6. res.obj \in LogObject(0 .. MaxEpoch + 1)
  BY <1>2, <1>3, <1>5, InsertFacts
<1>7. res.ret \in RetValues
  BY <1>5 DEF RetValues
<1>8. wrote' \in [Positions -> Epochs]
  BY <1>1, <1>2, <1>3, ViewFacts DEF TypeOK
<1> HIDE DEF res, r1, o
<1>9. r \in Thread /\ ThreadValid(t, r)
  BY <1>1, <1>4, <1>7, AfterIoFacts
<1> HIDE DEF r
<1> QED BY <1>1, <1>2, <1>3, <1>6, <1>8, <1>9, ThreadObjStep DEF WriteIo

\* FillIo keeps the type invariant and the epochs threads hold valid.
LEMMA FillIoType ==
    ASSUME TypeInv, NEW t \in Threads, FillIo(t) PROVE TypeInv'
<1> DEFINE me == th[t]
           o == Oid(me.pos)
           res == Fill(objs[o], me.view, me.pos)
<1>1. /\ me.pc = "io" /\ me.op = "fill"
      /\ th' = [th EXCEPT ![t] = AfterIo(me, res.ret)]
      /\ objs' = [objs EXCEPT ![o] = res.obj]
  BY DEF FillIo
<1>2. status[ClientOf(t)] = "open" /\ TypeOK
  BY <1>1, ThreadRuns
<1>3. /\ me.pos \in Positions /\ o \in Oids /\ me.view \in Int
      /\ objs[o] \in LogObject(0 .. MaxEpoch + 1)
  BY <1>1, PosObject
<1>4. /\ res.ret \in {"OK", "ENOENT", "ESPIPE", "EROFS"}
      /\ res.obj \in {objs[o], Insert(objs[o], me.pos, Junk)}
  BY <1>3, EpochFacts, FillFacts
<1>5. res.obj \in LogObject(0 .. MaxEpoch + 1)
  <2>1. Junk \in Entries
    BY BackendTypes
  <2>2. Insert(objs[o], me.pos, Junk) \in LogObject(0 .. MaxEpoch + 1)
    BY <1>3, <2>1, InsertFacts
  <2> HIDE DEF res, o
  <2> QED BY <1>3, <1>4, <2>2
<1>6. res.ret \in RetValues
  BY <1>4 DEF RetValues
<1> HIDE DEF res, o
<1>7. AfterIo(me, res.ret) \in Thread /\ ThreadValid(t, AfterIo(me, res.ret))
  BY <1>1, <1>6, AfterIoFacts
<1>8. wrote' \in [Positions -> Epochs] /\ UNCHANGED <<asked, trimmed_to>>
  BY <1>2 DEF FillIo, TypeOK, history
<1> QED BY <1>1, <1>2, <1>3, <1>5, <1>7, <1>8, ThreadObjStep DEF FillIo

\* TrimIo keeps the type invariant and the epochs threads hold valid.
LEMMA TrimIoType ==
    ASSUME TypeInv, NEW t \in Threads, TrimIo(t) PROVE TypeInv'
<1> DEFINE me == th[t]
           o == Oid(me.pos)
           res == Trim(objs[o], me.view, me.pos)
<1>1. /\ me.pc = "io" /\ me.op = "trim"
      /\ th' = [th EXCEPT ![t] = AfterIo(me, res.ret)]
      /\ objs' = [objs EXCEPT ![o] = res.obj]
  BY DEF TrimIo
<1>2. status[ClientOf(t)] = "open" /\ TypeOK
  BY <1>1, ThreadRuns
<1>3. /\ me.pos \in Positions /\ o \in Oids /\ me.view \in Int
      /\ objs[o] \in LogObject(0 .. MaxEpoch + 1)
  BY <1>1, PosObject
<1>4. /\ res.ret \in {"OK", "ENOENT", "ESPIPE"}
      /\ res.obj \in {objs[o], Insert(objs[o], me.pos, Junk)}
  BY <1>3, EpochFacts, TrimFacts
<1>5. res.obj \in LogObject(0 .. MaxEpoch + 1)
  <2>1. Junk \in Entries
    BY BackendTypes
  <2>2. Insert(objs[o], me.pos, Junk) \in LogObject(0 .. MaxEpoch + 1)
    BY <1>3, <2>1, InsertFacts
  <2> HIDE DEF res, o
  <2> QED BY <1>3, <1>4, <2>2
<1>6. res.ret \in RetValues
  BY <1>4 DEF RetValues
<1> HIDE DEF res, o
<1>7. AfterIo(me, res.ret) \in Thread /\ ThreadValid(t, AfterIo(me, res.ret))
  BY <1>1, <1>6, AfterIoFacts
<1>8. wrote' \in [Positions -> Epochs] /\ UNCHANGED <<asked, trimmed_to>>
  BY <1>2 DEF TrimIo, TypeOK, history
<1> QED BY <1>1, <1>2, <1>3, <1>5, <1>7, <1>8, ThreadObjStep DEF TrimIo

\* The object a thread at "seal" works on.
LEMMA TargetType ==
    ASSUME TypeInv, NEW t \in Threads, th[t].pc = "seal"
    PROVE  Target(th[t]) \in Oids
<1>1. Oid(th[t].pos) \in Oids
  BY PosObject
<1>2. th[t].op = "trimTo" => th[t].stripe \in StripeIds /\ th[t].idx \in Indexes
  BY ThreadRuns, ThreadFacts DEF ThreadValid
<1> QED BY <1>1, <1>2 DEF Target, Oids

\* SealObject keeps the type invariant and the epochs threads hold valid.
LEMMA SealObjectType ==
    ASSUME TypeInv, NEW t \in Threads, SealObject(t) PROVE TypeInv'
<1> DEFINE me == th[t]
           o == Target(me)
           res == Seal(objs[o], me.view)
           next == IF me.op = "append" /\ res.ret = "OK" THEN "io" ELSE "view"
           r == [me EXCEPT !.pc = next]
<1>1. /\ me.pc = "seal" /\ th' = [th EXCEPT ![t] = r]
      /\ objs' = [objs EXCEPT ![o] = res.obj]
  BY DEF SealObject, Goto
<1>2. /\ status[ClientOf(t)] = "open" /\ me \in Thread /\ TypeOK
      /\ ThreadValid(t, me)
  BY <1>1, ThreadRuns, ThreadFacts
<1>3. me.view \in 0 .. MaxEpoch + 1
  BY <1>2, ThreadFacts, EpochFacts
<1>4. o \in Oids /\ res.obj \in LogObject(0 .. MaxEpoch + 1)
  BY <1>1, <1>2, <1>3, TargetType, ObjectType, SealFacts, EpochFacts
<1>5. next \in {"io", "view"}
  OBVIOUS
<1> HIDE DEF next, res, o
<1>6. r \in Thread /\ ThreadValid(t, r)
  BY <1>1, <1>2, <1>5 DEF Thread, PcValues, ThreadValid, HoldsView, HoldsCur
<1>7. wrote' \in [Positions -> Epochs] /\ UNCHANGED <<asked, trimmed_to>>
  BY <1>2 DEF SealObject, TypeOK, history
<1> HIDE DEF r
<1> QED BY <1>1, <1>2, <1>4, <1>6, <1>7, ThreadObjStep DEF SealObject

\* WaitDone keeps the type invariant and the epochs threads hold valid.
LEMMA WaitDoneType ==
    ASSUME TypeInv, NEW t \in Threads, WaitDone(t) PROVE TypeInv'
<1> DEFINE r == [th[t] EXCEPT !.pc = "view", !.cur = 0]
<1>1. th[t].pc = "wait" /\ th' = [th EXCEPT ![t] = r]
  BY DEF WaitDone
<1>2. /\ status[ClientOf(t)] = "open" /\ th[t] \in Thread
      /\ ThreadValid(t, th[t])
  BY <1>1, ThreadRuns, ThreadFacts
<1>3. r \in Thread /\ ThreadValid(t, r)
  <2>1. r \in Thread
    BY <1>2, EpochFacts DEF Thread, PcValues
  <2>2. ThreadValid(t, r)
    BY <1>1, <1>2 DEF Thread, ThreadValid, HoldsView, HoldsCur
  <2> QED BY <2>1, <2>2
<1> HIDE DEF r
<1> QED BY <1>1, <1>2, <1>3, ThreadOnlyStep DEF WaitDone

\* TrimToGetView keeps the type invariant and the epochs threads hold valid.
LEMMA TrimToGetViewType ==
    ASSUME TypeInv, NEW t \in Threads, TrimToGetView(t) PROVE TypeInv'
<1> DEFINE me == th[t]
           e == cview[ClientOf(t)]
           next == IF me.pos >= views[e].min_valid THEN "advance"
                   ELSE IF Mapped(views[e].inst, me.pos) THEN "trim"
                   ELSE "expand"
           r == [me EXCEPT !.pc = next, !.view = e, !.stripe = 0, !.idx = 0,
                           !.retries = ExpandRetries]
<1>1. me.pc = "view" /\ me.op = "trimTo" /\ th' = [th EXCEPT ![t] = r]
  BY DEF TrimToGetView
<1>2. /\ status[ClientOf(t)] = "open" /\ me \in Thread /\ ThreadValid(t, me)
      /\ e \in 1 .. Len(views) /\ e \in Epochs
  BY <1>1, ThreadRuns, ThreadFacts, ViewFacts
<1>3. next \in {"advance", "trim", "expand"}
  OBVIOUS
<1>4. ExpandRetries \in 0 .. ExpandRetries /\ ExpandRetries # 0
  BY ZLogAssumption
<1> HIDE DEF next, e
<1>5. r \in Thread
  BY <1>2, <1>3, <1>4, IndexFacts DEF Thread, PcValues
<1>6. ThreadValid(t, r)
  BY <1>1, <1>2, <1>3, <1>4 DEF Thread, ThreadValid, HoldsView, HoldsCur
<1> HIDE DEF r
<1> QED BY <1>1, <1>2, <1>5, <1>6, ThreadOnlyStep DEF TrimToGetView

\* AdvanceRead keeps the type invariant and the epochs threads hold valid.
LEMMA AdvanceReadType ==
    ASSUME TypeInv, NEW t \in Threads, AdvanceRead(t) PROVE TypeInv'
<1> DEFINE me == th[t]
           e == cview[ClientOf(t)]
           next == IF me.pos + 1 <= views[e].min_valid THEN "view"
                   ELSE "apropose"
           r == [me EXCEPT !.pc = next, !.cur = e]
<1>1. me.pc = "advance" /\ th' = [th EXCEPT ![t] = r]
  BY DEF AdvanceRead
<1>2. /\ status[ClientOf(t)] = "open" /\ me \in Thread /\ ThreadValid(t, me)
      /\ e \in 1 .. Len(views) /\ e \in Epochs
  BY <1>1, ThreadRuns, ThreadFacts, ViewFacts
<1>3. next \in {"view", "apropose"}
  OBVIOUS
<1> HIDE DEF next, e
<1>4. r \in Thread /\ ThreadValid(t, r)
  BY <1>1, <1>2, <1>3
  DEF Thread, PcValues, ThreadValid, HoldsView, HoldsCur
<1> HIDE DEF r
<1> QED BY <1>1, <1>2, <1>4, ThreadOnlyStep DEF AdvanceRead

\* AdvancePropose keeps the type invariant and the epochs threads hold valid.
LEMMA AdvanceProposeType ==
    ASSUME TypeInv, NEW t \in Threads, AdvancePropose(t) PROVE TypeInv'
<1> DEFINE me == th[t]
           v == [views[me.cur] EXCEPT !.min_valid = me.pos + 1]
           r == [me EXCEPT !.pc = "wait"]
<1>1. /\ me.pc = "apropose" /\ th' = [th EXCEPT ![t] = r]
      /\ me.cur + 1 <= MaxEpoch /\ views' = ProposeView(views, me.cur + 1, v)
  BY DEF AdvancePropose, Goto
<1>2. /\ status[ClientOf(t)] = "open" /\ me \in Thread /\ ThreadValid(t, me)
      /\ TypeOK
  BY <1>1, ThreadRuns, ThreadFacts
<1>3. me.cur \in 1 .. Len(views) /\ me.pos + 1 \in PosOrEnd
  BY <1>1, <1>2, PosOrEndFacts DEF ThreadValid, HoldsCur
<1>4. v \in View
  BY <1>2, <1>3, ViewFacts DEF View
<1>5. r \in Thread /\ ThreadValid(t, r)
  BY <1>1, <1>2, <1>3
  DEF Thread, PcValues, ThreadValid, HoldsView, HoldsCur
<1> HIDE DEF r, v
<1> QED BY <1>1, <1>2, <1>3, <1>4, <1>5, ThreadProposeStep DEF AdvancePropose

\* The object trimTo works on next.
LEMMA TrimTarget ==
    ASSUME TypeInv, NEW t \in Threads, th[t].pc = "trim", MoreToTrim(th[t])
    PROVE  th[t].stripe \in StripeIds /\ <<th[t].stripe, th[t].idx>> \in Oids
<1>1. th[t].view \in 1 .. Len(views) /\ TypeOK
  BY ThreadRuns DEF ThreadValid, HoldsView
<1>2. views[th[t].view].inst \in 0 .. MaxStripes
  BY <1>1, ViewFacts
<1>3. th[t].stripe \in 0 .. MaxStripes /\ th[t].idx \in Indexes
  BY <1>1, ThreadFacts
<1>4. th[t].stripe < MaxStripes
  BY <1>2, <1>3, LayoutAssumption DEF MoreToTrim
<1>5. th[t].stripe \in StripeIds
  BY <1>3, <1>4, IndexFacts
<1> QED BY <1>3, <1>5 DEF Oids

\* TrimToIo keeps the type invariant and the epochs threads hold valid.
LEMMA TrimToIoType ==
    ASSUME TypeInv, NEW t \in Threads, TrimToIo(t) PROVE TypeInv'
<1> DEFINE me == th[t]
           o == <<me.stripe, me.idx>>
           full == FullyTrimmed(me.stripe, me.idx, me.pos)
           res == TrimLimit(objs[o], me.view, me.pos, full)
           last == me.idx = Width - 1
           r1 == [me EXCEPT !.idx = IF last THEN 0 ELSE me.idx + 1,
                            !.stripe = IF last THEN me.stripe + 1 ELSE me.stripe]
           r == IF res.ret = "OK" THEN r1 ELSE AfterIo(me, res.ret)
<1>0. th[t].pc = "trim" /\ th[t].op = "trimTo"
  BY ThreadRuns DEF TrimToIo, ThreadValid
<1>1. /\ me.pc = "trim" /\ th' = [th EXCEPT ![t] = r] /\ MoreToTrim(me)
      /\ objs' = [objs EXCEPT ![o] = res.obj]
  BY <1>0 DEF TrimToIo, Target
<1>2. /\ status[ClientOf(t)] = "open" /\ me \in Thread /\ ThreadValid(t, me)
      /\ TypeOK /\ me.idx \in Indexes
  BY <1>1, ThreadRuns, ThreadFacts
<1>3. o \in Oids /\ me.stripe \in StripeIds
  BY <1>1, TrimTarget
<1>4. me.pos \in Positions /\ me.view \in Int
  BY <1>1, <1>2, ThreadFacts, EpochFacts DEF ThreadValid
<1>5. full \in BOOLEAN
  BY DEF FullyTrimmed
<1>6. /\ res.ret \in {"OK", "ENOENT", "ESPIPE"}
      /\ res.obj \in LogObject(0 .. MaxEpoch + 1)
  <2> HIDE DEF full, o
  <2> QED BY <1>2, <1>3, <1>4, <1>5, ObjectType, TrimLimitFacts, EpochFacts
<1>7. r1 \in Thread /\ ThreadValid(t, r1)
  <2>1. /\ (IF last THEN 0 ELSE me.idx + 1) \in Indexes
        /\ (IF last THEN me.stripe + 1 ELSE me.stripe) \in 0 .. MaxStripes
    BY <1>2, <1>3, IndexFacts, LayoutAssumption DEF StripeIds
  <2> QED BY <1>1, <1>2, <2>1 DEF Thread, ThreadValid, HoldsView, HoldsCur
<1>8. res.ret \in RetValues
  BY <1>6 DEF RetValues
<1> HIDE DEF res, o, r1, full
<1>9. r \in Thread /\ ThreadValid(t, r)
  BY <1>1, <1>3, <1>7, <1>8, AfterIoFacts
<1>10. wrote' \in [Positions -> Epochs] /\ UNCHANGED <<asked, trimmed_to>>
  BY <1>2 DEF TrimToIo, TypeOK, history
<1> HIDE DEF r
<1> QED BY <1>1, <1>2, <1>3, <1>6, <1>9, <1>10, ThreadObjStep DEF TrimToIo

\* TrimToDone keeps the type invariant and the epochs threads hold valid.
LEMMA TrimToDoneType ==
    ASSUME TypeInv, NEW t \in Threads, TrimToDone(t) PROVE TypeInv'
<1> DEFINE r == [th[t] EXCEPT !.pc = "done"]
<1>1. /\ th[t].pc = "trim" /\ th' = [th EXCEPT ![t] = r]
      /\ trimmed_to' = Larger(trimmed_to, th[t].pos)
  BY DEF TrimToDone, Goto
<1>2. /\ status[ClientOf(t)] = "open" /\ th[t] \in Thread
      /\ ThreadValid(t, th[t]) /\ TypeOK
  BY <1>1, ThreadRuns, ThreadFacts
<1>3. th[t].pos \in Positions /\ trimmed_to \in Positions \cup {NoPos}
  BY <1>1, <1>2 DEF ThreadValid, TypeOK
<1>4. th[t].pos \in Int /\ trimmed_to \in Int
  BY <1>3, NoPosFacts
<1>5. trimmed_to' \in Positions \cup {NoPos}
  BY <1>1, <1>3, <1>4, LargerFacts
<1>6. r \in Thread /\ ThreadValid(t, r)
  BY <1>1, <1>2 DEF Thread, PcValues, ThreadValid, HoldsView, HoldsCur
<1>7. Len(views') \in Len(views) .. MaxEpoch
  BY <1>2, EpochFacts DEF TypeOK, TrimToDone
<1> HIDE DEF r
<1> QED BY <1>1, <1>2, <1>5, <1>6, <1>7, ThreadStep DEF TrimToDone, TypeOK

\* An idle thread holds no epoch.
LEMMA IdleValid == \A t \in Threads : ThreadValid(t, Idle)
BY PositionsNat DEF Idle, ThreadValid, HoldsView, HoldsCur

\* Callback keeps the type invariant and the epochs threads hold valid.
LEMMA CallbackType ==
    ASSUME TypeInv, NEW t \in Threads, Callback(t) PROVE TypeInv'
<1>1. th[t].pc = "done" /\ th' = [th EXCEPT ![t] = Idle]
  BY DEF Callback
<1>2. status[ClientOf(t)] = "open"
  BY <1>1, ThreadRuns
<1> QED BY <1>1, <1>2, RestTypes, IdleValid, ThreadOnlyStep DEF Callback

\* A thread back from try_expand_view is typed and holds no epoch.
LEMMA AfterExpandFacts ==
    ASSUME TypeInv, NEW t \in Threads, th[t].pc \in {"expand", "ewait"}
    PROVE  AfterExpand(t) \in Thread /\ ThreadValid(t, AfterExpand(t))
<1> DEFINE r == [th[t] EXCEPT !.pc = "view", !.cur = 0, !.retries = 0,
                              !.ret = "OK"]
<1>1. /\ status[ClientOf(t)] = "open" /\ th[t] \in Thread
      /\ ThreadValid(t, th[t])
  BY ThreadRuns, ThreadFacts
<1>2. 0 \in 0 .. ExpandRetries
  BY ZLogAssumption
<1>3. r \in Thread
  BY <1>1, <1>2, EpochFacts DEF Thread, PcValues, RetValues
<1>4. ThreadValid(t, r)
  BY <1>1 DEF Thread, ThreadValid, HoldsView, HoldsCur
<1>5. AfterExpand(t) \in {Idle, r}
  BY DEF AfterExpand
<1> HIDE DEF r
<1> QED BY <1>3, <1>4, <1>5, RestTypes, IdleValid

\* ExpandRead keeps the type invariant and the epochs threads hold valid.
LEMMA ExpandReadType ==
    ASSUME TypeInv, NEW t \in Threads, ExpandRead(t) PROVE TypeInv'
<1> DEFINE e == cview[ClientOf(t)]
           r1 == [th[t] EXCEPT !.pc = "propose", !.cur = e]
           r == IF Mapped(views[e].inst, th[t].pos) THEN AfterExpand(t) ELSE r1
<1>1. th[t].pc = "expand" /\ th' = [th EXCEPT ![t] = r]
  BY DEF ExpandRead
<1>2. /\ status[ClientOf(t)] = "open" /\ th[t] \in Thread
      /\ ThreadValid(t, th[t]) /\ e \in 1 .. Len(views) /\ e \in Epochs
  BY <1>1, ThreadRuns, ThreadFacts, ViewFacts
<1> HIDE DEF e
<1>3. r1 \in Thread /\ ThreadValid(t, r1)
  BY <1>1, <1>2 DEF Thread, PcValues, ThreadValid, HoldsView, HoldsCur
<1> HIDE DEF r1
<1>4. r \in Thread /\ ThreadValid(t, r)
  BY <1>1, <1>3, AfterExpandFacts
<1> HIDE DEF r
<1> QED BY <1>1, <1>2, <1>4, ThreadOnlyStep DEF ExpandRead

\* ExpandPropose keeps the type invariant and the epochs threads hold valid.
LEMMA ExpandProposeType ==
    ASSUME TypeInv, NEW t \in Threads, ExpandPropose(t) PROVE TypeInv'
<1> DEFINE me == th[t]
           n == ExpandMapping(views[me.cur].inst, me.pos)
           v == [views[me.cur] EXCEPT !.inst = n]
           r == [me EXCEPT !.pc = "ewait", !.ret = ProposeRet(views, me.cur + 1)]
<1>1. /\ me.pc = "propose" /\ th' = [th EXCEPT ![t] = r]
      /\ me.cur + 1 <= MaxEpoch /\ views' = ProposeView(views, me.cur + 1, v)
  BY DEF ExpandPropose
<1>2. /\ status[ClientOf(t)] = "open" /\ me \in Thread /\ ThreadValid(t, me)
      /\ TypeOK /\ views \in Seq(View)
  BY <1>1, ThreadRuns, ThreadFacts DEF TypeOK
<1>3. me.cur \in 1 .. Len(views) /\ me.pos \in Positions
  BY <1>1, <1>2 DEF ThreadValid, HoldsCur
<1>4. v \in View
  <2>1. n \in 0 .. MaxStripes
    BY <1>2, <1>3, ViewFacts, ExpandMappingMaps
  <2> HIDE DEF n
  <2> QED BY <1>2, <1>3, <2>1, ViewFacts DEF View
<1> HIDE DEF v
<1>5. ProposeRet(views, me.cur + 1) \in {"OK", "ESPIPE"}
  BY <1>2, <1>3, <1>4, ProposeFacts
<1>6. r \in Thread /\ ThreadValid(t, r)
  BY <1>1, <1>2, <1>3, <1>5
  DEF Thread, PcValues, RetValues, ThreadValid, HoldsView, HoldsCur
<1> HIDE DEF r
<1> QED BY <1>1, <1>2, <1>3, <1>4, <1>6, ThreadProposeStep DEF ExpandPropose

\* ExpandWaited keeps the type invariant and the epochs threads hold valid.
LEMMA ExpandWaitedType ==
    ASSUME TypeInv, NEW t \in Threads, ExpandWaited(t) PROVE TypeInv'
<1> DEFINE c == ClientOf(t)
           won == th[t].ret = "OK"
           r1 == [th[t] EXCEPT !.pc = "expand", !.retries = th[t].retries - 1]
           r == IF won \/ th[t].retries = 1 THEN AfterExpand(t) ELSE r1
           q == Append(init_q[c], th[t].pos)
<1>1. /\ th[t].pc = "ewait" /\ th' = [th EXCEPT ![t] = r]
      /\ init_q' \in {[init_q EXCEPT ![c] = q], init_q}
  <2>1. th[t].pc = "ewait" /\ th' = [th EXCEPT ![t] = r]
    BY DEF ExpandWaited
  <2>2. init_q' \in {[init_q EXCEPT ![c] = q], init_q}
    BY DEF ExpandWaited
  <2> QED BY <2>1, <2>2
<1>2. /\ c \in Clients /\ status[c] = "open" /\ th[t] \in Thread
      /\ ThreadValid(t, th[t]) /\ TypeOK
  BY <1>1, ThreadRuns, ThreadFacts
<1>3. th[t].pos \in Positions /\ th[t].retries \in 1 .. ExpandRetries
  BY <1>1, <1>2, ThreadFacts, ZLogAssumption DEF ThreadValid
<1>4. th[t].retries # 1 => r1 \in Thread /\ ThreadValid(t, r1)
  <2>1. th[t].retries # 1 => /\ th[t].retries - 1 \in 0 .. ExpandRetries
                             /\ th[t].retries - 1 # 0
    BY <1>3, ZLogAssumption
  <2> QED BY <1>1, <1>2, <2>1
          DEF Thread, PcValues, ThreadValid, HoldsView, HoldsCur
<1> HIDE DEF r1
<1>5. r \in Thread /\ ThreadValid(t, r)
  BY <1>1, <1>4, AfterExpandFacts
<1>6. init_q[c] \in Seq(Positions) /\ init_q \in [Clients -> Seq(Positions)]
  BY <1>2 DEF TypeOK
<1>7. q \in Seq(Positions)
  BY <1>3, <1>6, AppendProperties
<1> HIDE DEF q
<1>8. /\ init_q' \in [Clients -> Seq(Positions)]
      /\ \A d \in Clients : d # c => init_q'[d] = init_q[d]
  BY <1>1, <1>6, <1>7
<1>9. Len(views') \in Len(views) .. MaxEpoch
  BY <1>2, EpochFacts DEF TypeOK, ExpandWaited
<1> HIDE DEF r
<1> QED BY <1>1, <1>2, <1>5, <1>8, <1>9, ThreadStep
        DEF TypeOK, ExpandWaited, history

\* ExpanderWake keeps the type invariant and the epochs threads hold valid.
LEMMA ExpanderWakeType ==
    ASSUME TypeInv, NEW t \in Threads, ExpanderWake(t) PROVE TypeInv'
<1> DEFINE c == ClientOf(t)
           r == [Idle EXCEPT !.pc = "xview", !.pos = expand_pos[c]]
<1>1. th' = [th EXCEPT ![t] = r] /\ expand_pos[c] # NoPos
  BY DEF ExpanderWake
<1>2. c \in Clients /\ ClientValid(c) /\ TypeOK
  BY ClientOfType DEF TypeInv, ClientsValid
<1>3. status[c] = "open" /\ expand_pos[c] \in Positions
  BY <1>1, <1>2 DEF ClientValid, TypeOK
<1>4. expand_pos[c] \in PosOrEnd
  BY <1>3, PosOrEndFacts
<1>5. r \in Thread
  BY <1>4, RestTypes DEF Thread, PcValues
<1>6. ThreadValid(t, r)
  BY <1>3 DEF Idle, ThreadValid, HoldsView, HoldsCur
<1> HIDE DEF r
<1> QED BY <1>1, <1>3, <1>5, <1>6, ThreadOnlyStep DEF ExpanderWake

\* ExpanderMap keeps the type invariant and the epochs threads hold valid.
LEMMA ExpanderMapType ==
    ASSUME TypeInv, NEW t \in Threads, ExpanderMap(t) PROVE TypeInv'
<1> DEFINE next == IF Mapped(views[cview[ClientOf(t)]].inst, th[t].pos)
                   THEN "xclear" ELSE "expand"
           r == [th[t] EXCEPT !.pc = next, !.retries = ExpandRetries]
<1>1. th[t].pc = "xview" /\ th' = [th EXCEPT ![t] = r]
  BY DEF ExpanderMap
<1>2. /\ status[ClientOf(t)] = "open" /\ th[t] \in Thread
      /\ ThreadValid(t, th[t])
  BY <1>1, ThreadRuns, ThreadFacts
<1>3. next \in {"xclear", "expand"}
  OBVIOUS
<1>4. ExpandRetries \in 0 .. ExpandRetries /\ ExpandRetries # 0
  BY ZLogAssumption
<1> HIDE DEF next
<1>5. r \in Thread /\ ThreadValid(t, r)
  BY <1>1, <1>2, <1>3, <1>4
  DEF Thread, PcValues, ThreadValid, HoldsView, HoldsCur
<1> HIDE DEF r
<1> QED BY <1>1, <1>2, <1>5, ThreadOnlyStep DEF ExpanderMap

\* ExpanderClear keeps the type invariant and the epochs threads hold valid.
LEMMA ExpanderClearType ==
    ASSUME TypeInv, NEW t \in Threads, ExpanderClear(t) PROVE TypeInv'
<1> DEFINE c == ClientOf(t)
           x == IF expand_pos[c] > th[t].pos THEN expand_pos[c] ELSE NoPos
<1>1. /\ th[t].pc = "xclear" /\ th' = [th EXCEPT ![t] = Idle]
      /\ expand_pos' = [expand_pos EXCEPT ![c] = x]
  BY DEF ExpanderClear
<1>2. c \in Clients /\ status[c] = "open" /\ TypeOK
  BY <1>1, ThreadRuns
<1>3. expand_pos \in [Clients -> Positions \cup {NoPos}]
  BY <1>2 DEF TypeOK
<1>4. x \in Positions \cup {NoPos}
  BY <1>2, <1>3
<1> HIDE DEF x
<1>5. /\ expand_pos' \in [Clients -> Positions \cup {NoPos}]
      /\ \A d \in Clients : d # c => expand_pos'[d] = expand_pos[d]
  BY <1>1, <1>3, <1>4
<1>6. Len(views') \in Len(views) .. MaxEpoch
  BY <1>2, EpochFacts DEF TypeOK, ExpanderClear
<1> QED BY <1>1, <1>2, <1>5, <1>6, RestTypes, IdleValid, ThreadStep
        DEF TypeOK, ExpanderClear, history

-----------------------------------------------------------------------------
(* Starting an operation *)

\* The tail of the log exists: the least bound of the written positions.
LEMMA LogTailFacts ==
    ASSUME TypeOK
    PROVE  /\ LogTail \in PosOrEnd
           /\ \A p \in Positions : wrote[p] # 0 => p < LogTail
           /\ LogTail = 0 \/ wrote[LogTail - 1] # 0
<1> DEFINE B == {n \in Nat : \A p \in Positions : wrote[p] # 0 => p < n}
           end == MaxStripes * StripeSize
<1>1. end \in B /\ end \in Nat
  BY PositionsBound, PositionsNat
<1>2. PICK m \in B : \A y \in B : ~ (<<y, m>> \in OpToRel(<, Nat))
  <2>1. B \subseteq Nat /\ B # {}
    BY <1>1
  <2> HIDE DEF B
  <2> QED BY <2>1, NatLessThanWellFounded, WFMin
<1>3. \A y \in B : m <= y
  <2> SUFFICES ASSUME NEW y \in B, y < m PROVE FALSE
    OBVIOUS
  <2>1. y \in Nat /\ m \in Nat
    OBVIOUS
  <2>2. <<y, m>> \in OpToRel(<, Nat)
    BY <2>1 DEF OpToRel
  <2> QED BY <1>2, <2>2
<1>4. m \in Nat /\ \A p \in Positions : wrote[p] # 0 => p < m
  BY <1>2
<1>5. m \in PosOrEnd
  BY <1>1, <1>3, <1>4 DEF PosOrEnd
<1>6. m = 0 \/ wrote[m - 1] # 0
  <2> SUFFICES ASSUME m # 0, wrote[m - 1] = 0 PROVE FALSE
    OBVIOUS
  <2>1. m - 1 \in Nat /\ ~(m <= m - 1)
    BY <1>4
  <2>2. \A p \in Positions : wrote[p] # 0 => p < m - 1
    BY <1>4, PositionsNat
  <2>3. m - 1 \in B
    BY <2>1, <2>2
  <2> HIDE DEF B
  <2> QED BY <1>3, <2>1, <2>3
<1>7. \E n \in PosOrEnd : /\ \A p \in Positions : wrote[p] # 0 => p < n
                          /\ n = 0 \/ wrote[n - 1] # 0
  BY <1>4, <1>5, <1>6
<1> QED BY <1>7 DEF LogTail

\* What a reader is told of a position is an entry.
LEMMA LogEntryType ==
    ASSUME TypeOK, NEW p \in Positions PROVE LogEntry(p) \in Entries
<1>1. objs[Oid(p)] \in LogObject(0 .. MaxEpoch + 1)
  BY OidType, ObjectType
<1>2. objs[Oid(p)].entries[p] \in Entries
  BY <1>1 DEF LogObject
<1> QED BY <1>2, BackendTypes DEF LogEntry

\* Starting an operation keeps the invariant.
LEMMA StartOpType ==
    ASSUME TypeInv, NEW t \in Finishers, NEW op \in OpKinds,
           NEW p \in Positions, StartOp(t, op, p)
    PROVE  TypeInv'
<1> DEFINE r == [Idle EXCEPT !.pc = "view", !.op = op, !.pos = p,
                             !.data = nops + 1, !.floor = LogTail,
                             !.seen = LogEntry(p)]
<1>1. /\ th' = [th EXCEPT ![t] = r] /\ nops' = nops + 1 /\ nops < MaxOps
      /\ status[ClientOf(t)] = "open"
  BY DEF StartOp
<1>2. t \in Threads /\ TypeOK /\ ClientsValid /\ ThreadsValid
  BY DEF Threads, TypeInv
<1>3. nops + 1 \in 0 .. MaxOps
  BY <1>1, <1>2, MaxOpsAssumption DEF TypeOK
<1>4. LogTail \in PosOrEnd /\ LogEntry(p) \in Entries /\ p \in PosOrEnd
  BY <1>2, LogTailFacts, LogEntryType, PosOrEndFacts
<1>5. r \in Thread
  BY <1>3, <1>4, RestTypes DEF Thread, PcValues
<1>6. ThreadValid(t, r)
  BY <1>1 DEF Idle, ThreadValid, HoldsView, HoldsCur
<1> HIDE DEF r
<1>7. asked' \subseteq Positions
  <2>1. asked \subseteq Positions
    BY <1>2 DEF TypeOK
  <2>2. 0 .. p \subseteq Positions
    BY PositionsNat, PositionsBound
  <2>3. asked' \in {asked, asked \cup {p}, asked \cup 0 .. p}
    BY DEF StartOp
  <2> QED BY <2>1, <2>2, <2>3
<1>8. th' \in [Threads -> Thread]
  BY <1>1, <1>2, <1>5 DEF TypeOK
<1>9. UNCHANGED <<views, objs, status, cview, seq, expand_pos, init_q,
                  init_job, opener, wrote, trimmed_to>>
  BY DEF StartOp
<1>10. TypeOK'
  BY <1>1, <1>2, <1>3, <1>7, <1>8, <1>9 DEF TypeOK
<1>11. ClientsValid'
  BY <1>2, <1>9 DEF ClientsValid, ClientValid
<1>12. \A u \in Threads : ThreadValid(u, th'[u])
  BY <1>1, <1>2, <1>6 DEF TypeOK, ThreadsValid
<1>13. ThreadsValid'
  BY <1>9, <1>12 DEF ThreadsValid, ThreadValid
<1> QED BY <1>10, <1>11, <1>13 DEF TypeInv

-----------------------------------------------------------------------------
(* One lemma for every action of a client *)

\* A step of a client that keeps its threads and the other clients.
LEMMA ClientStepType ==
    ASSUME TypeInv, NEW c \in Clients, TypeOK', Len(views) <= Len(views'),
           th' = th, ClientValid(c)', status[c] = "open" => status'[c] = "open",
           \A d \in Clients : d # c =>
               /\ status'[d] = status[d] /\ cview'[d] = cview[d]
               /\ opener'[d] = opener[d] /\ expand_pos'[d] = expand_pos[d]
               /\ init_q'[d] = init_q[d]
    PROVE  TypeInv'
<1>1. Len(views) \in Nat /\ Len(views') \in Nat
  BY DEF TypeInv, TypeOK
<1>2. ClientsValid'
  <2> SUFFICES ASSUME NEW d \in Clients, d # c PROVE ClientValid(d)'
    BY DEF ClientsValid
  <2>1. ClientValid(d) /\ cview[d] \in Nat
    BY EpochFacts DEF TypeInv, TypeOK, ClientsValid
  <2> QED BY <1>1, <2>1 DEF ClientValid
<1>3. ThreadsValid'
  <2> SUFFICES ASSUME NEW t \in Threads PROVE ThreadValid(t, th[t])'
    BY DEF ThreadsValid
  <2>1. ThreadValid(t, th[t]) /\ ClientOf(t) \in Clients
    BY ClientOfType DEF TypeInv, ThreadsValid
  <2>2. status[ClientOf(t)] = "open" => status'[ClientOf(t)] = "open"
    BY <2>1
  <2> QED BY <1>1, <2>1, <2>2 DEF ThreadValid
<1> QED BY <1>2, <1>3 DEF TypeInv

\* refresh_view leaves a typed sequencer.
LEMMA RefreshedSeqType ==
    ASSUME TypeOK, NEW c \in Clients, NEW old, NEW new \in 1 .. Len(views)
    PROVE  RefreshedSeq(c, old, new) \in Sequencer
<1>1. seq[c] \in Sequencer
  BY DEF TypeOK
<1>2. new \in Epochs /\ views[new].seq.position \in PosOrEnd
  BY ViewFacts
<1>3. [epoch |-> new, pos |-> views[new].seq.position] \in Sequencer
  BY <1>2 DEF Sequencer
<1> QED BY <1>1, <1>3 DEF RefreshedSeq

\* The latest view exists.
LEMMA LatestView ==
    ASSUME TypeOK
    PROVE  Len(views) \in 1 .. Len(views) /\ Len(views) \in Epochs
BY EpochFacts DEF TypeOK

\* RefreshView keeps the type invariant and the epochs threads hold valid.
LEMMA RefreshViewType ==
    ASSUME TypeInv, NEW c \in Clients, RefreshView(c) PROVE TypeInv'
<1>1. TypeOK /\ ClientValid(c)
  BY DEF TypeInv, ClientsValid
<1>2. RefreshedSeq(c, cview[c], Len(views)) \in Sequencer
  BY <1>1, RefreshedSeqType, LatestView
<1>3. seq' \in [Clients -> Sequencer] /\ cview' \in [Clients -> Epochs]
  BY <1>1, <1>2, LatestView DEF RefreshView, TypeOK
<1>4. UNCHANGED <<views, objs, status, expand_pos, init_q, init_job, opener,
                  th, nops, wrote, asked, trimmed_to>>
  BY DEF RefreshView, history
<1>5. TypeOK'
  BY <1>1, <1>3, <1>4 DEF TypeOK
<1>6. cview' = [cview EXCEPT ![c] = Len(views)] /\ cview \in [Clients -> Epochs]
  BY <1>1 DEF RefreshView, TypeOK
<1>7. ClientValid(c)'
  BY <1>1, <1>4, <1>6, LatestView DEF ClientValid
<1>8. Len(views) <= Len(views')
  BY <1>1, <1>4, LatestView, EpochFacts
<1> QED BY <1>4, <1>5, <1>6, <1>7, <1>8, ClientStepType

\* Open keeps the type invariant and the epochs threads hold valid.
LEMMA OpenType ==
    ASSUME TypeInv, NEW c \in Clients, Open(c) PROVE TypeInv'
<1> DEFINE r == [NoOpener EXCEPT !.pc = "begin", !.retries = ProposeRetries]
<1>1. TypeOK /\ ClientValid(c) /\ status[c] = "closed"
  BY DEF TypeInv, ClientsValid, Open
<1>2. RefreshedSeq(c, 0, Len(views)) \in Sequencer
  BY <1>1, RefreshedSeqType, LatestView
<1>3. r \in Opener
  <2>1. ProposeRetries \in 0 .. ProposeRetries
    BY ZLogAssumption
  <2> QED BY <2>1, RestTypes DEF Opener
<1>4. /\ status' = [status EXCEPT ![c] = "opening"]
      /\ cview' = [cview EXCEPT ![c] = Len(views)]
      /\ opener' = [opener EXCEPT ![c] = r]
      /\ UNCHANGED <<views, objs, expand_pos, init_q, init_job, th, nops,
                     wrote, asked, trimmed_to>>
  BY DEF Open, history
<1>5. seq' \in [Clients -> Sequencer]
  BY <1>1, <1>2 DEF Open, TypeOK
<1>6. r.pc = "begin"
  BY DEF NoOpener
<1> HIDE DEF r
<1>7. TypeOK'
  BY <1>1, <1>3, <1>4, <1>5, LatestView DEF TypeOK
<1>8. /\ status'[c] = "opening" /\ cview'[c] = Len(views) /\ opener'[c] = r
      /\ \A d \in Clients : d # c =>
           /\ status'[d] = status[d] /\ cview'[d] = cview[d]
           /\ opener'[d] = opener[d]
  BY <1>1, <1>4 DEF TypeOK
<1>9. ClientValid(c)'
  BY <1>1, <1>4, <1>6, <1>8, LatestView DEF ClientValid
<1>10. Len(views) <= Len(views')
  BY <1>1, <1>4, LatestView, EpochFacts
<1> QED BY <1>1, <1>4, <1>7, <1>8, <1>9, <1>10, ClientStepType

\* A step of the opening thread.
LEMMA OpenerStepType ==
    ASSUME TypeInv, NEW c \in Clients, NEW r \in Opener,
           opener[c].pc # "none", opener' = [opener EXCEPT ![c] = r],
           r.pc \notin {"none", "begin"} => r.cur \in 1 .. Len(views),
           views' \in Seq(View), Len(views') \in Len(views) .. MaxEpoch,
           objs' \in [Oids -> LogObject(0 .. MaxEpoch + 1)],
           UnchangedByOpener
    PROVE  TypeInv'
<1>1. TypeOK /\ ClientValid(c)
  BY DEF TypeInv, ClientsValid
<1>2. Len(views) \in Nat /\ Len(views') \in 1 .. MaxEpoch
      /\ Len(views) <= Len(views')
  BY <1>1, EpochFacts DEF TypeOK
<1>3. UNCHANGED <<status, cview, seq, expand_pos, init_q, init_job, th, nops,
                  wrote, asked, trimmed_to>>
  BY DEF UnchangedByOpener, history
<1>4. TypeOK'
  BY <1>1, <1>2, <1>3 DEF TypeOK
<1>5. opener'[c] = r /\ \A d \in Clients : d # c => opener'[d] = opener[d]
  BY <1>1 DEF TypeOK
<1>6. cview[c] \in Nat
  BY <1>1, EpochFacts DEF TypeOK
<1>7. ClientValid(c)'
  BY <1>1, <1>2, <1>3, <1>5, <1>6 DEF ClientValid
<1> QED BY <1>2, <1>3, <1>4, <1>5, <1>7, ClientStepType

\* What the invariant says of an opening thread.
LEMMA OpenerFacts ==
    ASSUME TypeInv, NEW c \in Clients, opener[c].pc # "none"
    PROVE  /\ TypeOK /\ opener[c] \in Opener /\ status[c] = "opening"
           /\ cview[c] \in 1 .. Len(views) /\ cview[c] \in Epochs
           /\ opener[c].pc # "begin" => opener[c].cur \in 1 .. Len(views)
           /\ opener[c].stripe \in StripeIds /\ opener[c].idx \in Indexes
           /\ <<opener[c].stripe, opener[c].idx>> \in Oids
           /\ opener[c].seed \in PosOrEnd
           /\ Len(views) \in Len(views) .. MaxEpoch
<1>1. TypeOK /\ ClientValid(c) /\ opener[c] \in Opener
  BY DEF TypeInv, ClientsValid, TypeOK
<1>2. /\ status[c] = "opening"
      /\ opener[c].pc # "begin" => opener[c].cur \in 1 .. Len(views)
  BY <1>1 DEF ClientValid
<1>3. /\ opener[c].stripe \in StripeIds /\ opener[c].idx \in Indexes
      /\ opener[c].seed \in PosOrEnd
  BY <1>1 DEF Opener
<1>4. cview[c] \in 1 .. Len(views) /\ cview[c] \in Epochs
  BY <1>1, <1>2, CachedView, ViewFacts
<1>5. Len(views) \in Len(views) .. MaxEpoch
  BY <1>1, EpochFacts DEF TypeOK
<1> QED BY <1>1, <1>2, <1>3, <1>4, <1>5 DEF Oids

\* ProposeBegin keeps the type invariant and the epochs threads hold valid.
LEMMA ProposeBeginType ==
    ASSUME TypeInv, NEW c \in Clients, ProposeBegin(c) PROVE TypeInv'
<1> DEFINE inst == views[cview[c]].inst
           next == IF inst = 0 THEN "propose" ELSE "seal"
           stripe == IF inst = 0 THEN 0 ELSE inst - 1
           r == [opener[c] EXCEPT !.pc = next, !.cur = cview[c],
                                  !.stripe = stripe, !.idx = 0, !.seed = 0]
<1>1. opener[c].pc = "begin" /\ opener' = [opener EXCEPT ![c] = r]
      /\ UNCHANGED <<views, objs>> /\ UnchangedByOpener
  BY DEF ProposeBegin
<1>2. /\ TypeOK /\ opener[c] \in Opener /\ cview[c] \in 1 .. Len(views)
      /\ cview[c] \in Epochs /\ Len(views) \in Len(views) .. MaxEpoch
  BY <1>1, OpenerFacts
<1>3. inst \in 0 .. MaxStripes
  BY <1>2, ViewFacts
<1>4. stripe \in StripeIds /\ next \in {"propose", "seal"}
  BY <1>3, IndexFacts
<1> HIDE DEF stripe, next
<1>5. r \in Opener /\ r.cur \in 1 .. Len(views)
  BY <1>2, <1>4, IndexFacts, PosOrEndFacts DEF Opener
<1> HIDE DEF r
<1> QED BY <1>1, <1>2, <1>5, OpenerStepType DEF TypeOK

\* ProposeSeal keeps the type invariant and the epochs threads hold valid.
LEMMA ProposeSealType ==
    ASSUME TypeInv, NEW c \in Clients, ProposeSeal(c) PROVE TypeInv'
<1> DEFINE me == opener[c]
           o == <<me.stripe, me.idx>>
           last == me.idx = Width - 1
           next == IF last THEN "maxpos" ELSE "seal"
           idx == IF last THEN 0 ELSE me.idx + 1
           x == Seal(objs[o], me.cur + 1).obj
           r == [me EXCEPT !.pc = next, !.idx = idx]
<1>1. me.pc = "seal" /\ opener' = [opener EXCEPT ![c] = r]
      /\ objs' = [objs EXCEPT ![o] = x] /\ UNCHANGED views /\ UnchangedByOpener
  BY DEF ProposeSeal
<1>2. /\ TypeOK /\ me \in Opener /\ me.cur \in 1 .. Len(views)
      /\ me.idx \in Indexes /\ o \in Oids
      /\ Len(views) \in Len(views) .. MaxEpoch
  BY <1>1, OpenerFacts
<1>3. me.cur + 1 \in 0 .. MaxEpoch + 1
  BY <1>2, EpochFacts DEF TypeOK
<1>4. x \in LogObject(0 .. MaxEpoch + 1)
  BY <1>2, <1>3, ObjectType, SealFacts, EpochFacts
<1> HIDE DEF x, o
<1>5. objs' \in [Oids -> LogObject(0 .. MaxEpoch + 1)]
  BY <1>1, <1>2, <1>4 DEF TypeOK
<1>6. next \in {"maxpos", "seal"} /\ idx \in Indexes
  BY <1>2, IndexFacts
<1> HIDE DEF next, idx
<1>7. r \in Opener /\ r.cur \in 1 .. Len(views)
  BY <1>2, <1>6 DEF Opener
<1> HIDE DEF r
<1> QED BY <1>1, <1>2, <1>5, <1>7, OpenerStepType DEF TypeOK

\* ProposeMaxPos keeps the type invariant and the epochs threads hold valid.
LEMMA ProposeMaxPosType ==
    ASSUME TypeInv, NEW c \in Clients, ProposeMaxPos(c) PROVE TypeInv'
<1> DEFINE me == opener[c]
           o == <<me.stripe, me.idx>>
           seed == Larger(me.seed, MaxPosPlus1(objs[o]))
           last == me.idx = Width - 1
           stop == seed > 0 \/ me.stripe = 0
           next == IF ~last THEN "maxpos"
                   ELSE IF stop THEN "propose" ELSE "seal"
           idx == IF last THEN 0 ELSE me.idx + 1
           stripe == IF last /\ ~stop THEN me.stripe - 1 ELSE me.stripe
           r == [me EXCEPT !.pc = next, !.idx = idx, !.stripe = stripe,
                           !.seed = seed]
<1>1. me.pc = "maxpos" /\ opener' = [opener EXCEPT ![c] = r]
      /\ UNCHANGED <<views, objs>> /\ UnchangedByOpener
  BY DEF ProposeMaxPos
<1>2. /\ TypeOK /\ me \in Opener /\ me.cur \in 1 .. Len(views)
      /\ me.idx \in Indexes /\ me.stripe \in StripeIds /\ o \in Oids
      /\ me.seed \in PosOrEnd /\ Len(views) \in Len(views) .. MaxEpoch
  BY <1>1, OpenerFacts
<1>3. seed \in PosOrEnd
  <2>1. MaxPosPlus1(objs[o]) \in PosOrEnd
    BY <1>2, ObjectType, MaxPosFacts DEF PosOrEnd
  <2>2. MaxPosPlus1(objs[o]) \in Int /\ me.seed \in Int
    BY <1>2, <2>1, PosOrEndFacts
  <2> QED BY <1>2, <2>1, <2>2, LargerFacts
<1>4. next \in {"maxpos", "propose", "seal"} /\ idx \in Indexes
  BY <1>2, IndexFacts
<1>5. stripe \in StripeIds
  BY <1>2, IndexFacts
<1> HIDE DEF next, idx, stripe, seed
<1>6. r \in Opener /\ r.cur \in 1 .. Len(views)
  BY <1>2, <1>3, <1>4, <1>5 DEF Opener
<1> HIDE DEF r
<1> QED BY <1>1, <1>2, <1>6, OpenerStepType DEF TypeOK

\* ProposeSequencer keeps the type invariant and the epochs threads hold valid.
LEMMA ProposeSequencerType ==
    ASSUME TypeInv, NEW c \in Clients, ProposeSequencer(c) PROVE TypeInv'
<1> DEFINE me == opener[c]
           v == WithSequencer(views[me.cur], c, me.cur + 1, me.seed)
           r == [me EXCEPT !.pc = "wait", !.ret = ProposeRet(views, me.cur + 1)]
<1>1. /\ me.pc = "propose" /\ opener' = [opener EXCEPT ![c] = r]
      /\ me.cur + 1 <= MaxEpoch /\ views' = ProposeView(views, me.cur + 1, v)
      /\ UNCHANGED objs /\ UnchangedByOpener
  BY DEF ProposeSequencer
<1>2. /\ TypeOK /\ me \in Opener /\ me.cur \in 1 .. Len(views)
      /\ me.seed \in PosOrEnd /\ Len(views) \in Len(views) .. MaxEpoch
  BY <1>1, OpenerFacts
<1>3. me.cur + 1 \in Epochs
  BY <1>1, <1>2, EpochFacts DEF TypeOK
<1>4. v \in View
  <2>1. [epoch |-> me.cur + 1, token |-> c, position |-> me.seed] \in SeqConfig
    BY <1>2, <1>3 DEF SeqConfig
  <2> QED BY <1>2, <2>1, ViewFacts DEF View, WithSequencer
<1> HIDE DEF v
<1>5. views' \in Seq(View) /\ ProposeRet(views, me.cur + 1) \in {"OK", "ESPIPE"}
  BY <1>1, <1>2, <1>4, ProposeFacts DEF TypeOK
<1>6. Len(views') \in Len(views) .. MaxEpoch
  BY <1>1, <1>2, <1>4, ProposeGrows
<1>7. r \in Opener /\ r.cur \in 1 .. Len(views)
  BY <1>2, <1>5 DEF Opener
<1> HIDE DEF r
<1> QED BY <1>1, <1>2, <1>5, <1>6, <1>7, OpenerStepType DEF TypeOK

\* ProposeRetry keeps the type invariant and the epochs threads hold valid.
LEMMA ProposeRetryType ==
    ASSUME TypeInv, NEW c \in Clients, ProposeRetry(c) PROVE TypeInv'
<1> DEFINE r == [opener[c] EXCEPT !.pc = "begin",
                   !.ret = "OK", !.retries = opener[c].retries - 1]
<1>1. /\ opener[c].pc = "wait" /\ opener' = [opener EXCEPT ![c] = r]
      /\ opener[c].retries > 1 /\ UNCHANGED <<views, objs>> /\ UnchangedByOpener
  BY DEF ProposeRetry
<1>2. TypeOK /\ opener[c] \in Opener /\ Len(views) \in Len(views) .. MaxEpoch
  BY <1>1, OpenerFacts
<1>3. opener[c].retries - 1 \in 0 .. ProposeRetries
  <2>1. opener[c].retries \in 0 .. ProposeRetries
    BY <1>2 DEF Opener
  <2> QED BY <1>1, <2>1, ZLogAssumption
<1>4. r \in Opener /\ r.pc = "begin"
  BY <1>2, <1>3 DEF Opener
<1> HIDE DEF r
<1> QED BY <1>1, <1>2, <1>4, OpenerStepType DEF TypeOK

\* OpenDone keeps the type invariant and the epochs threads hold valid.
LEMMA OpenDoneType ==
    ASSUME TypeInv, NEW c \in Clients, OpenDone(c) PROVE TypeInv'
<1> DEFINE q == IF InitStripes /\ c = Creator /\ views[cview[c]].inst > 0
                THEN Append(init_q[c], 0) ELSE init_q[c]
<1>1. /\ opener[c].pc = "wait" /\ status' = [status EXCEPT ![c] = "open"]
      /\ opener' = [opener EXCEPT ![c] = NoOpener]
      /\ init_q' = [init_q EXCEPT ![c] = q]
      /\ UNCHANGED <<views, objs, cview, seq, expand_pos, init_job, th, nops,
                     wrote, asked, trimmed_to>>
  BY DEF OpenDone, history
<1>2. /\ TypeOK /\ ClientValid(c) /\ cview[c] \in 1 .. Len(views)
      /\ status[c] = "opening"
  BY <1>1, OpenerFacts DEF TypeInv, ClientsValid
<1>3. q \in Seq(Positions)
  <2>1. init_q[c] \in Seq(Positions)
    BY <1>2 DEF TypeOK
  <2>2. Append(init_q[c], 0) \in Seq(Positions)
    BY <2>1, PositionsNat, AppendProperties
  <2> QED BY <2>1, <2>2
<1> HIDE DEF q
<1>4. TypeOK'
  BY <1>1, <1>2, <1>3, RestTypes DEF TypeOK
<1>5. /\ status'[c] = "open" /\ opener'[c] = NoOpener
      /\ \A d \in Clients : d # c =>
           /\ status'[d] = status[d] /\ opener'[d] = opener[d]
           /\ init_q'[d] = init_q[d]
  BY <1>1, <1>2 DEF TypeOK
<1>6. ClientValid(c)'
  BY <1>1, <1>2, <1>5 DEF ClientValid, NoOpener
<1>7. Len(views) <= Len(views')
  BY <1>1, <1>2 DEF TypeOK
<1> QED BY <1>1, <1>2, <1>4, <1>5, <1>6, <1>7, ClientStepType

\* A client that fails or crashes keeps the invariant: its threads are idle.
LEMMA GoneType ==
    ASSUME TypeInv, NEW c \in Clients, NEW why \in {"failed", "crashed"},
           Gone(c, why)
    PROVE  TypeInv'
<1>1. TypeOK /\ ClientsValid /\ ThreadsValid
  BY DEF TypeInv
<1>2. th' \in [Threads -> Thread]
  BY <1>1, RestTypes DEF Gone, TypeOK
<1>3. status' \in [Clients -> {"closed", "opening", "open", "failed", "crashed"}]
  BY <1>1 DEF Gone, TypeOK
<1>4. UNCHANGED <<views, objs, nops, wrote, asked, trimmed_to>>
  BY DEF Gone, history
<1>5. /\ cview' \in [Clients -> Epochs] /\ seq' \in [Clients -> Sequencer]
      /\ expand_pos' \in [Clients -> Positions \cup {NoPos}]
      /\ init_job' \in [Clients -> Job] /\ opener' \in [Clients -> Opener]
  BY <1>1, RestTypes, EpochFacts DEF Gone, TypeOK
<1>6. init_q' \in [Clients -> Seq(Positions)]
  BY <1>1 DEF Gone, TypeOK
<1>7. TypeOK'
  BY <1>1, <1>2, <1>3, <1>4, <1>5, <1>6 DEF TypeOK
<1>8. \A d \in Clients :
        /\ d = c => /\ status'[d] = why /\ cview'[d] = 0
                    /\ opener'[d] = NoOpener /\ expand_pos'[d] = NoPos
                    /\ init_q'[d] = <<>>
        /\ d # c => /\ status'[d] = status[d] /\ cview'[d] = cview[d]
                    /\ opener'[d] = opener[d] /\ expand_pos'[d] = expand_pos[d]
                    /\ init_q'[d] = init_q[d]
  BY <1>1 DEF Gone, TypeOK
<1>9. ClientsValid'
  <2>1. ClientValid(c)'
    BY <1>1, <1>4, <1>8 DEF ClientValid, NoOpener, TypeOK
  <2>2. ASSUME NEW d \in Clients, d # c PROVE ClientValid(d)'
    BY <1>1, <1>4, <1>8, <2>2 DEF ClientsValid, ClientValid
  <2> QED BY <2>1, <2>2 DEF ClientsValid
<1>10. ThreadsValid'
  <2> SUFFICES ASSUME NEW t \in Threads PROVE ThreadValid(t, th[t])'
    BY DEF ThreadsValid
  <2>1. th'[t] = IF ClientOf(t) = c THEN Idle ELSE th[t]
    BY DEF Gone
  <2>2. CASE ClientOf(t) = c
    <3>1. th'[t].pc = "idle" /\ th'[t].pos \in Positions /\ th'[t].op = "none"
      BY <2>1, <2>2, PositionsNat DEF Idle
    <3> QED BY <3>1 DEF ThreadValid, HoldsView, HoldsCur
  <2>3. CASE ClientOf(t) # c
    <3>1. ThreadValid(t, th[t]) /\ th'[t] = th[t] /\ ClientOf(t) \in Clients
      BY <1>1, <2>1, <2>3, ClientOfType DEF ThreadsValid
    <3> QED BY <1>4, <1>8, <2>3, <3>1 DEF ThreadValid
  <2> QED BY <2>2, <2>3
<1> QED BY <1>7, <1>9, <1>10 DEF TypeInv

\* InitTake keeps the type invariant and the epochs threads hold valid.
LEMMA InitTakeType ==
    ASSUME TypeInv, NEW c \in Clients, InitTake(c) PROVE TypeInv'
<1> DEFINE j == [epoch |-> cview[c], idx |-> 0, stripe |-> StripeOf(Head(init_q[c]))]
           q == Tail(init_q[c])
<1>1. /\ init_q[c] # <<>> /\ init_q' = [init_q EXCEPT ![c] = q]
      /\ \/ init_job' = [init_job EXCEPT ![c] = j]
         \/ init_job' = [init_job EXCEPT ![c] = NoJob]
      /\ UNCHANGED <<views, objs, status, cview, seq, expand_pos, opener, th,
                     nops, wrote, asked, trimmed_to>>
  BY DEF InitTake, history
<1>2. TypeOK /\ ClientValid(c)
  BY DEF TypeInv, ClientsValid
<1>3. status[c] = "open"
  BY <1>1, <1>2 DEF ClientValid
<1>4. Head(init_q[c]) \in Positions /\ q \in Seq(Positions)
  BY <1>1, <1>2, HeadTailProperties DEF TypeOK
<1>5. StripeOf(Head(init_q[c])) \in StripeIds
  BY <1>4, OidType DEF Oid, Oids
<1>6. j \in Job
  BY <1>2, <1>5, IndexFacts DEF TypeOK, Job
<1> HIDE DEF j, q
<1>7. TypeOK'
  BY <1>1, <1>2, <1>4, <1>6, RestTypes DEF TypeOK
<1>8. ClientValid(c)'
  BY <1>1, <1>2, <1>3 DEF ClientValid
<1>9. \A d \in Clients : d # c => init_q'[d] = init_q[d]
  BY <1>1, <1>2 DEF TypeOK
<1>10. Len(views) <= Len(views')
  BY <1>1, <1>2 DEF TypeOK
<1> QED BY <1>1, <1>7, <1>8, <1>9, <1>10, ClientStepType

\* InitSeal keeps the type invariant and the epochs threads hold valid.
LEMMA InitSealType ==
    ASSUME TypeInv, NEW c \in Clients, InitSeal(c) PROVE TypeInv'
<1> DEFINE j == init_job[c]
           o == <<j.stripe, j.idx>>
           x == Seal(objs[o], j.epoch).obj
           j1 == [j EXCEPT !.idx = j.idx + 1]
           k == IF j.idx = Width - 1 THEN NoJob ELSE j1
<1>1. /\ objs' = [objs EXCEPT ![o] = x]
      /\ init_job' = [init_job EXCEPT ![c] = k]
      /\ UNCHANGED <<views, status, cview, seq, expand_pos, init_q, opener, th,
                     nops, wrote, asked, trimmed_to>>
  BY DEF InitSeal, history
<1>2. TypeOK /\ ClientValid(c) /\ j \in Job
  BY DEF TypeInv, ClientsValid, TypeOK
<1>3. j.epoch \in 0 .. MaxEpoch + 1 /\ j.stripe \in StripeIds /\ j.idx \in Indexes
  BY <1>2, EpochFacts DEF Job
<1>4. o \in Oids
  BY <1>3 DEF Oids
<1>5. x \in LogObject(0 .. MaxEpoch + 1)
  BY <1>2, <1>3, <1>4, ObjectType, SealFacts, EpochFacts
<1>6. k \in Job
  <2>1. j.idx # Width - 1 => j.idx + 1 \in Indexes
    BY <1>3, IndexFacts
  <2>2. j.idx # Width - 1 => j1 \in Job
    BY <1>2, <2>1 DEF Job
  <2> QED BY <2>2, RestTypes
<1> HIDE DEF o, x, k, j1
<1>7. TypeOK'
  BY <1>1, <1>2, <1>4, <1>5, <1>6 DEF TypeOK
<1>8. ClientValid(c)'
  BY <1>1, <1>2 DEF ClientValid
<1>9. Len(views) <= Len(views')
  BY <1>1, <1>2 DEF TypeOK
<1> QED BY <1>1, <1>7, <1>8, <1>9, ClientStepType

-----------------------------------------------------------------------------

\* TypeInv is inductive.
LEMMA TypeNext == TypeInv /\ [Next]_vars => TypeInv'
<1> SUFFICES ASSUME TypeInv, [Next]_vars PROVE TypeInv'
  OBVIOUS
<1>1. ASSUME NEW c \in Clients, ClientStep(c) PROVE TypeInv'
  <2>1. CASE RefreshView(c)       BY <2>1, RefreshViewType
  <2>2. CASE Open(c)              BY <2>2, OpenType
  <2>3. CASE ProposeBegin(c)      BY <2>3, ProposeBeginType
  <2>4. CASE ProposeSeal(c)       BY <2>4, ProposeSealType
  <2>5. CASE ProposeMaxPos(c)     BY <2>5, ProposeMaxPosType
  <2>6. CASE ProposeSequencer(c)  BY <2>6, ProposeSequencerType
  <2>7. CASE ProposeRetry(c)      BY <2>7, ProposeRetryType
  <2>8. CASE OpenDone(c)          BY <2>8, OpenDoneType
  <2>9. CASE OpenFail(c)          BY <2>9, GoneType DEF OpenFail
  <2>10. CASE InitTake(c)         BY <2>10, InitTakeType
  <2>11. CASE InitSeal(c)         BY <2>11, InitSealType
  <2> QED BY <1>1, <2>1, <2>2, <2>3, <2>4, <2>5, <2>6, <2>7, <2>8, <2>9,
             <2>10, <2>11 DEF ClientStep
<1>2. ASSUME NEW c \in Clients, Crash(c) PROVE TypeInv'
  BY <1>2, GoneType DEF Crash
<1>3. ASSUME NEW t \in Threads, OpStep(t) PROVE TypeInv'
  <2>1. CASE SeqGetView(t)      BY <2>1, SeqGetViewType
  <2>2. CASE AppendTail(t)      BY <2>2, AppendTailType
  <2>3. CASE CheckTail(t)       BY <2>3, CheckTailType
  <2>4. CASE PosGetView(t)      BY <2>4, PosGetViewType
  <2>5. CASE ReadIo(t)          BY <2>5, ReadIoType
  <2>6. CASE WriteIo(t)         BY <2>6, WriteIoType
  <2>7. CASE FillIo(t)          BY <2>7, FillIoType
  <2>8. CASE TrimIo(t)          BY <2>8, TrimIoType
  <2>9. CASE SealObject(t)      BY <2>9, SealObjectType
  <2>10. CASE WaitDone(t)       BY <2>10, WaitDoneType
  <2>11. CASE TrimToGetView(t)  BY <2>11, TrimToGetViewType
  <2>12. CASE AdvanceRead(t)    BY <2>12, AdvanceReadType
  <2>13. CASE AdvancePropose(t) BY <2>13, AdvanceProposeType
  <2>14. CASE TrimToIo(t)       BY <2>14, TrimToIoType
  <2>15. CASE TrimToDone(t)     BY <2>15, TrimToDoneType
  <2>16. CASE Callback(t)       BY <2>16, CallbackType
  <2>17. CASE ExpandRead(t)     BY <2>17, ExpandReadType
  <2>18. CASE ExpandPropose(t)  BY <2>18, ExpandProposeType
  <2>19. CASE ExpandWaited(t)   BY <2>19, ExpandWaitedType
  <2>20. CASE ExpanderWake(t)   BY <2>20, ExpanderWakeType
  <2>21. CASE ExpanderMap(t)    BY <2>21, ExpanderMapType
  <2>22. CASE ExpanderClear(t)  BY <2>22, ExpanderClearType
  <2> QED BY <1>3, <2>1, <2>2, <2>3, <2>4, <2>5, <2>6, <2>7, <2>8, <2>9,
             <2>10, <2>11, <2>12, <2>13, <2>14, <2>15, <2>16, <2>17, <2>18,
             <2>19, <2>20, <2>21, <2>22 DEF OpStep
<1>4. CASE UserStep
  <2>1. PICK t \in Finishers, op \in OpKinds :
          IF op \in {"append", "tail"} THEN StartOp(t, op, 0)
          ELSE \E p \in OpPositions : StartOp(t, op, p)
    BY <1>4 DEF UserStep
  <2>2. \E p \in Positions : StartOp(t, op, p)
    BY <2>1, PositionsNat, ZLogAssumption
  <2> QED BY <2>2, StartOpType
<1>5. CASE UNCHANGED vars
  <2>1. TypeOK' /\ ClientsValid'
    BY <1>5 DEF vars, TypeInv, TypeOK, ClientsValid, ClientValid
  <2>2. ThreadsValid'
    BY <1>5 DEF vars, TypeInv, ThreadsValid, ThreadValid
  <2> QED BY <2>1, <2>2 DEF TypeInv
<1> QED BY <1>1, <1>2, <1>3, <1>4, <1>5 DEF Next

-----------------------------------------------------------------------------
(* Initial states *)

\* The initial states satisfy the fencing invariant: nothing is written.
LEMMA FenceInit == Init => ViewsInv /\ FenceInv
<1> SUFFICES ASSUME Init PROVE ViewsInv /\ FenceInv
  OBVIOUS
<1>1. Len(views) = 1 /\ views[1].seq.epoch = 0
  BY DEF Init, NoSeqConfig
<1>2. ViewsInv
  BY <1>1 DEF ViewsInv, ViewsMonotone
<1>3. ThreadsFence
  BY DEF Init, ThreadsFence, ThreadFence, Idle
<1>4. \A p \in Positions : wrote[p] = 0
  BY DEF Init
<1>5. WroteMapped
  BY <1>4 DEF WroteMapped
<1>6. ObjectsCover
  BY <1>4 DEF Init, ObjectsCover, ObjectCovers, Absent
<1>7. SeedSealed
  BY <1>1 DEF SeedSealed
<1>8. OpenersFence
  BY DEF Init, OpenersFence, OpenerFence, NoOpener
<1>9. TakeoverFences
  BY <1>4 DEF TakeoverFences
<1> QED BY <1>2, <1>3, <1>5, <1>6, <1>7, <1>8, <1>9 DEF FenceInv

-----------------------------------------------------------------------------
(* Threads *)

\* What a step of a thread leaves alone.
LEMMA OpStepFrame ==
    ASSUME TypeInv, NEW t \in Threads, OpStep(t)
    PROVE  /\ opener' = opener
           /\ \A u \in Threads : u # t => th'[u] = th[u]
           /\ \/ UNCHANGED <<views, objs, wrote>>
              \/ WriteIo(t)
              \/ FillIo(t) \/ TrimIo(t) \/ TrimToIo(t) \/ SealObject(t)
              \/ AdvancePropose(t) \/ ExpandPropose(t)
<1>0. th \in [Threads -> Thread]
  BY DEF TypeInv, TypeOK
<1>1. CASE SeqGetView(t)
  BY <1>0, <1>1 DEF SeqGetView, UnchangedByOp, history
<1>2. CASE AppendTail(t)
  BY <1>0, <1>2 DEF AppendTail, UnchangedByOp, history
<1>3. CASE CheckTail(t)
  BY <1>0, <1>3 DEF CheckTail, UnchangedByOp, history
<1>4. CASE PosGetView(t)
  BY <1>0, <1>4 DEF PosGetView, UnchangedByOp, history
<1>5. CASE ReadIo(t)
  BY <1>0, <1>5 DEF ReadIo, UnchangedByOp, history
<1>6. CASE WriteIo(t)
  BY <1>0, <1>6 DEF WriteIo, UnchangedByOp
<1>7. CASE FillIo(t)
  BY <1>0, <1>7 DEF FillIo, UnchangedByOp
<1>8. CASE TrimIo(t)
  BY <1>0, <1>8 DEF TrimIo, UnchangedByOp
<1>9. CASE SealObject(t)
  BY <1>0, <1>9 DEF SealObject, Goto, UnchangedByOp
<1>10. CASE WaitDone(t)
  BY <1>0, <1>10 DEF WaitDone, UnchangedByOp, history
<1>11. CASE TrimToGetView(t)
  BY <1>0, <1>11 DEF TrimToGetView, UnchangedByOp, history
<1>12. CASE AdvanceRead(t)
  BY <1>0, <1>12 DEF AdvanceRead, UnchangedByOp, history
<1>13. CASE AdvancePropose(t)
  BY <1>0, <1>13 DEF AdvancePropose, Goto, UnchangedByOp
<1>14. CASE TrimToIo(t)
  BY <1>0, <1>14 DEF TrimToIo, UnchangedByOp
<1>15. CASE TrimToDone(t)
  BY <1>0, <1>15 DEF TrimToDone, Goto, UnchangedByOp, history
<1>16. CASE Callback(t)
  BY <1>0, <1>16 DEF Callback, UnchangedByOp, history
<1>17. CASE ExpandRead(t)
  BY <1>0, <1>17 DEF ExpandRead, UnchangedByOp, history
<1>18. CASE ExpandPropose(t)
  BY <1>0, <1>18 DEF ExpandPropose, UnchangedByOp
<1>19. CASE ExpandWaited(t)
  BY <1>0, <1>19 DEF ExpandWaited, UnchangedByOp, history
<1>20. CASE ExpanderWake(t)
  BY <1>0, <1>20 DEF ExpanderWake, UnchangedByOp, history
<1>21. CASE ExpanderMap(t)
  BY <1>0, <1>21 DEF ExpanderMap, UnchangedByOp, history
<1>22. CASE ExpanderClear(t)
  BY <1>0, <1>22 DEF ExpanderClear, UnchangedByOp, history
<1> QED BY <1>1, <1>2, <1>3, <1>4, <1>5, <1>6, <1>7, <1>8, <1>9, <1>10, <1>11,
           <1>12, <1>13, <1>14, <1>15, <1>16, <1>17, <1>18, <1>19, <1>20,
           <1>21, <1>22 DEF OpStep

\* AfterIo keeps an operation's position and view.
LEMMA AfterIoFence ==
    ASSUME NEW me \in Thread, ThreadFence(me), me.pc \in {"io", "trim"},
           me.pc = "trim" => me.op = "trimTo", NEW ret
    PROVE  ThreadFence(AfterIo(me, ret))
<1> DEFINE r1 == [me EXCEPT !.pc = "wait", !.cur = me.view]
           r2 == [me EXCEPT !.pc = "seal"]
           r3 == [me EXCEPT !.pc = "done", !.ret = ret]
<1>1. ThreadFence(r1) /\ ThreadFence(r2) /\ ThreadFence(r3)
  BY DEF ThreadFence, Thread
<1>2. AfterIo(me, ret) \in {r1, r2, r3}
  BY DEF AfterIo
<1> HIDE DEF r1, r2, r3
<1> QED BY <1>1, <1>2

\* An idle thread has nothing to fence.
LEMMA IdleFence == ThreadFence(Idle)
BY DEF ThreadFence, Idle

\* Back from try_expand_view a thread is at "view" or idle.
LEMMA AfterExpandFence ==
    ASSUME NEW t, th[t] \in Thread, ThreadFence(th[t])
    PROVE  ThreadFence(AfterExpand(t))
<1>1. ThreadFence([th[t] EXCEPT !.pc = "view", !.cur = 0, !.retries = 0,
                                !.ret = "OK"])
  BY DEF ThreadFence, Thread
<1> QED BY <1>1, IdleFence DEF AfterExpand

\* A step of a thread keeps the thread's part of the invariant.
LEMMA OpStepThread ==
    ASSUME TypeInv, NEW t \in Threads, ThreadFence(th[t]), OpStep(t)
    PROVE  ThreadFence(th'[t])
<1> DEFINE me == th[t]
           e == cview[ClientOf(t)]
<1>0. th \in [Threads -> Thread] /\ me \in Thread
  BY DEF TypeInv, TypeOK
<1>1. CASE SeqGetView(t)
  <2>1. ThreadFence([me EXCEPT !.pc = "done", !.ret = "EIO", !.view = e])
    BY <1>0 DEF ThreadFence, Thread
  <2>2. ThreadFence([me EXCEPT !.pc = MapNext(e, me.pos), !.view = e,
                               !.retries = ExpandRetries])
    BY <1>0 DEF ThreadFence, Thread, MapNext
  <2>3. ThreadFence([me EXCEPT !.pc = "tail", !.view = e])
    BY <1>0 DEF ThreadFence, Thread
  <2> QED BY <1>0, <1>1, <2>1, <2>2, <2>3 DEF SeqGetView
<1>2. CASE AppendTail(t)
  <2> DEFINE p == seq[ClientOf(t)].pos
  <2>1. ThreadFence([me EXCEPT !.pc = MapNext(me.view, p), !.pos = p,
                       !.position_epoch = seq[ClientOf(t)].epoch,
                       !.retries = ExpandRetries])
    <3> HIDE DEF p
    <3> QED BY <1>0 DEF ThreadFence, Thread, MapNext
  <2> QED BY <1>0, <1>2, <2>1 DEF AppendTail
<1>3. CASE CheckTail(t)
  BY <1>0, <1>3 DEF CheckTail, ThreadFence, Thread
<1>4. CASE PosGetView(t)
  <2>1. ThreadFence([me EXCEPT !.pc = MapNext(e, me.pos), !.view = e,
                               !.retries = ExpandRetries])
    BY <1>0 DEF ThreadFence, Thread, MapNext
  <2> QED BY <1>0, <1>4, <2>1 DEF PosGetView
<1>5. CASE ReadIo(t)
  <2>1. ThreadFence([me EXCEPT !.pc = "done", !.ret = "ENOENT"])
    BY <1>0 DEF ThreadFence, Thread
  <2>2. \A ret : ThreadFence(AfterIo(me, ret))
    BY <1>0, <1>5, AfterIoFence DEF ReadIo
  <2> QED BY <1>0, <1>5, <2>1, <2>2 DEF ReadIo
<1>6. CASE WriteIo(t)
  <2>1. ThreadFence([me EXCEPT !.pc = "view", !.position_epoch = 0])
    BY <1>0 DEF ThreadFence, Thread
  <2>2. \A ret : ThreadFence(AfterIo(me, ret))
    BY <1>0, <1>6, AfterIoFence DEF WriteIo
  <2> QED BY <1>0, <1>6, <2>1, <2>2 DEF WriteIo
<1>7. CASE FillIo(t)
  <2>1. \A ret : ThreadFence(AfterIo(me, ret))
    BY <1>0, <1>7, AfterIoFence DEF FillIo
  <2> QED BY <1>0, <1>7, <2>1 DEF FillIo
<1>8. CASE TrimIo(t)
  <2>1. \A ret : ThreadFence(AfterIo(me, ret))
    BY <1>0, <1>8, AfterIoFence DEF TrimIo
  <2> QED BY <1>0, <1>8, <2>1 DEF TrimIo
<1>9. CASE SealObject(t)
  <2>1. PICK pc \in {"io", "view"} : th' = [th EXCEPT ![t] = [@ EXCEPT !.pc = pc]]
    BY <1>9 DEF SealObject, Goto
  <2>2. me.pc = "seal"
    BY <1>9 DEF SealObject
  <2> QED BY <1>0, <2>1, <2>2 DEF ThreadFence, Thread
<1>10. CASE WaitDone(t)
  BY <1>0, <1>10 DEF WaitDone, ThreadFence, Thread
<1>11. CASE TrimToGetView(t)
  <2>1. me.op = "trimTo"
    BY <1>11 DEF TrimToGetView
  <2>2. PICK pc \in {"advance", "trim", "expand"} :
          th' = [th EXCEPT ![t] = [@ EXCEPT !.pc = pc, !.view = e, !.stripe = 0,
                                     !.idx = 0, !.retries = ExpandRetries]]
    BY <1>11 DEF TrimToGetView
  <2> QED BY <1>0, <2>1, <2>2 DEF ThreadFence, Thread
<1>12. CASE AdvanceRead(t)
  <2>1. me.pc = "advance"
    BY <1>12 DEF AdvanceRead
  <2>2. e \in 1 .. Len(views) /\ TypeOK
    BY <2>1, ThreadRuns
  <2>3. views[e].min_valid \in Int /\ me.pos \in Int
    BY <2>2, ViewFacts, ThreadFacts, PosOrEndFacts
  <2>4. \/ th' = [th EXCEPT ![t] = [me EXCEPT !.pc = "view", !.cur = e]]
        \/ /\ th' = [th EXCEPT ![t] = [me EXCEPT !.pc = "apropose", !.cur = e]]
           /\ ~(me.pos + 1 <= views[e].min_valid)
    BY <1>12 DEF AdvanceRead
  <2>5. ThreadFence([me EXCEPT !.pc = "view", !.cur = e])
    BY <1>0 DEF ThreadFence, Thread
  <2>6. ~(me.pos + 1 <= views[e].min_valid) =>
          ThreadFence([me EXCEPT !.pc = "apropose", !.cur = e])
    BY <1>0, <2>3 DEF ThreadFence, Thread
  <2> QED BY <1>0, <2>4, <2>5, <2>6
<1>13. CASE AdvancePropose(t)
  BY <1>0, <1>13 DEF AdvancePropose, Goto, ThreadFence, Thread
<1>14. CASE TrimToIo(t)
  <2>1. me.pc = "trim" /\ me.op = "trimTo"
    BY <1>14, ThreadRuns DEF TrimToIo, ThreadValid
  <2>2. \A ret : ThreadFence(AfterIo(me, ret))
    BY <1>0, <2>1, AfterIoFence
  <2>3. \A i, s : ThreadFence([me EXCEPT !.idx = i, !.stripe = s])
    BY <1>0, <2>1 DEF ThreadFence, Thread
  <2>4. PICK i, s, ret :
          th' \in {[th EXCEPT ![t] = AfterIo(me, ret)],
                  [th EXCEPT ![t] = [me EXCEPT !.idx = i, !.stripe = s]]}
    BY <1>14, Zenon DEF TrimToIo
  <2>5. ThreadFence(AfterIo(me, ret)) /\
        ThreadFence([me EXCEPT !.idx = i, !.stripe = s])
    BY <2>2, <2>3
  <2>6. CASE th' = [th EXCEPT ![t] = AfterIo(me, ret)]
    BY <1>0, <2>5, <2>6
  <2>7. CASE th' = [th EXCEPT ![t] = [me EXCEPT !.idx = i, !.stripe = s]]
    BY <1>0, <2>5, <2>7
  <2> QED BY <2>4, <2>6, <2>7
<1>15. CASE TrimToDone(t)
  BY <1>0, <1>15 DEF TrimToDone, Goto, ThreadFence, Thread
<1>16. CASE Callback(t)
  BY <1>0, <1>16, IdleFence DEF Callback
<1>17. CASE ExpandRead(t)
  <2>1. ThreadFence([me EXCEPT !.pc = "propose", !.cur = e])
    BY <1>0 DEF ThreadFence, Thread
  <2>2. ThreadFence(AfterExpand(t))
    BY <1>0, AfterExpandFence
  <2> QED BY <1>0, <1>17, <2>1, <2>2 DEF ExpandRead
<1>18. CASE ExpandPropose(t)
  BY <1>0, <1>18 DEF ExpandPropose, ThreadFence, Thread
<1>19. CASE ExpandWaited(t)
  <2>1. ThreadFence([me EXCEPT !.pc = "expand", !.retries = me.retries - 1])
    BY <1>0 DEF ThreadFence, Thread
  <2>2. ThreadFence(AfterExpand(t))
    BY <1>0, AfterExpandFence
  <2> QED BY <1>0, <1>19, <2>1, <2>2 DEF ExpandWaited
<1>20. CASE ExpanderWake(t)
  BY <1>0, <1>20 DEF ExpanderWake, ThreadFence, Idle
<1>21. CASE ExpanderMap(t)
  BY <1>0, <1>21 DEF ExpanderMap, ThreadFence, Thread
<1>22. CASE ExpanderClear(t)
  BY <1>0, <1>22, IdleFence DEF ExpanderClear
<1> QED BY <1>1, <1>2, <1>3, <1>4, <1>5, <1>6, <1>7, <1>8, <1>9, <1>10, <1>11,
           <1>12, <1>13, <1>14, <1>15, <1>16, <1>17, <1>18, <1>19, <1>20,
           <1>21, <1>22 DEF OpStep

\* Accepted views stay, so threads that do not move keep their part when the
\* history grows; a thread that proposed waits for a newer view.
LEMMA ThreadsFenceStep ==
    ASSUME TypeInv, ThreadsFence,
           \A i \in 1 .. Len(views) : views'[i] = views[i],
           \A t \in Threads :
               \/ th'[t] = th[t]
               \/ /\ ThreadFence(th'[t])
                  /\ views' = views \/ th'[t].pc \in {"wait", "ewait"}
    PROVE  ThreadsFence'
<1> SUFFICES ASSUME NEW t \in Threads PROVE ThreadFence(th[t])'
  BY DEF ThreadsFence
<1>1. CASE th'[t] = th[t]
  <2>1. ThreadFence(th[t]) /\ ThreadValid(t, th[t])
    BY DEF ThreadsFence, TypeInv, ThreadsValid
  <2> QED BY <1>1, <2>1
          DEF ThreadFence, ThreadValid, HoldsView, HoldsCur
<1>2. CASE ThreadFence(th'[t]) /\ views' = views
  BY <1>2 DEF ThreadFence
<1>3. CASE ThreadFence(th'[t]) /\ th'[t].pc \in {"wait", "ewait"}
  BY <1>3 DEF ThreadFence
<1> QED BY <1>1, <1>2, <1>3

-----------------------------------------------------------------------------
(* Calls that change one object and write no append *)

\* Filling, trimming or writing a position keeps MaxPos truthful.
LEMMA InsertCovers ==
    ASSUME NEW E, NEW x \in LogObject(E), NEW p \in Positions,
           NEW d \in Entries, d # NoEntry, ObjectCovers(Oid(p), x)
    PROVE  ObjectCovers(Oid(p), Insert(x, p, d))
<1> DEFINE y == Insert(x, p, d)
           m == MinPos(Oid(p)[1])
<1>1. /\ y \in LogObject(E) /\ y.trim_limit = x.trim_limit /\ y.entries[p] = d
      /\ \A q \in Positions : q # p => y.entries[q] = x.entries[q]
      /\ y.maxpos >= x.maxpos /\ y.maxpos >= p
  BY InsertFacts
<1>2. /\ \A q \in Positions : q \in Int
      /\ x.maxpos \in Int /\ y.maxpos \in Int
  BY <1>1, LimitsInt DEF LogObject
<1>3. m \in Int /\ m <= p
  BY OidType, StripeOfBounds, MinPosNat, PositionsNat
<1> HIDE DEF y, m
<1>4. \A q \in Positions : Oid(q) = Oid(p) /\ wrote[q] # 0 =>
        \/ y.entries[q] # NoEntry /\ q <= y.maxpos
        \/ q <= y.trim_limit
  <2> SUFFICES ASSUME NEW q \in Positions, Oid(q) = Oid(p), wrote[q] # 0
               PROVE  \/ y.entries[q] # NoEntry /\ q <= y.maxpos
                      \/ q <= y.trim_limit
    OBVIOUS
  <2>1. CASE q = p
    BY <1>1, <2>1
  <2>2. CASE q # p
    <3>1. \/ x.entries[q] # NoEntry /\ q <= x.maxpos
          \/ q <= x.trim_limit
      BY DEF ObjectCovers
    <3>2. CASE x.entries[q] # NoEntry /\ q <= x.maxpos
      <4>1. q <= y.maxpos
        BY <1>1, <1>2, <3>2
      <4> QED BY <1>1, <2>2, <3>2, <4>1
    <3>3. CASE q <= x.trim_limit
      BY <1>1, <3>3
    <3> QED BY <3>1, <3>2, <3>3
  <2> QED BY <2>1, <2>2
<1>5. y.trim_limit # NoLimit => y.trim_limit >= m
  BY <1>1 DEF ObjectCovers, m
<1>6. y.maxpos >= m
  BY <1>1, <1>2, <1>3
<1> QED BY <1>4, <1>5, <1>6 DEF ObjectCovers, y, m

\* trimTo drops the entries of an object only when its limit covers them all.
LEMMA TrimLimitCovers ==
    ASSUME NEW E, NEW o \in Oids, NEW x \in LogObject(E),
           NEW p \in Positions, ObjectCovers(o, x),
           MinPos(o[1]) <= p, MinPos(o[1]) \in Int,
           NEW new, new.maxpos = x.maxpos,
           new.trim_limit = Larger(x.trim_limit, p),
           \A q \in Positions :
              \/ new.entries[q] = x.entries[q]
              \/ new.entries[q] = NoEntry /\ (Oid(q) = o => q <= p)
    PROVE  ObjectCovers(o, new)
<1> DEFINE limit == new.trim_limit
           m == MinPos(o[1])
<1>1. x.trim_limit \in Int /\ \A q \in Positions : q \in Int
  <2>1. x.trim_limit \in Positions \cup {NoLimit}
    BY DEF LogObject
  <2> QED BY <2>1, LimitsInt
<1>2. limit \in Int /\ limit >= p /\ limit >= x.trim_limit
  BY <1>1, LargerFacts
<1>3. ASSUME NEW q \in Positions, Oid(q) = o, wrote[q] # 0
      PROVE  \/ new.entries[q] # NoEntry /\ q <= new.maxpos
             \/ q <= new.trim_limit
  <2>1. CASE q <= p
    BY <1>1, <1>2, <2>1
  <2>2. CASE new.entries[q] = x.entries[q]
    <3>1. \/ x.entries[q] # NoEntry /\ q <= x.maxpos
          \/ q <= x.trim_limit
      BY <1>3 DEF ObjectCovers
    <3>2. q \in Int
      BY <1>1
    <3> QED BY <1>1, <1>2, <2>2, <3>1, <3>2
  <2> QED BY <1>3, <2>1, <2>2
<1>4. new.trim_limit >= m
  BY <1>1, <1>2
<1>5. (\E q \in Positions : new.entries[q] # NoEntry) => new.maxpos >= m
  <2>1. ASSUME NEW q \in Positions, new.entries[q] # NoEntry
        PROVE  x.entries[q] # NoEntry
    BY <2>1
  <2>2. (\E q \in Positions : x.entries[q] # NoEntry) => x.maxpos >= m
    BY DEF ObjectCovers
  <2> QED BY <2>1, <2>2
<1> QED BY <1>3, <1>4, <1>5 DEF ObjectCovers

\* Seal only raises the epoch.
LEMMA SealCovers ==
    ASSUME NEW E, E \subseteq Int, NEW o \in Oids, NEW x \in LogObject(E),
           NEW epoch \in E, ObjectCovers(o, x)
    PROVE  /\ ObjectCovers(o, Seal(x, epoch).obj)
           /\ Seal(x, epoch).obj.epoch >= x.epoch
           /\ Seal(x, epoch).obj.epoch >= epoch
<1> DEFINE y == Seal(x, epoch).obj
<1>1. /\ y.entries = x.entries /\ y.maxpos = x.maxpos
      /\ y.trim_limit = x.trim_limit
      /\ y.epoch >= x.epoch /\ y.epoch >= epoch
  BY SealFacts
<1> HIDE DEF y
<1>2. ObjectCovers(o, y)
  BY <1>1 DEF ObjectCovers
<1> QED BY <1>1, <1>2 DEF y

\* What such calls, and steps that touch no object, leave to be shown: no epoch
\* is lowered and MaxPos stays truthful.
ObjectStep ==
    /\ UNCHANGED <<views, wrote>>
    /\ \A o \in Oids : objs'[o].epoch >= objs[o].epoch /\ ObjectCovers(o, objs'[o])

StoredInv == WroteMapped /\ ObjectsCover /\ SeedSealed /\ TakeoverFences

\* Replacing one object by a covering one with no smaller epoch is such a step.
LEMMA OneObjectStep ==
    ASSUME TypeOK, ObjectsCover, NEW o \in Oids, NEW x,
           objs' = [objs EXCEPT ![o] = x], UNCHANGED <<views, wrote>>,
           ObjectCovers(o, x), x.epoch >= objs[o].epoch
    PROVE  ObjectStep
<1>1. objs \in [Oids -> LogObject(0 .. MaxEpoch + 1)]
  BY DEF TypeOK
<1> SUFFICES ASSUME NEW q \in Oids
             PROVE  objs'[q].epoch >= objs[q].epoch /\ ObjectCovers(q, objs'[q])
  BY DEF ObjectStep
<1>2. objs[q].epoch \in Int
  BY ObjectType, EpochFacts DEF LogObject
<1>3. CASE q = o
  BY <1>1, <1>3
<1>4. CASE q # o
  BY <1>1, <1>2, <1>4 DEF ObjectsCover
<1> QED BY <1>3, <1>4

\* So is a step that leaves what is stored alone.
LEMMA NoObjectStep ==
    ASSUME TypeOK, ObjectsCover, UNCHANGED <<views, objs, wrote>>
    PROVE  ObjectStep
<1>1. \A o \in Oids : objs[o].epoch \in Int
  BY ObjectType, EpochFacts DEF LogObject
<1> QED BY <1>1 DEF ObjectStep, ObjectsCover

\* Epochs of objects are numbers, before and after a step.
LEMMA ObjectEpochs ==
    ASSUME TypeOK, TypeOK'
    PROVE  \A p \in Positions :
             objs[Oid(p)].epoch \in Int /\ objs'[Oid(p)].epoch \in Int
<1>1. \A o \in Oids : objs[o].epoch \in Int /\ objs'[o].epoch \in Int
  BY EpochFacts DEF TypeOK, LogObject
<1> QED BY <1>1, OidType

\* Such a step keeps what is known of the stored state, and of every opener
\* that does not move: epochs only rise and nothing is written.
LEMMA ObjectStepInv ==
    ASSUME TypeInv, TypeInv', StoredInv, OpenersFence, ObjectStep
    PROVE  /\ StoredInv'
           /\ \A c \in Clients : opener'[c] = opener[c] => OpenerFence(opener[c])'
<1>1. TypeOK /\ TypeOK' /\ ClientsValid
  BY DEF TypeInv
<1>2. /\ views' = views /\ wrote' = wrote
      /\ \A p \in Positions : objs'[Oid(p)].epoch >= objs[Oid(p)].epoch
  BY OidType DEF ObjectStep
<1>3. WroteMapped'
  BY <1>2 DEF WroteMapped, StoredInv
<1>4. ObjectsCover'
  BY <1>2 DEF ObjectStep, ObjectsCover, ObjectCovers
<1>5. SeedSealed'
  <2> SUFFICES ASSUME NEW e \in 1 .. Len(views), views[e].seq.epoch = e,
                      NEW p \in Positions, p >= views[e].seq.position,
                      Mapped(views[e].inst, p)
               PROVE  objs'[Oid(p)].epoch >= e
    BY <1>2 DEF SeedSealed
  <2>1. objs[Oid(p)].epoch >= e
    BY DEF SeedSealed, StoredInv
  <2>2. e \in Int
    BY <1>1, ViewFacts, EpochFacts
  <2> QED BY <1>1, <1>2, <2>1, <2>2, ObjectEpochs
<1>6. TakeoverFences'
  BY <1>2 DEF TakeoverFences, StoredInv
<1>7. ASSUME NEW c \in Clients, opener'[c] = opener[c]
      PROVE  OpenerFence(opener[c])'
  <2> DEFINE me == opener[c]
  <2> SUFFICES ASSUME me.pc \in {"seal", "maxpos", "propose"}, me.cur = Len(views)
               PROVE  \A p \in Positions :
                        /\ Mapped(views[me.cur].inst, p) /\ HasSealed(me, Oid(p))
                             => objs'[Oid(p)].epoch > me.cur
    BY <1>2, <1>7 DEF OpenerFence, OpenersFence, HasSealed, HasMeasured
  <2> SUFFICES ASSUME NEW p \in Positions, Mapped(views[me.cur].inst, p),
                      HasSealed(me, Oid(p))
               PROVE  objs'[Oid(p)].epoch > me.cur
    OBVIOUS
  <2>1. objs[Oid(p)].epoch > me.cur
    BY DEF OpenersFence, OpenerFence
  <2>2. me.cur \in Int
    BY <1>1, LatestView, EpochFacts
  <2> QED BY <1>1, <1>2, <2>1, <2>2, ObjectEpochs
<1> QED BY <1>3, <1>4, <1>5, <1>6, <1>7 DEF StoredInv

-----------------------------------------------------------------------------
(* The append's write *)

\* The history of views in the form the steps below use.
LEMMA ViewOrder ==
    ASSUME TypeOK, ViewsInv, NEW i \in 1 .. Len(views), NEW j \in 1 .. Len(views),
           i <= j
    PROVE  /\ views[i].inst <= views[j].inst
           /\ views[i].min_valid <= views[j].min_valid
           /\ views[i].seq.epoch <= views[j].seq.epoch
           /\ \A p \in Positions :
                Mapped(views[i].inst, p) => Mapped(views[j].inst, p)
<1>1. /\ views[i].inst \in Nat /\ views[j].inst \in Nat
      /\ views[i].min_valid \in Int /\ views[j].min_valid \in Int
      /\ views[i].seq.epoch \in Int /\ views[j].seq.epoch \in Int
  <2>1. views[i].inst \in Nat /\ views[j].inst \in Nat
    BY ViewFacts, LayoutAssumption
  <2>2. views[i].min_valid \in Int /\ views[j].min_valid \in Int
    BY ViewFacts, PosOrEndFacts
  <2>3. views[i].seq.epoch \in Int /\ views[j].seq.epoch \in Int
    BY ViewFacts, EpochFacts
  <2> QED BY <2>1, <2>2, <2>3
<1>2. /\ views[i].inst <= views[j].inst
      /\ views[i].min_valid <= views[j].min_valid
      /\ views[i].seq.epoch <= views[j].seq.epoch
  <2>1. CASE i = j
    BY <1>1, <2>1
  <2>2. CASE i < j
    BY <2>2 DEF ViewsInv, ViewsMonotone
  <2> QED BY <2>1, <2>2
<1>3. \A p \in Positions :
        Mapped(views[i].inst, p) => Mapped(views[j].inst, p)
  BY <1>1, <1>2, PositionsNat, MappedMonotone
<1> QED BY <1>2, <1>3

\* A successful write of p through a view is allowed by p's object, and every
\* sequencer whose seed is not above p was installed by that view or before.
LEMMA WriteAllowed ==
    ASSUME TypeOK, ViewsInv, SeedSealed, NEW p \in Positions,
           NEW k \in 1 .. Len(views), Mapped(views[k].inst, p),
           k >= objs[Oid(p)].epoch,
           NEW e \in 1 .. Len(views), views[e].seq.epoch = e,
           p >= views[e].seq.position
    PROVE  views[k].seq.epoch >= e
<1>1. objs[Oid(p)].epoch \in Int
  BY OidType, ObjectType, EpochFacts DEF LogObject
<1>2. views[k].seq.epoch \in Int /\ views[e].seq.epoch \in Int
  BY ViewFacts, EpochFacts
<1>3. e <= k
  <2>1. CASE Mapped(views[e].inst, p)
    <3>1. objs[Oid(p)].epoch >= e
      BY <2>1 DEF SeedSealed
    <3> QED BY <1>1, <3>1
  <2>2. CASE ~Mapped(views[e].inst, p)
    <3>1. CASE k <= e
      BY <2>2, <3>1, ViewOrder
    <3> QED BY <3>1
  <2> QED BY <2>1, <2>2
<1> QED BY <1>2, <1>3, ViewOrder

\* AppendOp's write: an object accepts it only from a view at least as new as
\* its seal, so it cannot land behind an opener that has sealed the object.
LEMMA WriteIoInv ==
    ASSUME TypeInv, TypeInv', ViewsInv, ThreadsFence, StoredInv, OpenersFence,
           NEW t \in Threads, WriteIo(t)
    PROVE  /\ StoredInv'
           /\ OpenersFence'
<1> DEFINE me == th[t]
           p == me.pos
           x == objs[Oid(p)]
           E == 0 .. MaxEpoch + 1
           res == Write(x, me.view, p, me.data)
<1>1. /\ me.pc = "io" /\ me.op = "append"
      /\ objs' = [objs EXCEPT ![Oid(p)] = res.obj]
      /\ wrote' = IF res.ret = "OK"
                  THEN [wrote EXCEPT ![p] = views[me.view].seq.epoch]
                  ELSE wrote
      /\ views' = views /\ opener' = opener
  BY DEF WriteIo, UnchangedByOp
<1>2. /\ p \in Positions /\ Oid(p) \in Oids /\ x \in LogObject(E)
      /\ me.view \in 1 .. Len(views) /\ me.view \in Int
  BY <1>1, PosObject
<1>3. TypeOK /\ TypeOK' /\ ClientsValid /\ E \subseteq Int
  BY EpochFacts DEF TypeInv
<1>4. me.data \in Entries /\ me.data # NoEntry /\ Mapped(views[me.view].inst, p)
  <2>1. me.data \in 0 .. MaxOps
    BY <1>3, ThreadFacts
  <2>2. me.data \in Entries
    BY <2>1, MaxOpsAssumption DEF Entries
  <2> QED BY <1>1, <2>2 DEF ThreadsFence, ThreadFence
<1>5. /\ res.ret = "OK" => me.view >= x.epoch /\ res.obj = Insert(x, p, me.data)
      /\ res.ret # "OK" => res.obj = x
  <2> HIDE DEF E, p, x
  <2> QED BY <1>2, <1>3, <1>4, WriteFacts
<1>6. objs \in [Oids -> LogObject(E)] /\ wrote \in [Positions -> Epochs]
  BY <1>3 DEF TypeOK
<1> HIDE DEF me, p, x, E, res
<1>7. CASE res.ret # "OK"
  <2>1. UNCHANGED <<views, objs, wrote>>
    BY <1>1, <1>2, <1>5, <1>6, <1>7 DEF x
  <2>2. ObjectStep
    BY <1>3, <2>1, NoObjectStep DEF StoredInv
  <2> QED BY <1>1, <2>2, ObjectStepInv DEF OpenersFence
<1>8. CASE res.ret = "OK"
  <2> DEFINE y == Insert(x, p, me.data)
             w == views[me.view].seq.epoch
  <2>1. objs' = [objs EXCEPT ![Oid(p)] = y] /\ wrote' = [wrote EXCEPT ![p] = w]
        /\ me.view >= x.epoch
    BY <1>1, <1>5, <1>8
  <2>2. /\ y.epoch = x.epoch /\ y.trim_limit = x.trim_limit
        /\ y.entries[p] # NoEntry /\ y.maxpos >= p
    BY <1>2, <1>4, InsertFacts
  <2>3. ObjectCovers(Oid(p), y)
    <3>1. ObjectCovers(Oid(p), x)
      BY <1>2 DEF StoredInv, ObjectsCover, x
    <3> QED BY <1>2, <1>4, <3>1, InsertCovers
  <2> HIDE DEF y, w
  <2>4. \A q \in Positions : q # p => wrote'[q] = wrote[q]
    BY <1>6, <2>1
  <2>5. wrote'[p] = w
    BY <1>2, <1>6, <2>1
  <2>6. \A o \in Oids : o # Oid(p) => objs'[o] = objs[o]
    BY <1>6, <2>1
  <2>7. objs'[Oid(p)] = y
    BY <1>2, <1>6, <2>1
  <2>8. \A q \in Positions : objs'[Oid(q)].epoch = objs[Oid(q)].epoch
    BY <2>2, <2>6, <2>7, OidType DEF x
  <2>9. WroteMapped'
    <3>1. Mapped(views[Len(views)].inst, p)
      BY <1>2, <1>3, <1>4, LatestView, ViewOrder
    <3> SUFFICES ASSUME NEW q \in Positions, wrote'[q] # 0
                 PROVE  Mapped(views[Len(views)].inst, q)
      BY <1>1 DEF WroteMapped
    <3>2. CASE q = p
      BY <3>1, <3>2
    <3>3. CASE q # p
      BY <2>4, <3>3 DEF WroteMapped, StoredInv
    <3> QED BY <3>2, <3>3
  <2>10. ObjectsCover'
    <3> SUFFICES ASSUME NEW o \in Oids PROVE ObjectCovers(o, objs[o])'
      BY DEF ObjectsCover
    <3>1. CASE o = Oid(p)
      <4>1. \A q \in Positions : Oid(q) = o /\ wrote'[q] # 0 =>
              \/ y.entries[q] # NoEntry /\ q <= y.maxpos
              \/ q <= y.trim_limit
        <5> SUFFICES ASSUME NEW q \in Positions, Oid(q) = o, wrote'[q] # 0
                     PROVE  \/ y.entries[q] # NoEntry /\ q <= y.maxpos
                            \/ q <= y.trim_limit
          OBVIOUS
        <5>1. CASE q = p
          BY <2>2, <5>1
        <5>2. CASE q # p
          BY <2>3, <2>4, <3>1, <5>2 DEF ObjectCovers
        <5> QED BY <5>1, <5>2
      <4> QED BY <2>3, <2>7, <3>1, <4>1 DEF ObjectCovers
    <3>2. CASE o # Oid(p)
      <4>1. ObjectCovers(o, objs[o])
        BY DEF StoredInv, ObjectsCover
      <4>2. \A q \in Positions : Oid(q) = o => wrote'[q] = wrote[q]
        BY <2>4, <3>2
      <4> QED BY <2>6, <3>2, <4>1, <4>2 DEF ObjectCovers
    <3> QED BY <3>1, <3>2
  <2>11. SeedSealed'
    BY <1>1, <2>8 DEF StoredInv, SeedSealed
  <2>12. TakeoverFences'
    <3> SUFFICES ASSUME NEW e \in 1 .. Len(views), views[e].seq.epoch = e,
                        NEW q \in Positions, q >= views[e].seq.position,
                        wrote'[q] # 0
                 PROVE  wrote'[q] >= e
      BY <1>1 DEF TakeoverFences
    <3>1. CASE q = p
      <4>1. me.view >= objs[Oid(q)].epoch
        BY <2>1, <3>1 DEF x
      <4>2. w >= e
        BY <1>2, <1>3, <1>4, <3>1, <4>1, WriteAllowed DEF StoredInv, w
      <4> QED BY <2>5, <3>1, <4>2
    <3>2. CASE q # p
      BY <2>4, <3>2 DEF StoredInv, TakeoverFences
    <3> QED BY <3>1, <3>2
  <2>13. OpenersFence'
    <3> SUFFICES ASSUME NEW c \in Clients PROVE OpenerFence(opener[c])'
      BY DEF OpenersFence
    <3> DEFINE op == opener[c]
    <3>1. OpenerFence(op)
      BY DEF OpenersFence
    <3> SUFFICES ASSUME op.pc \in {"seal", "maxpos", "propose"},
                        op.cur = Len(views)
                 PROVE  \A q \in Positions : Mapped(views[op.cur].inst, q) =>
                          /\ HasSealed(op, Oid(q)) => objs'[Oid(q)].epoch > op.cur
                          /\ HasMeasured(op, Oid(q)) /\ wrote'[q] # 0 => q < op.seed
      BY <1>1, <3>1 DEF OpenerFence, HasSealed, HasMeasured
    <3> SUFFICES ASSUME NEW q \in Positions, Mapped(views[op.cur].inst, q)
                 PROVE  /\ HasSealed(op, Oid(q)) => objs'[Oid(q)].epoch > op.cur
                        /\ HasMeasured(op, Oid(q)) /\ wrote'[q] # 0 => q < op.seed
      OBVIOUS
    <3>2. /\ HasSealed(op, Oid(q)) => objs[Oid(q)].epoch > op.cur
          /\ HasMeasured(op, Oid(q)) /\ wrote[q] # 0 => q < op.seed
      BY <3>1 DEF OpenerFence
    <3>3. HasMeasured(op, Oid(q)) => HasSealed(op, Oid(q))
      BY DEF HasMeasured, HasSealed
    <3>4. HasMeasured(op, Oid(q)) => q # p
      <4> SUFFICES ASSUME HasMeasured(op, Oid(q)), q = p PROVE FALSE
        OBVIOUS
      <4>1. x.epoch > Len(views)
        BY <3>2, <3>3 DEF x
      <4>2. x.epoch \in Int /\ Len(views) \in Int
        BY <1>2, <1>3, LatestView, EpochFacts DEF LogObject, E
      <4> QED BY <1>2, <2>1, <4>1, <4>2
    <3> QED BY <2>4, <2>8, <3>2, <3>4
  <2> QED BY <2>9, <2>10, <2>11, <2>12, <2>13 DEF StoredInv
<1> QED BY <1>7, <1>8

-----------------------------------------------------------------------------
(* Proposals *)

\* The views a proposal may carry: computed from the view of epoch cur, they
\* move it forward; if they install a sequencer, then everything from its seed
\* on is sealed and unwritten while cur is the latest epoch.
Installs(v, cur) ==
    /\ v.seq.epoch = cur + 1
    /\ cur = Len(views) =>
         \A p \in Positions : p >= v.seq.position =>
           /\ Mapped(v.inst, p) => objs[Oid(p)].epoch > cur
           /\ wrote[p] = 0

ProposeStep(v, cur) ==
    /\ views' = ProposeView(views, cur + 1, v)
    /\ UNCHANGED <<objs, wrote>>
    /\ v.inst >= views[cur].inst
    /\ v.min_valid >= views[cur].min_valid
    /\ v.seq = views[cur].seq \/ Installs(v, cur)

\* ProposeView accepts such a proposal only on top of the view it was computed
\* from: the history moves forward and a new sequencer's seed is fenced.
LEMMA ProposeStepInv ==
    ASSUME TypeInv, TypeInv', ViewsInv, StoredInv, OpenersFence,
           NEW cur \in 1 .. Len(views), NEW v \in View, ProposeStep(v, cur)
    PROVE  /\ ViewsInv' /\ StoredInv'
           /\ \A i \in 1 .. Len(views) : views'[i] = views[i]
           /\ \A c \in Clients : opener'[c] = opener[c] => OpenerFence(opener[c])'
<1>1. TypeOK /\ TypeOK' /\ ClientsValid
  BY DEF TypeInv
<1>2. views \in Seq(View) /\ views' = ProposeView(views, cur + 1, v)
      /\ objs' = objs /\ wrote' = wrote
  BY <1>1 DEF TypeOK, ProposeStep
<1>3. CASE cur # Len(views)
  <2>1. views' = views
    BY <1>2, <1>3, ProposeFacts
  <2>2. ObjectStep
    BY <1>1, <1>2, <2>1, NoObjectStep DEF StoredInv
  <2>3. ViewsInv'
    BY <2>1 DEF ViewsInv, ViewsMonotone
  <2> QED BY <2>1, <2>2, <2>3, ObjectStepInv
<1>4. CASE cur = Len(views)
  <2> DEFINE n == cur + 1
  <2>1. /\ Len(views') = n /\ views'[n] = v
        /\ \A i \in 1 .. cur : views'[i] = views[i]
    <3>1. /\ Len(ProposeView(views, cur + 1, v)) = cur + 1
          /\ ProposeView(views, cur + 1, v)[cur + 1] = v
          /\ \A i \in 1 .. cur : ProposeView(views, cur + 1, v)[i] = views[i]
      <4>1. views \in Seq(View)
        BY <1>2
      <4>2. Len(ProposeView(views, cur + 1, v)) = cur + 1
        BY <1>4, <4>1, ProposeFacts
      <4>3. ProposeView(views, cur + 1, v)[cur + 1] = v
        BY <1>4, <4>1, ProposeFacts
      <4>4. ASSUME NEW i \in 1 .. cur
            PROVE  ProposeView(views, cur + 1, v)[i] = views[i]
        BY <1>4, <4>1 DEF ProposeRet, ProposeView
      <4> QED BY <4>2, <4>3, <4>4
    <3> QED BY <1>2, <3>1
  <2>2. cur \in Int /\ n \in Int /\ 1 <= cur
    BY <1>1, LatestView
  <2>3. /\ \A i \in 1 .. n : i # n => i \in 1 .. cur
        /\ \A i \in 1 .. cur : i \in 1 .. n
        /\ n \in 1 .. n
    BY <2>2
  <2>4. /\ views[cur].inst \in Nat /\ v.inst \in Nat
        /\ views[cur].min_valid \in Int /\ v.min_valid \in Int
        /\ views[cur].seq.epoch \in Int /\ v.seq.epoch \in Int
    <3>1. v.inst \in 0 .. MaxStripes /\ v.min_valid \in PosOrEnd
          /\ v.seq.epoch \in Epochs
      BY DEF View, SeqConfig
    <3>2. views[cur].inst \in Nat /\ v.inst \in Nat
      BY <1>1, <3>1, ViewFacts, LayoutAssumption
    <3>3. views[cur].min_valid \in Int /\ v.min_valid \in Int
      BY <1>1, <3>1, ViewFacts, PosOrEndFacts
    <3>4. views[cur].seq.epoch \in Int /\ v.seq.epoch \in Int
      BY <1>1, <3>1, ViewFacts, EpochFacts
    <3> QED BY <3>2, <3>3, <3>4
  <2>5. /\ views[cur].inst <= v.inst /\ views[cur].min_valid <= v.min_valid
        /\ views[cur].seq.epoch <= v.seq.epoch /\ v.seq.epoch <= n
        /\ views[cur].seq.epoch <= cur
    <3>1. views[cur].seq.epoch <= cur
      BY DEF ViewsInv
    <3>2. CASE v.seq = views[cur].seq
      BY <2>2, <2>4, <3>1, <3>2 DEF ProposeStep
    <3>3. CASE v.seq.epoch = n
      BY <2>2, <2>4, <3>1, <3>3 DEF ProposeStep
    <3> QED BY <3>2, <3>3 DEF ProposeStep, Installs
  <2> HIDE DEF n
  <2>6. \A i \in 1 .. cur :
          /\ views[i].inst <= v.inst /\ views[i].min_valid <= v.min_valid
          /\ views[i].seq.epoch <= v.seq.epoch
    <3> SUFFICES ASSUME NEW i \in 1 .. cur
                 PROVE  /\ views[i].inst <= v.inst
                        /\ views[i].min_valid <= v.min_valid
                        /\ views[i].seq.epoch <= v.seq.epoch
      OBVIOUS
    <3>1. /\ views[i].inst <= views[cur].inst
          /\ views[i].min_valid <= views[cur].min_valid
          /\ views[i].seq.epoch <= views[cur].seq.epoch
      BY <1>1, <1>4, <2>2, ViewOrder
    <3>2. /\ views[i].inst \in Int
          /\ views[i].min_valid \in Int
          /\ views[i].seq.epoch \in Int
      <4>1. views[i].inst \in Int
        BY <1>1, <1>4, ViewFacts
      <4>2. views[i].min_valid \in Int
        BY <1>1, <1>4, ViewFacts, PosOrEndFacts
      <4>3. views[i].seq.epoch \in Int
        BY <1>1, <1>4, ViewFacts, EpochFacts
      <4> QED BY <4>1, <4>2, <4>3
    <3>3. views[i].inst <= v.inst
      BY <2>4, <2>5, <3>1, <3>2
    <3>4. views[i].min_valid <= v.min_valid
      BY <2>4, <2>5, <3>1, <3>2
    <3>5. views[i].seq.epoch <= v.seq.epoch
      BY <2>4, <2>5, <3>1, <3>2
    <3> QED BY <3>3, <3>4, <3>5
  <2>7. ViewsInv'
    <3>1. ASSUME NEW i \in 1 .. n, NEW j \in 1 .. n, i < j
          PROVE  /\ views'[i].inst <= views'[j].inst
                 /\ views'[i].min_valid <= views'[j].min_valid
                 /\ views'[i].seq.epoch <= views'[j].seq.epoch
      <4>1. i \in 1 .. cur
        BY <2>2, <3>1 DEF n
      <4>2. CASE j = n
        BY <2>1, <2>6, <4>1, <4>2
      <4>3. CASE j # n
        BY <1>4, <2>1, <2>3, <3>1, <4>1, <4>3 DEF ViewsInv, ViewsMonotone
      <4> QED BY <4>2, <4>3
    <3>2. ASSUME NEW i \in 1 .. n PROVE views'[i].seq.epoch <= i
      <4>1. CASE i = n
        BY <2>1, <2>5, <4>1
      <4>2. CASE i # n
        BY <1>4, <2>1, <2>3, <4>2 DEF ViewsInv
      <4> QED BY <4>1, <4>2
    <3> QED BY <2>1, <3>1, <3>2 DEF ViewsInv, ViewsMonotone
  <2>8. WroteMapped'
    <3> SUFFICES ASSUME NEW p \in Positions, wrote[p] # 0
                 PROVE  Mapped(v.inst, p)
      BY <1>2, <2>1 DEF WroteMapped
    <3>1. Mapped(views[cur].inst, p)
      BY <1>4 DEF WroteMapped, StoredInv
    <3> QED BY <2>4, <2>5, <3>1, MappedMonotone, PositionsNat
  <2>9. ObjectsCover'
    BY <1>2 DEF StoredInv, ObjectsCover, ObjectCovers
  <2>10. v.seq.epoch = n =>
           \A p \in Positions : p >= v.seq.position =>
             /\ Mapped(v.inst, p) => objs[Oid(p)].epoch > cur
             /\ wrote[p] = 0
    <3>1. CASE v.seq = views[cur].seq
      BY <2>2, <2>4, <2>5, <3>1 DEF n
    <3>2. CASE Installs(v, cur)
      BY <1>4, <3>2 DEF Installs
    <3> QED BY <3>1, <3>2 DEF ProposeStep
  <2>11. SeedSealed'
    <3> SUFFICES ASSUME NEW e \in 1 .. n, views'[e].seq.epoch = e,
                        NEW p \in Positions, p >= views'[e].seq.position,
                        Mapped(views'[e].inst, p)
                 PROVE  objs[Oid(p)].epoch >= e
      BY <1>2, <2>1 DEF SeedSealed
    <3>1. CASE e = n
      <4>1. objs[Oid(p)].epoch > cur
        BY <2>1, <2>10, <3>1
      <4> QED BY <1>1, <2>2, <3>1, <4>1, ObjectEpochs DEF n
    <3>2. CASE e # n
      BY <1>4, <2>1, <2>3, <3>2 DEF SeedSealed, StoredInv
    <3> QED BY <3>1, <3>2
  <2>12. TakeoverFences'
    <3> SUFFICES ASSUME NEW e \in 1 .. n, views'[e].seq.epoch = e,
                        NEW p \in Positions, p >= views'[e].seq.position,
                        wrote[p] # 0
                 PROVE  wrote[p] >= e
      BY <1>2, <2>1 DEF TakeoverFences
    <3>1. CASE e = n
      BY <2>1, <2>10, <3>1
    <3>2. CASE e # n
      BY <1>4, <2>1, <2>3, <3>2 DEF TakeoverFences, StoredInv
    <3> QED BY <3>1, <3>2
  <2>13. ASSUME NEW c \in Clients, opener'[c] = opener[c]
         PROVE  OpenerFence(opener[c])'
    <3> SUFFICES ASSUME opener[c].pc \in {"seal", "maxpos", "propose"},
                        opener[c].cur = n
                 PROVE  FALSE
      BY <2>1, <2>13 DEF OpenerFence
    <3>1. opener[c].cur \in 1 .. cur
      BY <1>1, <1>4 DEF ClientsValid, ClientValid
    <3> QED BY <2>2, <3>1 DEF n
  <2> QED BY <1>4, <2>1, <2>7, <2>8, <2>9, <2>11, <2>12, <2>13 DEF StoredInv
<1> QED BY <1>3, <1>4

-----------------------------------------------------------------------------
(* The actions of threads *)

\* Fill and Trim of one position insert junk into the object that maps it.
LEMMA FillIoStep ==
    ASSUME TypeInv, ObjectsCover, NEW t \in Threads, FillIo(t) \/ TrimIo(t)
    PROVE  ObjectStep
<1> DEFINE me == th[t]
           p == me.pos
           x == objs[Oid(p)]
           E == 0 .. MaxEpoch + 1
<1>1. me.pc = "io" /\ UNCHANGED <<views, wrote>>
  BY DEF FillIo, TrimIo, history
<1>2. p \in Positions /\ Oid(p) \in Oids /\ x \in LogObject(E) /\ me.view \in Int
  BY <1>1, PosObject
<1>3. TypeOK /\ E \subseteq Int /\ x.epoch \in Int
  BY <1>2, EpochFacts DEF TypeInv, LogObject
<1>4. PICK y \in {x, Insert(x, p, Junk)} : objs' = [objs EXCEPT ![Oid(p)] = y]
  <2>1. /\ Fill(x, me.view, p).obj \in {x, Insert(x, p, Junk)}
        /\ Trim(x, me.view, p).obj \in {x, Insert(x, p, Junk)}
    <3> HIDE DEF p, x, E
    <3> QED BY <1>2, <1>3, FillFacts, TrimFacts
  <2>2. \/ objs' = [objs EXCEPT ![Oid(p)] = Fill(x, me.view, p).obj]
        \/ objs' = [objs EXCEPT ![Oid(p)] = Trim(x, me.view, p).obj]
    BY DEF FillIo, TrimIo
  <2> QED BY <2>1, <2>2
<1>5. ObjectCovers(Oid(p), x)
  BY <1>2 DEF ObjectsCover
<1> HIDE DEF me, p, x, E
<1>6. y.epoch = x.epoch /\ ObjectCovers(Oid(p), y)
  <2>1. ObjectCovers(Oid(p), Insert(x, p, Junk))
    BY <1>2, <1>5, BackendTypes, InsertCovers
  <2>2. Insert(x, p, Junk).epoch = x.epoch
    BY <1>2, BackendTypes, InsertFacts
  <2> QED BY <1>4, <1>5, <2>1, <2>2
<1>7. y.epoch >= objs[Oid(p)].epoch
  BY <1>3, <1>6 DEF x
<1> QED BY <1>1, <1>2, <1>3, <1>4, <1>6, <1>7, OneObjectStep

\* One Trim call of trimTo on one object of the range.
LEMMA TrimToIoStep ==
    ASSUME TypeInv, ObjectsCover, NEW t \in Threads, TrimToIo(t)
    PROVE  ObjectStep
<1> DEFINE me == th[t]
           o == <<me.stripe, me.idx>>
           x == objs[o]
           E == 0 .. MaxEpoch + 1
           full == FullyTrimmed(me.stripe, me.idx, me.pos)
           y == TrimLimit(x, me.view, me.pos, full).obj
           entries == IF full THEN Absent.entries ELSE x.entries
<1>1. me.pc = "trim" /\ MoreToTrim(me) /\ UNCHANGED <<views, wrote>>
  BY DEF TrimToIo, history
<1>2. ThreadValid(t, me) /\ TypeOK
  BY <1>1, ThreadRuns
<1>3. o \in Oids /\ Target(me) = o
  BY <1>1, <1>2, TrimTarget DEF Target, ThreadValid
<1>4. me.pos \in Positions /\ me.view \in Int
  BY <1>1, <1>2, ThreadFacts, EpochFacts DEF ThreadValid
<1>5. objs' = [objs EXCEPT ![o] = y]
  BY <1>3 DEF TrimToIo
<1>6. /\ x \in LogObject(E) /\ E \subseteq Int /\ x.epoch \in Int
      /\ ObjectCovers(o, x)
  <2>1. x \in LogObject(E) /\ E \subseteq Int
    BY <1>2, <1>3, ObjectType, EpochFacts
  <2>2. ObjectCovers(o, x)
    BY <1>3 DEF ObjectsCover
  <2> HIDE DEF x, E
  <2>3. x.epoch \in Int
    BY <2>1 DEF LogObject
  <2> QED BY <2>1, <2>2, <2>3
<1>7. MinPos(o[1]) <= me.pos /\ MinPos(o[1]) \in Int
  <2>1. o[1] \in Nat /\ o[2] \in Nat
    BY <1>3, LayoutAssumption DEF Oids, StripeIds, Indexes
  <2>2. MinPos(o[1]) + o[2] <= me.pos
    BY <1>1 DEF MoreToTrim, InTrimRange
  <2>3. MinPos(o[1]) \in Nat /\ me.pos \in Int
    BY <1>4, <2>1, MinPosNat, LimitsInt
  <2> HIDE DEF o, me
  <2> QED BY <2>1, <2>2, <2>3
<1>8. ObjectCovers(o, y) /\ y.epoch = x.epoch
  <2>1. \/ y = x
        \/ y = [x EXCEPT !.trim_limit = Larger(x.trim_limit, me.pos),
                         !.entries = entries]
    BY DEF TrimLimit, Result
  <2>2. ASSUME NEW q \in Positions
        PROVE  \/ entries[q] = x.entries[q]
               \/ entries[q] = NoEntry /\ (Oid(q) = o => q <= me.pos)
    <3>1. CASE full
      <4>1. Oid(q) = o => q <= me.pos
        BY <1>3, <1>4, <3>1, FullyTrimmedCovers
      <4>2. entries = Absent.entries
        BY <3>1
      <4>3. Absent.entries[q] = NoEntry
        BY DEF Absent
      <4> HIDE DEF entries
      <4> QED BY <4>1, <4>2, <4>3
    <3>2. CASE ~full
      <4>1. entries = x.entries
        BY <3>2
      <4> HIDE DEF entries
      <4> QED BY <4>1
    <3> HIDE DEF full
    <3> QED BY <3>1, <3>2
  <2> HIDE DEF o, x, E, me, y, entries, full
  <2>3. CASE y = x
    BY <1>6, <2>3
  <2>4. CASE y = [x EXCEPT !.trim_limit = Larger(x.trim_limit, me.pos),
                           !.entries = entries]
    <3>1. /\ y.epoch = x.epoch /\ y.maxpos = x.maxpos /\ y.entries = entries
          /\ y.trim_limit = Larger(x.trim_limit, me.pos)
      BY <1>6, <2>4 DEF LogObject
    <3>2. \A q \in Positions :
             \/ y.entries[q] = x.entries[q]
             \/ y.entries[q] = NoEntry /\ (Oid(q) = o => q <= me.pos)
      BY <2>2, <3>1
    <3> QED BY <1>3, <1>4, <1>6, <1>7, <3>1, <3>2, TrimLimitCovers
  <2> QED BY <2>1, <2>3, <2>4
<1> HIDE DEF me, o, y
<1>9. y.epoch >= objs[o].epoch
  BY <1>6, <1>8
<1> QED BY <1>1, <1>2, <1>3, <1>5, <1>8, <1>9, OneObjectStep

\* The Seal by which an operation creates a missing object.
LEMMA SealObjectStep ==
    ASSUME TypeInv, ObjectsCover, NEW t \in Threads, SealObject(t)
    PROVE  ObjectStep
<1> DEFINE me == th[t]
           o == Target(me)
           x == objs[o]
           E == 0 .. MaxEpoch + 1
<1>1. me.pc = "seal" /\ UNCHANGED <<views, wrote>>
      /\ objs' = [objs EXCEPT ![o] = Seal(x, me.view).obj]
  BY DEF SealObject, history
<1>2. TypeOK /\ o \in Oids /\ me.view \in E
  BY <1>1, ThreadRuns, TargetType, ThreadFacts, EpochFacts
<1>3. x \in LogObject(E) /\ E \subseteq Int /\ ObjectCovers(o, x)
  BY <1>2, ObjectType, EpochFacts DEF ObjectsCover
<1> HIDE DEF me, o, E
<1>4. ObjectCovers(o, Seal(x, me.view).obj) /\ Seal(x, me.view).obj.epoch >= x.epoch
  BY <1>2, <1>3, SealCovers
<1> QED BY <1>1, <1>2, <1>4, OneObjectStep

\* advance_min_valid_position and try_expand_view propose the view they read
\* with a larger bound or mapping, and its sequencer.
LEMMA AdvanceProposeStep ==
    ASSUME TypeInv, NEW t \in Threads, ThreadFence(th[t]), AdvancePropose(t)
    PROVE  \E v \in View, cur \in 1 .. Len(views) : ProposeStep(v, cur)
<1> DEFINE me == th[t]
           old == views[me.cur]
           v == [old EXCEPT !.min_valid = me.pos + 1]
<1>1. me.pc = "apropose" /\ views' = ProposeView(views, me.cur + 1, v)
      /\ UNCHANGED <<objs, wrote>>
  BY DEF AdvancePropose, history
<1>2. TypeOK /\ me.cur \in 1 .. Len(views) /\ me.pos \in Positions
  BY <1>1, ThreadRuns DEF ThreadValid, HoldsCur
<1>3. old \in View /\ old.inst \in Int /\ old.min_valid \in Int
  <2>1. old \in View /\ old.inst \in 0 .. MaxStripes /\ old.min_valid \in PosOrEnd
    BY <1>2, ViewFacts
  <2> HIDE DEF old
  <2>2. old.inst \in Int
    BY <2>1
  <2>3. old.min_valid \in Int
    BY <2>1, PosOrEndFacts
  <2> QED BY <2>1, <2>2, <2>3
<1>4. me.pos + 1 \in PosOrEnd /\ me.pos + 1 \in Int
  BY <1>2, PosOrEndFacts
<1>5. me.pos + 1 > old.min_valid
  BY <1>1 DEF ThreadFence
<1> HIDE DEF old
<1>6. /\ v \in View /\ v.inst = old.inst /\ v.min_valid = me.pos + 1
      /\ v.seq = old.seq
  BY <1>3, <1>4 DEF View
<1> HIDE DEF v, me
<1>7. ProposeStep(v, me.cur)
  <2>1. v.inst >= old.inst /\ v.min_valid >= old.min_valid
    BY <1>3, <1>4, <1>5, <1>6
  <2> QED BY <1>1, <1>6, <2>1 DEF ProposeStep, old
<1> QED BY <1>2, <1>6, <1>7

\* try_expand_view: a larger mapping, everything else as in the view it read.
LEMMA ExpandProposeStep ==
    ASSUME TypeInv, NEW t \in Threads, ExpandPropose(t)
    PROVE  \E v \in View, cur \in 1 .. Len(views) : ProposeStep(v, cur)
<1> DEFINE me == th[t]
           old == views[me.cur]
           m == ExpandMapping(old.inst, me.pos)
           v == [old EXCEPT !.inst = m]
<1>1. me.pc = "propose" /\ views' = ProposeView(views, me.cur + 1, v)
      /\ UNCHANGED <<objs, wrote>>
  BY DEF ExpandPropose, history
<1>2. TypeOK /\ me.cur \in 1 .. Len(views) /\ me.pos \in Positions
  BY <1>1, ThreadRuns DEF ThreadValid, HoldsCur
<1>3. old \in View /\ old.inst \in 0 .. MaxStripes /\ old.min_valid \in Int
  BY <1>2, ViewFacts, PosOrEndFacts
<1>4. m \in 0 .. MaxStripes /\ old.inst <= m
  BY <1>2, <1>3, ExpandMappingMaps
<1> HIDE DEF old, m
<1>5. /\ v \in View /\ v.inst = m /\ v.min_valid = old.min_valid
      /\ v.seq = old.seq
  BY <1>3, <1>4 DEF View
<1> HIDE DEF v, me
<1>6. ProposeStep(v, me.cur)
  <2>1. v.inst >= old.inst /\ v.min_valid >= old.min_valid
    BY <1>3, <1>4, <1>5
  <2> QED BY <1>1, <1>5, <2>1 DEF ProposeStep, old
<1> QED BY <1>2, <1>5, <1>6

\* Every step of a finisher or of the expander keeps the fencing invariant.
LEMMA OpStepInv ==
    ASSUME TypeInv, TypeInv', ViewsInv, FenceInv, NEW t \in Threads, OpStep(t)
    PROVE  ViewsInv' /\ FenceInv'
<1>1. ThreadsFence /\ StoredInv /\ OpenersFence /\ ObjectsCover /\ TypeOK
  BY DEF FenceInv, StoredInv, TypeInv
<1>2. /\ opener' = opener
      /\ \A u \in Threads : u # t => th'[u] = th[u]
  BY OpStepFrame
<1>3. ThreadFence(th[t]) /\ ThreadFence(th'[t])
  BY <1>1, OpStepThread DEF ThreadsFence
<1>4. CASE UNCHANGED <<views, objs, wrote>> \/ FillIo(t) \/ TrimIo(t)
           \/ TrimToIo(t) \/ SealObject(t)
  <2>1. ObjectStep
    BY <1>1, <1>4, NoObjectStep, FillIoStep, TrimToIoStep, SealObjectStep
  <2>2. views' = views
    BY <2>1 DEF ObjectStep
  <2>3. ThreadsFence'
    BY <1>1, <1>2, <1>3, <2>2, ThreadsFenceStep
  <2>4. ViewsInv'
    BY <2>2 DEF ViewsInv, ViewsMonotone
  <2>5. StoredInv' /\ OpenersFence'
    BY <1>1, <1>2, <2>1, ObjectStepInv DEF OpenersFence
  <2> QED BY <2>3, <2>4, <2>5 DEF FenceInv, StoredInv
<1>5. CASE WriteIo(t)
  <2>1. views' = views
    BY <1>5 DEF WriteIo
  <2>2. ThreadsFence'
    BY <1>1, <1>2, <1>3, <2>1, ThreadsFenceStep
  <2>3. ViewsInv'
    BY <2>1 DEF ViewsInv, ViewsMonotone
  <2>4. StoredInv' /\ OpenersFence'
    BY <1>1, <1>5, WriteIoInv
  <2> QED BY <2>2, <2>3, <2>4 DEF FenceInv, StoredInv
<1>6. CASE AdvancePropose(t) \/ ExpandPropose(t)
  <2>1. PICK v \in View, cur \in 1 .. Len(views) : ProposeStep(v, cur)
    BY <1>3, <1>6, AdvanceProposeStep, ExpandProposeStep
  <2>2. /\ ViewsInv' /\ StoredInv'
        /\ \A i \in 1 .. Len(views) : views'[i] = views[i]
        /\ \A c \in Clients : opener'[c] = opener[c] => OpenerFence(opener[c])'
    BY <1>1, <2>1, ProposeStepInv
  <2>3. th'[t].pc \in {"wait", "ewait"}
    <3>1. th \in [Threads -> Thread] /\ th[t] \in Thread
      BY <1>1 DEF TypeOK
    <3>2. CASE AdvancePropose(t)
      BY <3>1, <3>2 DEF AdvancePropose, Goto, Thread
    <3>3. CASE ExpandPropose(t)
      <4>1. PICK ret : th' = [th EXCEPT ![t] = [@ EXCEPT
                                 !.pc = "ewait", !.ret = ret]]
        BY <3>3 DEF ExpandPropose
      <4> QED BY <3>1, <4>1 DEF Thread
    <3> QED BY <1>6, <3>2, <3>3
  <2>4. ThreadsFence'
    BY <1>1, <1>2, <1>3, <2>2, <2>3, ThreadsFenceStep
  <2> QED BY <1>2, <2>2, <2>4 DEF FenceInv, StoredInv, OpenersFence
<1> QED BY <1>4, <1>5, <1>6, OpStepFrame

-----------------------------------------------------------------------------
(* The actions of clients *)

\* A step that moves one opener and no view, and no thread but to idle.
LEMMA ClientStepInv ==
    ASSUME TypeInv, TypeInv', ViewsInv, FenceInv, NEW c \in Clients, ObjectStep,
           \A t \in Threads : th'[t] \in {th[t], Idle},
           \A d \in Clients : d # c => opener'[d] = opener[d],
           opener'[c] # opener[c] => OpenerFence(opener[c])'
    PROVE  ViewsInv' /\ FenceInv'
<1>1. ThreadsFence /\ StoredInv /\ OpenersFence
  BY DEF FenceInv, StoredInv
<1>2. views' = views
  BY DEF ObjectStep
<1>3. ThreadsFence'
  BY <1>1, <1>2, IdleFence, ThreadsFenceStep
<1>4. ViewsInv'
  BY <1>2 DEF ViewsInv, ViewsMonotone
<1>5. /\ StoredInv'
      /\ \A d \in Clients : opener'[d] = opener[d] => OpenerFence(opener[d])'
  BY <1>1, ObjectStepInv
<1>6. OpenersFence'
  BY <1>5 DEF OpenersFence
<1> QED BY <1>3, <1>4, <1>5, <1>6 DEF FenceInv, StoredInv

\* Steps that leave what is stored alone, and no opener sealing or measuring.
LEMMA QuietClientStep ==
    ASSUME TypeInv, TypeInv', ViewsInv, FenceInv, NEW c \in Clients,
           \/ RefreshView(c) \/ Open(c) \/ ProposeRetry(c) \/ OpenDone(c)
           \/ OpenFail(c) \/ Crash(c) \/ InitTake(c)
    PROVE  ViewsInv' /\ FenceInv'
<1>1. opener \in [Clients -> Opener] /\ th \in [Threads -> Thread]
      /\ opener[c] \in Opener
  BY DEF TypeInv, TypeOK
<1>2. UNCHANGED <<views, objs, wrote>>
  BY DEF RefreshView, Open, ProposeRetry, OpenDone, OpenFail, Crash, InitTake,
         Gone, UnchangedByOpener, history
<1>3. ObjectStep
  BY <1>2, NoObjectStep DEF TypeInv, FenceInv
<1>4. \A t \in Threads : th'[t] \in {th[t], Idle}
  BY <1>1 DEF RefreshView, Open, ProposeRetry, OpenDone, OpenFail, Crash,
              InitTake, Gone, UnchangedByOpener
<1>5. /\ \A d \in Clients : d # c => opener'[d] = opener[d]
      /\ opener'[c] = opener[c] \/ opener'[c].pc \in {"none", "begin"}
  <2>1. CASE RefreshView(c) \/ InitTake(c)
    BY <2>1 DEF RefreshView, InitTake
  <2>2. CASE Open(c)
    BY <1>1, <2>2 DEF Open, NoOpener
  <2>3. CASE ProposeRetry(c)
    BY <1>1, <2>3 DEF ProposeRetry, Opener
  <2>4. CASE OpenDone(c)
    BY <1>1, <2>4 DEF OpenDone, NoOpener
  <2>5. CASE OpenFail(c) \/ Crash(c)
    BY <1>1, <2>5 DEF OpenFail, Crash, Gone, NoOpener
  <2> QED BY <2>1, <2>2, <2>3, <2>4, <2>5
<1>6. opener'[c] # opener[c] => OpenerFence(opener[c])'
  BY <1>5 DEF OpenerFence
<1> QED BY <1>3, <1>4, <1>5, <1>6, ClientStepInv

\* A Seal by the stripe initializer.
LEMMA InitSealStep ==
    ASSUME TypeInv, TypeInv', ViewsInv, FenceInv, NEW c \in Clients, InitSeal(c)
    PROVE  ViewsInv' /\ FenceInv'
<1> DEFINE j == init_job[c]
           o == <<j.stripe, j.idx>>
           x == objs[o]
           E == 0 .. MaxEpoch + 1
<1>1. /\ objs' = [objs EXCEPT ![o] = Seal(x, j.epoch).obj]
      /\ UNCHANGED <<views, wrote>> /\ opener' = opener /\ th' = th
  BY DEF InitSeal, history
<1>2. TypeOK /\ ObjectsCover
  BY DEF TypeInv, FenceInv
<1>3. j \in Job
  BY <1>2 DEF TypeOK
<1>4. o \in Oids /\ j.epoch \in E
  BY <1>3, EpochFacts DEF Job, Oids
<1>5. x \in LogObject(E) /\ E \subseteq Int /\ ObjectCovers(o, x)
  BY <1>2, <1>4, ObjectType, EpochFacts DEF ObjectsCover
<1> HIDE DEF j, o, E
<1>6. ObjectCovers(o, Seal(x, j.epoch).obj) /\ Seal(x, j.epoch).obj.epoch >= x.epoch
  BY <1>4, <1>5, SealCovers
<1>7. ObjectStep
  BY <1>1, <1>2, <1>4, <1>6, OneObjectStep
<1> QED BY <1>1, <1>7, ClientStepInv

\* The positions of the objects of one stripe in terms of what an opener has
\* done: facts about its position in the order of propose_sequencer.
LEMMA OidFacts ==
    ASSUME NEW p \in Positions
    PROVE  /\ Oid(p)[1] \in Int /\ Oid(p)[2] \in Int
           /\ 0 <= Oid(p)[2] /\ Oid(p)[2] <= Width - 1
           /\ Oid(p) = <<Oid(p)[1], Oid(p)[2]>>
<1>1. Oid(p) \in Oids
  BY OidType
<1> HIDE DEF Oid
<1> QED BY <1>1, LayoutAssumption DEF Oids, StripeIds, Indexes

\* An opener that starts over from the cached view has sealed nothing yet.
LEMMA ProposeBeginStep ==
    ASSUME TypeInv, TypeInv', ViewsInv, FenceInv, NEW c \in Clients,
           ProposeBegin(c)
    PROVE  ViewsInv' /\ FenceInv'
<1> DEFINE inst == views[cview[c]].inst
           me == opener'[c]
<1>1. UNCHANGED <<views, objs, wrote>> /\ th' = th
  BY DEF ProposeBegin, UnchangedByOpener, history
<1>2. TypeOK /\ opener[c] \in Opener /\ cview[c] \in 1 .. Len(views)
  BY OpenerFacts DEF ProposeBegin
<1>3. /\ me.pc = IF inst = 0 THEN "propose" ELSE "seal"
      /\ me.cur = cview[c] /\ me.stripe = (IF inst = 0 THEN 0 ELSE inst - 1)
      /\ me.idx = 0 /\ me.seed = 0
      /\ \A d \in Clients : d # c => opener'[d] = opener[d]
  BY <1>2 DEF TypeOK, ProposeBegin, Opener
<1>4. inst \in Nat
  BY <1>2, ViewFacts, LayoutAssumption
<1>5. \A p \in Positions : Mapped(inst, p) =>
        ~HasSealed(me, Oid(p)) /\ ~HasMeasured(me, Oid(p))
  <2> SUFFICES ASSUME NEW p \in Positions, Mapped(inst, p)
               PROVE  ~HasSealed(me, Oid(p)) /\ ~HasMeasured(me, Oid(p))
    OBVIOUS
  <2>1. /\ Oid(p)[1] \in Int /\ Oid(p)[2] \in Int /\ 0 <= Oid(p)[2]
    BY OidFacts
  <2>2. Oid(p)[1] \in Nat /\ Oid(p)[1] < inst
    BY <1>4, OidType, MappedStripe, StripeOfBounds, PositionsNat
  <2>3. inst # 0 /\ me.pc = "seal" /\ me.stripe = inst - 1 /\ me.idx = 0
    BY <1>3, <1>4, <2>2
  <2> HIDE DEF me, inst
  <2> QED BY <1>4, <2>1, <2>2, <2>3 DEF HasSealed, HasMeasured
<1>6. OpenerFence(opener[c])'
  <2>1. me.pc = "propose" => me.stripe = 0
    BY <1>3
  <2>2. views[me.cur].inst = inst
    BY <1>3
  <2> HIDE DEF me, inst
  <2>3. OpenerFence(me)
    BY <1>3, <1>5, <2>1, <2>2 DEF OpenerFence
  <2> QED BY <1>1, <2>3 DEF me, OpenerFence, HasSealed, HasMeasured
<1>7. ObjectStep
  BY <1>1, <1>2, NoObjectStep DEF FenceInv
<1> QED BY <1>1, <1>3, <1>6, <1>7, ClientStepInv

\* Each Seal closes one more object to the views there are.
LEMMA ProposeSealStep ==
    ASSUME TypeInv, TypeInv', ViewsInv, FenceInv, NEW c \in Clients,
           ProposeSeal(c)
    PROVE  ViewsInv' /\ FenceInv'
<1> DEFINE me == opener[c]
           new == opener'[c]
           o == <<me.stripe, me.idx>>
           x == objs[o]
           y == Seal(x, me.cur + 1).obj
           E == 0 .. MaxEpoch + 1
<1>1. /\ me.pc = "seal" /\ UNCHANGED <<views, wrote>> /\ th' = th
      /\ objs' = [objs EXCEPT ![o] = y]
  BY DEF ProposeSeal, UnchangedByOpener, history
<1>2. /\ TypeOK /\ me \in Opener /\ o \in Oids
      /\ me.cur \in 1 .. Len(views)
  BY <1>1, OpenerFacts
<1>3. /\ new.pc = (IF me.idx = Width - 1 THEN "maxpos" ELSE "seal")
      /\ new.idx = (IF me.idx = Width - 1 THEN 0 ELSE me.idx + 1)
      /\ new.cur = me.cur /\ new.stripe = me.stripe /\ new.seed = me.seed
      /\ \A d \in Clients : d # c => opener'[d] = opener[d]
  BY <1>2 DEF TypeOK, ProposeSeal, Opener
<1>4. /\ me.cur \in Int /\ me.cur + 1 \in E /\ Len(views) \in Int
      /\ me.idx \in Int /\ me.stripe \in Int /\ Width \in Int
  <2>1. me.cur \in Epochs /\ Len(views) \in Epochs
    BY <1>2, LatestView DEF Opener
  <2>2. me.idx \in Int /\ me.stripe \in Int /\ Width \in Int
    BY <1>2, LayoutAssumption DEF Opener, StripeIds, Indexes
  <2> QED BY <2>1, <2>2, EpochFacts
<1>5. x \in LogObject(E) /\ E \subseteq Int /\ ObjectCovers(o, x)
  BY <1>2, ObjectType, EpochFacts DEF FenceInv, ObjectsCover
<1>6. ObjectCovers(o, y) /\ y.epoch >= x.epoch /\ y.epoch >= me.cur + 1
  <2> HIDE DEF o, E, me
  <2> QED BY <1>2, <1>4, <1>5, SealCovers
<1> HIDE DEF o, y, E, me, new
<1>7. ObjectStep
  BY <1>1, <1>2, <1>6, OneObjectStep DEF FenceInv
<1>8. ASSUME me.cur = Len(views), NEW p \in Positions,
             Mapped(views[me.cur].inst, p)
      PROVE  /\ HasSealed(new, Oid(p)) => objs'[Oid(p)].epoch > me.cur
             /\ HasMeasured(new, Oid(p)) /\ wrote[p] # 0 => p < me.seed
  <2>1. /\ HasSealed(me, Oid(p)) => objs[Oid(p)].epoch > me.cur
        /\ HasMeasured(me, Oid(p)) /\ wrote[p] # 0 => p < me.seed
    BY <1>1, <1>8 DEF FenceInv, OpenersFence, OpenerFence, me
  <2>2. /\ Oid(p)[1] \in Int /\ Oid(p)[2] \in Int
        /\ 0 <= Oid(p)[2] /\ Oid(p)[2] <= Width - 1
        /\ Oid(p) = <<Oid(p)[1], Oid(p)[2]>>
    BY OidFacts
  <2>3. objs[Oid(p)].epoch \in Int /\ objs'[Oid(p)].epoch \in Int
        /\ objs'[Oid(p)].epoch >= objs[Oid(p)].epoch
    BY <1>2, <1>7, ObjectEpochs, OidType DEF ObjectStep, TypeInv
  <2>4. CASE HasSealed(me, Oid(p))
    <3>1. objs'[Oid(p)].epoch > me.cur
      BY <1>4, <2>1, <2>3, <2>4
    <3>2. HasMeasured(new, Oid(p)) => HasMeasured(me, Oid(p))
      BY <1>1, <1>3, <1>4, <2>2 DEF HasMeasured
    <3> QED BY <2>1, <3>1, <3>2
  <2>5. CASE ~HasSealed(me, Oid(p))
    <3>1. HasSealed(new, Oid(p)) => Oid(p)[1] = me.stripe /\ Oid(p)[2] = me.idx
      BY <1>1, <1>3, <1>4, <2>2, <2>5 DEF HasSealed
    <3>2. Oid(p)[1] = me.stripe /\ Oid(p)[2] = me.idx => Oid(p) = o
      BY <2>2 DEF o
    <3>3. Oid(p) = o => objs'[Oid(p)] = y
      BY <1>1, <1>2 DEF TypeOK
    <3>4. Oid(p) = o => objs'[Oid(p)].epoch > me.cur
      BY <1>4, <1>6, <2>3, <3>3
    <3>5. ~HasMeasured(new, Oid(p))
      BY <1>1, <1>3, <1>4, <2>2, <2>5 DEF HasSealed, HasMeasured
    <3> QED BY <3>1, <3>2, <3>4, <3>5
  <2> QED BY <2>4, <2>5
<1>9. OpenerFence(opener[c])'
  <2>1. me.cur = Len(views) => me.seed = 0
    BY <1>1 DEF FenceInv, OpenersFence, OpenerFence, me
  <2>2. new.pc \in {"maxpos", "seal"} /\ new.cur = me.cur /\ new.seed = me.seed
    BY <1>3
  <2> SUFFICES ASSUME new.cur = Len(views)
               PROVE  \A p \in Positions : Mapped(views[new.cur].inst, p) =>
                        /\ HasSealed(new, Oid(p)) => objs'[Oid(p)].epoch > new.cur
                        /\ HasMeasured(new, Oid(p)) /\ wrote[p] # 0 => p < new.seed
    BY <1>1, <2>1, <2>2 DEF OpenerFence, HasSealed, HasMeasured, new
  <2> QED BY <1>8, <2>2
<1> QED BY <1>1, <1>3, <1>7, <1>9, ClientStepInv

\* MaxPos of a sealed object covers the appends it took: none can follow.
LEMMA ProposeMaxPosStep ==
    ASSUME TypeInv, TypeInv', ViewsInv, FenceInv, NEW c \in Clients,
           ProposeMaxPos(c)
    PROVE  ViewsInv' /\ FenceInv'
<1> DEFINE me == opener[c]
           new == opener'[c]
           o == <<me.stripe, me.idx>>
           x == objs[o]
           n == MaxPosPlus1(x)
           seed == Larger(me.seed, n)
           last == me.idx = Width - 1
           stop == seed > 0 \/ me.stripe = 0
           E == 0 .. MaxEpoch + 1
<1>1. me.pc = "maxpos" /\ UNCHANGED <<views, objs, wrote>> /\ th' = th
  BY DEF ProposeMaxPos, UnchangedByOpener, history
<1>2. /\ TypeOK /\ me \in Opener /\ o \in Oids
      /\ me.cur \in 1 .. Len(views)
  BY <1>1, OpenerFacts
<1>3. /\ new.pc = (IF ~last THEN "maxpos"
                   ELSE IF stop THEN "propose" ELSE "seal")
      /\ new.idx = (IF last THEN 0 ELSE me.idx + 1)
      /\ new.stripe = (IF last /\ ~stop THEN me.stripe - 1 ELSE me.stripe)
      /\ new.cur = me.cur /\ new.seed = seed
      /\ \A d \in Clients : d # c => opener'[d] = opener[d]
  <2> HIDE DEF seed
  <2> QED BY <1>2 DEF TypeOK, ProposeMaxPos, Opener, seed
<1>4. /\ me.idx \in Int /\ me.stripe \in Int /\ Width \in Int
      /\ 0 <= me.stripe
  BY <1>2, LayoutAssumption DEF Opener, StripeIds, Indexes
<1>5. x \in LogObject(E) /\ ObjectCovers(o, x)
  BY <1>2, ObjectType DEF FenceInv, ObjectsCover
<1>6. MinPos(me.stripe) \in Nat
  BY <1>4, MinPosNat
<1>7. /\ n = 0 \/ n > MinPos(me.stripe)
      /\ \A p \in Positions : Oid(p) = o /\ wrote[p] # 0 => p < n
      /\ n \in Nat
  <2>1. /\ x.trim_limit # NoLimit => x.trim_limit >= MinPos(me.stripe)
        /\ (\E p \in Positions : x.entries[p] # NoEntry) =>
             x.maxpos >= MinPos(me.stripe)
        /\ \A p \in Positions : Oid(p) = o /\ wrote[p] # 0 =>
             \/ x.entries[p] # NoEntry /\ p <= x.maxpos
             \/ p <= x.trim_limit
    BY <1>5 DEF ObjectCovers
  <2> HIDE DEF o, x, me, E
  <2>2. /\ MaxPosPlus1(x) = 0 \/ MaxPosPlus1(x) > MinPos(me.stripe)
        /\ \A p \in Positions :
             \/ x.entries[p] # NoEntry /\ p <= x.maxpos
             \/ p <= x.trim_limit
             => p < MaxPosPlus1(x)
    BY <1>5, <1>6, <2>1, MaxPosCovers
  <2>3. MaxPosPlus1(x) \in PosOrEnd
    BY <1>5, MaxPosFacts DEF PosOrEnd
  <2> QED BY <2>1, <2>2, <2>3, PosOrEndFacts
<1>8. me.seed \in Nat
  BY <1>2, PosOrEndFacts DEF Opener
<1>9. seed \in Nat /\ seed \in {me.seed, n} /\ seed >= me.seed /\ seed >= n
  <2> HIDE DEF n, me
  <2> QED BY <1>7, <1>8, LargerFacts
<1> HIDE DEF o, x, n, seed, E, me, new
<1>10. ObjectStep
  BY <1>1, <1>2, NoObjectStep DEF FenceInv
<1>11. ASSUME me.cur = Len(views), NEW p \in Positions,
              Mapped(views[me.cur].inst, p)
       PROVE  /\ HasSealed(new, Oid(p)) => objs[Oid(p)].epoch > me.cur
              /\ HasMeasured(new, Oid(p)) /\ wrote[p] # 0 => p < seed
  <2>1. /\ HasSealed(me, Oid(p)) => objs[Oid(p)].epoch > me.cur
        /\ HasMeasured(me, Oid(p)) /\ wrote[p] # 0 => p < me.seed
    BY <1>1, <1>11 DEF FenceInv, OpenersFence, OpenerFence, me
  <2>2. /\ Oid(p)[1] \in Int /\ Oid(p)[2] \in Int
        /\ 0 <= Oid(p)[2] /\ Oid(p)[2] <= Width - 1
        /\ Oid(p) = <<Oid(p)[1], Oid(p)[2]>>
    BY OidFacts
  <2>3. HasSealed(new, Oid(p)) => HasSealed(me, Oid(p))
    BY <1>1, <1>3, <1>4, <2>2 DEF HasSealed
  <2>4. HasMeasured(new, Oid(p)) =>
          \/ HasMeasured(me, Oid(p))
          \/ Oid(p)[1] = me.stripe /\ Oid(p)[2] = me.idx
    BY <1>1, <1>3, <1>4, <2>2 DEF HasMeasured
  <2>5. Oid(p)[1] = me.stripe /\ Oid(p)[2] = me.idx => Oid(p) = o
    BY <2>2 DEF o
  <2>6. p \in Int
    BY PositionsNat
  <2>7. HasMeasured(me, Oid(p)) /\ wrote[p] # 0 => p < seed
    BY <1>8, <1>9, <2>1, <2>6
  <2>8. Oid(p) = o /\ wrote[p] # 0 => p < seed
    BY <1>7, <1>9, <2>6
  <2> QED BY <2>1, <2>3, <2>4, <2>5, <2>7, <2>8
<1>12. OpenerFence(opener[c])'
  <2>1. me.cur = Len(views) => me.seed = 0 \/ me.seed > MinPos(me.stripe)
    BY <1>1 DEF FenceInv, OpenersFence, OpenerFence, me
  <2>2. /\ new.pc = "seal" => seed = 0
        /\ new.pc = "propose" => seed > 0 \/ new.stripe = 0
        /\ new.pc # "seal" => new.stripe = me.stripe
        /\ new.pc \in {"seal", "maxpos", "propose"}
    BY <1>3, <1>9
  <2>3. me.cur = Len(views) => seed = 0 \/ seed > MinPos(new.stripe)
    BY <1>7, <1>9, <2>1, <2>2
  <2>4. new.cur = me.cur /\ new.seed = seed
    BY <1>3
  <2> SUFFICES ASSUME new.cur = Len(views)
               PROVE  \A p \in Positions : Mapped(views[new.cur].inst, p) =>
                        /\ HasSealed(new, Oid(p)) => objs[Oid(p)].epoch > new.cur
                        /\ HasMeasured(new, Oid(p)) /\ wrote[p] # 0 => p < new.seed
    BY <1>1, <2>2, <2>3, <2>4 DEF OpenerFence, HasSealed, HasMeasured, new
  <2> QED BY <1>11, <2>4
<1> QED BY <1>1, <1>3, <1>10, <1>12, ClientStepInv

\* The view proposed by an opener installs its sequencer above everything
\* written, on objects that are closed to all earlier views.
LEMMA ProposeSequencerStep ==
    ASSUME TypeInv, TypeInv', ViewsInv, FenceInv, NEW c \in Clients,
           ProposeSequencer(c)
    PROVE  ViewsInv' /\ FenceInv'
<1> DEFINE me == opener[c]
           old == views[me.cur]
           n == me.cur + 1
           config == [epoch |-> n, token |-> c, position |-> me.seed]
           v == [old EXCEPT !.seq = config]
<1>1. /\ me.pc = "propose" /\ n <= MaxEpoch
      /\ views' = ProposeView(views, n, v)
      /\ UNCHANGED <<objs, wrote>> /\ th' = th
  BY DEF ProposeSequencer, WithSequencer, UnchangedByOpener, history
<1>2. /\ TypeOK /\ me \in Opener /\ me.cur \in 1 .. Len(views)
      /\ me.stripe \in StripeIds /\ me.seed \in PosOrEnd
  BY <1>1, OpenerFacts
<1>3. /\ opener'[c].pc = "wait"
      /\ \A d \in Clients : d # c => opener'[d] = opener[d]
  BY <1>2 DEF TypeOK, ProposeSequencer, Opener
<1>4. /\ me.cur \in Int /\ n \in Epochs /\ me.seed \in Nat /\ me.stripe \in Nat
      /\ MinPos(me.stripe) \in Nat
  <2>1. me.cur \in Int /\ n \in Epochs
    <3>1. me.cur \in Epochs
      BY <1>2 DEF Opener
    <3> QED BY <1>1, <3>1, EpochFacts
  <2>2. me.stripe \in Nat
    BY <1>2, LayoutAssumption DEF StripeIds
  <2> QED BY <1>2, <2>1, <2>2, MinPosNat, PosOrEndFacts
<1>5. old \in View
  BY <1>2, ViewFacts
<1>6. old.inst \in Int /\ old.min_valid \in Int
  <2>1. old.inst \in 0 .. MaxStripes /\ old.min_valid \in PosOrEnd
    BY <1>5 DEF View
  <2> HIDE DEF old
  <2>2. old.inst \in Int
    BY <2>1
  <2> QED BY <2>1, <2>2, PosOrEndFacts
<1>7. config \in SeqConfig
  BY <1>2, <1>4 DEF SeqConfig
<1> HIDE DEF old, n
<1>8. /\ v \in View /\ v.inst = old.inst /\ v.min_valid = old.min_valid
      /\ v.seq.epoch = n /\ v.seq.position = me.seed
  BY <1>5, <1>7 DEF View
<1> HIDE DEF v, config
<1>9. Installs(v, me.cur)
  <2> SUFFICES ASSUME me.cur = Len(views), NEW p \in Positions, p >= me.seed
               PROVE  /\ Mapped(old.inst, p) => objs[Oid(p)].epoch > me.cur
                      /\ wrote[p] = 0
    BY <1>8 DEF Installs, n
  <2>1. OpenerFence(me)
    BY DEF FenceInv, OpenersFence
  <2>2. /\ me.seed = 0 \/ me.seed > MinPos(me.stripe)
        /\ me.seed > 0 \/ me.stripe = 0
        /\ Mapped(old.inst, p) =>
             /\ HasSealed(me, Oid(p)) => objs[Oid(p)].epoch > me.cur
             /\ HasMeasured(me, Oid(p)) /\ wrote[p] # 0 => p < me.seed
    BY <1>1, <2>1 DEF OpenerFence, old
  <2>3. p \in Nat /\ StripeOf(p) \in Nat
    BY PositionsNat, StripeOfBounds
  <2> HIDE DEF me
  <2>4. me.stripe <= StripeOf(p)
    <3>1. CASE me.stripe = 0
      BY <2>3, <3>1
    <3>2. CASE me.stripe # 0
      <4>1. MinPos(me.stripe) <= p
        BY <1>4, <2>2, <2>3, <3>2
      <4> QED BY <1>4, <2>3, <4>1, MinPosSeparates
    <3> QED BY <3>1, <3>2
  <2>5. HasSealed(me, Oid(p)) /\ HasMeasured(me, Oid(p))
    <3>1. Oid(p)[1] = StripeOf(p)
      BY OidType
    <3>2. Oid(p)[1] > me.stripe \/ Oid(p)[1] = me.stripe
      BY <1>4, <2>3, <2>4, <3>1
    <3> QED BY <1>1, <3>2 DEF HasSealed, HasMeasured
  <2>6. wrote[p] # 0 => Mapped(old.inst, p)
    BY DEF FenceInv, WroteMapped, old
  <2>7. ~(p < me.seed)
    BY <1>4, <2>3
  <2> QED BY <2>2, <2>5, <2>6, <2>7
<1>10. ProposeStep(v, me.cur)
  <2>1. v.inst >= old.inst /\ v.min_valid >= old.min_valid
    BY <1>6, <1>8
  <2> QED BY <1>1, <1>9, <2>1 DEF ProposeStep, old, n
<1>11. ThreadsFence /\ StoredInv /\ OpenersFence
  BY DEF FenceInv, StoredInv
<1>12. /\ ViewsInv' /\ StoredInv'
       /\ \A i \in 1 .. Len(views) : views'[i] = views[i]
       /\ \A d \in Clients : opener'[d] = opener[d] => OpenerFence(opener[d])'
  BY <1>2, <1>8, <1>10, <1>11, ProposeStepInv
<1>13. ThreadsFence'
  BY <1>1, <1>11, <1>12, ThreadsFenceStep
<1>14. OpenerFence(opener[c])'
  BY <1>3 DEF OpenerFence
<1>15. OpenersFence'
  BY <1>3, <1>12, <1>14 DEF OpenersFence
<1> QED BY <1>12, <1>13, <1>15 DEF FenceInv, StoredInv

\* A new operation has data and starts by reading the view.
LEMMA StartOpStep ==
    ASSUME TypeInv, TypeInv', ViewsInv, FenceInv,
           NEW t \in Threads, NEW op, NEW p, StartOp(t, op, p)
    PROVE  ViewsInv' /\ FenceInv'
<1>1. /\ UNCHANGED <<views, objs, wrote>> /\ opener' = opener
      /\ th' = [th EXCEPT ![t] = [Idle EXCEPT
                  !.pc = "view", !.op = op, !.pos = p, !.data = nops + 1,
                  !.floor = LogTail, !.seen = LogEntry(p)]]
  BY DEF StartOp
<1>2. TypeOK /\ ThreadsFence /\ StoredInv /\ OpenersFence /\ ObjectsCover
  BY DEF TypeInv, FenceInv, StoredInv
<1>3. th \in [Threads -> Thread] /\ nops \in 0 .. MaxOps
  BY <1>2 DEF TypeOK
<1>4. nops + 1 # NoEntry
  BY <1>3, MaxOpsAssumption DEF NoEntry
<1>5. th'[t].pc = "view" /\ th'[t].data # NoEntry
  BY <1>1, <1>3, <1>4 DEF Idle
<1>6. ThreadFence(th'[t])
  BY <1>5 DEF ThreadFence
<1>7. \A u \in Threads : u # t => th'[u] = th[u]
  BY <1>1, <1>3
<1>8. ThreadsFence'
  BY <1>1, <1>2, <1>6, <1>7, ThreadsFenceStep
<1>9. ObjectStep
  BY <1>1, <1>2, NoObjectStep
<1>10. StoredInv' /\ OpenersFence'
  BY <1>1, <1>2, <1>9, ObjectStepInv DEF OpenersFence
<1>11. ViewsInv'
  BY <1>1 DEF ViewsInv, ViewsMonotone
<1> QED BY <1>8, <1>10, <1>11 DEF FenceInv, StoredInv

-----------------------------------------------------------------------------
(* The theorems *)

\* A stuttering step changes nothing the invariant speaks of.
LEMMA StutterStep ==
    ASSUME ViewsInv, FenceInv, UNCHANGED vars
    PROVE  ViewsInv' /\ FenceInv'
<1>1. UNCHANGED <<views, objs, opener, th, wrote>>
  BY DEF vars, history
<1> USE <1>1
<1>2. ViewsInv'
  BY DEF ViewsInv, ViewsMonotone
<1>3. ThreadsFence'
  BY DEF FenceInv, ThreadsFence, ThreadFence
<1>4. WroteMapped'
  BY DEF FenceInv, WroteMapped
<1>5. ObjectsCover'
  BY DEF FenceInv, ObjectsCover, ObjectCovers
<1>6. SeedSealed'
  BY DEF FenceInv, SeedSealed
<1>7. OpenersFence'
  BY DEF FenceInv, OpenersFence, OpenerFence, HasSealed, HasMeasured
<1>8. TakeoverFences'
  BY DEF FenceInv, TakeoverFences
<1> QED BY <1>2, <1>3, <1>4, <1>5, <1>6, <1>7, <1>8 DEF FenceInv

\* IndInv is inductive.
LEMMA FenceNext == IndInv /\ [Next]_vars => IndInv'
<1> SUFFICES ASSUME IndInv, [Next]_vars PROVE IndInv'
  OBVIOUS
<1>1. TypeInv /\ ViewsInv /\ FenceInv
  BY DEF IndInv
<1>2. TypeInv'
  BY <1>1, TypeNext
<1> SUFFICES ViewsInv' /\ FenceInv'
  BY <1>2 DEF IndInv
<1>3. ASSUME NEW c \in Clients, ClientStep(c) \/ Crash(c)
      PROVE  ViewsInv' /\ FenceInv'
  BY <1>1, <1>2, <1>3, QuietClientStep, InitSealStep, ProposeBeginStep,
     ProposeSealStep, ProposeMaxPosStep, ProposeSequencerStep DEF ClientStep
<1>4. ASSUME NEW t \in Threads, OpStep(t) PROVE ViewsInv' /\ FenceInv'
  BY <1>1, <1>2, <1>4, OpStepInv
<1>5. CASE UserStep
  <2>1. PICK t \in Finishers, op \in OpKinds :
          IF op \in {"append", "tail"} THEN StartOp(t, op, 0)
          ELSE \E p \in OpPositions : StartOp(t, op, p)
    BY <1>5 DEF UserStep
  <2>2. t \in Threads
    BY DEF Threads
  <2>3. \E p : StartOp(t, op, p)
    BY <2>1
  <2> QED BY <1>1, <1>2, <2>2, <2>3, StartOpStep
<1>6. CASE UNCHANGED vars
  BY <1>1, <1>6, StutterStep
<1> QED BY <1>3, <1>4, <1>5, <1>6 DEF Next

\* The inductive invariant holds in every reachable state.
LEMMA IndInvAlways == Spec => []IndInv
<1>1. Init => IndInv
  BY TypeInit, FenceInit DEF IndInv
<1> QED BY <1>1, FenceNext, PTL DEF Spec

\* Only Seal changes the epoch of an object, to the one it is given.
LEMMA EpochsKept ==
    ASSUME NEW E, E \subseteq Int, NEW x \in LogObject(E), NEW e \in Int, NEW p \in Positions
    PROVE  /\ Seal(x, e).obj.epoch \in {x.epoch, e}
           /\ \A d \in Entries : Write(x, e, p, d).obj.epoch = x.epoch
           /\ Fill(x, e, p).obj.epoch = x.epoch
           /\ Trim(x, e, p).obj.epoch = x.epoch
<1>1. Seal(x, e).obj.epoch \in {x.epoch, e}
  BY DEF Seal, Result, LogObject
<1>2. ASSUME NEW d \in Entries PROVE Write(x, e, p, d).obj.epoch = x.epoch
  <2>1. Insert(x, p, d).epoch = x.epoch
    BY InsertFacts
  <2>2. Write(x, e, p, d).obj \in {x, Insert(x, p, d)}
    BY DEF Write, Result
  <2> QED BY <2>1, <2>2
<1>3. Insert(x, p, Junk).epoch = x.epoch
  BY BackendTypes, InsertFacts
<1>4. /\ Fill(x, e, p).obj \in {x, Insert(x, p, Junk)}
      /\ Trim(x, e, p).obj \in {x, Insert(x, p, Junk)}
  BY FillFacts, TrimFacts
<1> QED BY <1>1, <1>2, <1>3, <1>4

\* What a step does to the epochs of objects
SealsUpTo(n) ==
    \A o \in Oids : objs'[o].epoch = objs[o].epoch \/ objs'[o].epoch <= n

\* A step on one object
LEMMA SealsOne ==
    ASSUME TypeOK, NEW o \in Oids, NEW x, objs' = [objs EXCEPT ![o] = x], NEW n,
           x.epoch = objs[o].epoch \/ x.epoch <= n
    PROVE  SealsUpTo(n)
<1>1. objs \in [Oids -> LogObject(0 .. MaxEpoch + 1)]
  BY DEF TypeOK
<1> QED BY <1>1 DEF SealsUpTo

\* A Seal with an epoch up to n
LEMMA SealsTo ==
    ASSUME TypeOK, NEW o \in Oids, NEW n \in Int, NEW e \in Int, e <= n,
           objs' = [objs EXCEPT ![o] = Seal(objs[o], e).obj]
    PROVE  SealsUpTo(n)
<1> DEFINE x == objs[o]
<1>1. x \in LogObject(0 .. MaxEpoch + 1) /\ 0 .. MaxEpoch + 1 \subseteq Int
  BY ObjectType, EpochFacts
<1> HIDE DEF x
<1>2. Seal(x, e).obj.epoch \in {x.epoch, e}
  BY <1>1, PositionsNat, EpochsKept
<1> QED BY <1>2, SealsOne DEF x

\* An operation seals with the epoch of the view it looks at, and changes no
\* object's epoch otherwise.
LEMMA OpSeals ==
    ASSUME TypeInv, NEW t \in Threads, OpStep(t)
    PROVE  SealsUpTo(Len(views) + 1)
<1> DEFINE me == th[t]
           n == Len(views) + 1
           E == 0 .. MaxEpoch + 1
<1>1. TypeOK /\ Len(views) \in Nat /\ E \subseteq Int
  BY EpochFacts DEF TypeInv, TypeOK
<1>2. CASE UNCHANGED objs
  BY <1>2 DEF SealsUpTo
<1>3. CASE WriteIo(t) \/ FillIo(t) \/ TrimIo(t)
  <2> DEFINE o == Oid(me.pos)
             x == objs[o]
  <2>1. me.pc = "io"
    BY <1>3 DEF WriteIo, FillIo, TrimIo
  <2>2. me.pos \in Positions /\ o \in Oids /\ x \in LogObject(E) /\ me.view \in Int
    BY <2>1, PosObject
  <2>3. me.data \in Entries
    BY <1>1, ThreadFacts DEF Entries
  <2>4. \/ objs' = [objs EXCEPT ![o] = Write(x, me.view, me.pos, me.data).obj]
        \/ objs' = [objs EXCEPT ![o] = Fill(x, me.view, me.pos).obj]
        \/ objs' = [objs EXCEPT ![o] = Trim(x, me.view, me.pos).obj]
    BY <1>3 DEF WriteIo, FillIo, TrimIo
  <2> HIDE DEF me, o, x, E, n
  <2>5. /\ Write(x, me.view, me.pos, me.data).obj.epoch = x.epoch
        /\ Fill(x, me.view, me.pos).obj.epoch = x.epoch
        /\ Trim(x, me.view, me.pos).obj.epoch = x.epoch
    BY <1>1, <2>2, <2>3, EpochsKept
  <2>6. SealsUpTo(n)
    BY <1>1, <2>2, <2>4, <2>5, SealsOne DEF x
  <2> QED BY <2>6 DEF n
<1>4. CASE TrimToIo(t)
  <2> DEFINE o == <<me.stripe, me.idx>>
             x == objs[o]
             full == FullyTrimmed(me.stripe, me.idx, me.pos)
             y == TrimLimit(x, me.view, me.pos, full).obj
  <2>1. me.pc = "trim" /\ MoreToTrim(me)
    BY <1>4 DEF TrimToIo
  <2>2. ThreadValid(t, me)
    BY <2>1, ThreadRuns
  <2>3. o \in Oids /\ Target(me) = o
    BY <2>1, <2>2, TrimTarget DEF Target, ThreadValid
  <2>4. me.pos \in Positions /\ me.view \in Int
    BY <1>1, <2>1, <2>2, ThreadFacts, EpochFacts DEF ThreadValid
  <2>5. objs' = [objs EXCEPT ![o] = y] /\ x \in LogObject(E) /\ full \in BOOLEAN
    BY <1>1, <1>4, <2>3, ObjectType DEF TrimToIo, FullyTrimmed
  <2>6. y.epoch = x.epoch
    <3> HIDE DEF full, o, x
    <3> QED BY <2>4, <2>5, TrimLimitFacts, EpochFacts
  <2> HIDE DEF me, o, x, E, n, full, y
  <2>7. SealsUpTo(n)
    BY <1>1, <2>3, <2>5, <2>6, SealsOne DEF x
  <2> QED BY <2>7 DEF n
<1>5. CASE SealObject(t)
  <2> DEFINE o == Target(me)
  <2>1. me.pc = "seal" /\ objs' = [objs EXCEPT ![o] = Seal(objs[o], me.view).obj]
    BY <1>5 DEF SealObject
  <2>2. o \in Oids /\ me.view \in 1 .. Len(views)
    BY <2>1, ThreadRuns, TargetType DEF ThreadValid, HoldsView
  <2> HIDE DEF me, o
  <2>3. me.view \in Int /\ n \in Int /\ me.view <= n
    BY <1>1, <2>2
  <2> HIDE DEF n
  <2>4. SealsUpTo(n)
    BY <1>1, <2>1, <2>2, <2>3, SealsTo
  <2> QED BY <2>4 DEF n
<1>6. CASE AdvancePropose(t) \/ ExpandPropose(t)
  <2>1. UNCHANGED objs
    BY <1>6 DEF AdvancePropose, ExpandPropose
  <2> QED BY <1>2, <2>1
<1> QED BY <1>2, <1>3, <1>4, <1>5, <1>6, OpStepFrame

\* An opener seals with the epoch after its view's, the initializer with its
\* job's.
LEMMA ClientSeals ==
    ASSUME TypeInv, JobsValid, NEW c \in Clients, ClientStep(c) \/ Crash(c)
    PROVE  SealsUpTo(Len(views) + 1)
<1> DEFINE n == Len(views) + 1
<1>1. TypeOK /\ Len(views) \in Nat
  BY DEF TypeInv, TypeOK
<1>2. CASE UNCHANGED objs
  BY <1>2 DEF SealsUpTo
<1>3. CASE ProposeSeal(c)
  <2> DEFINE me == opener[c]
             o == <<me.stripe, me.idx>>
  <2>1. me.pc = "seal" /\ objs' = [objs EXCEPT ![o] = Seal(objs[o], me.cur + 1).obj]
    BY <1>3 DEF ProposeSeal
  <2>2. o \in Oids /\ me.cur \in 1 .. Len(views)
    BY <2>1, OpenerFacts
  <2> HIDE DEF me, o
  <2>3. me.cur + 1 \in Int /\ n \in Int /\ me.cur + 1 <= n
    BY <1>1, <2>2
  <2> HIDE DEF n
  <2>4. SealsUpTo(n)
    BY <1>1, <2>1, <2>2, <2>3, SealsTo
  <2> QED BY <2>4 DEF n
<1>4. CASE InitSeal(c)
  <2> DEFINE j == init_job[c]
             o == <<j.stripe, j.idx>>
  <2>1. objs' = [objs EXCEPT ![o] = Seal(objs[o], j.epoch).obj]
    BY <1>4 DEF InitSeal
  <2>2. o \in Oids /\ j.epoch \in Epochs /\ j.epoch <= Len(views)
    BY <1>1 DEF TypeOK, Job, Oids, JobsValid
  <2> HIDE DEF j, o
  <2>3. j.epoch \in Int /\ n \in Int /\ j.epoch <= n
    BY <1>1, <2>2, EpochFacts
  <2> HIDE DEF n
  <2>4. SealsUpTo(n)
    BY <1>1, <2>1, <2>2, <2>3, SealsTo
  <2> QED BY <2>4 DEF n
<1>5. CASE ~ProposeSeal(c) /\ ~InitSeal(c)
  <2>1. UNCHANGED objs
    BY <1>5 DEF ClientStep, RefreshView, Open, ProposeBegin, ProposeMaxPos, ProposeSequencer,
                ProposeRetry, OpenDone, OpenFail, InitTake, Crash, Gone
  <2> QED BY <1>2, <2>1
<1> QED BY <1>3, <1>4, <1>5

\* The history never shrinks.
LEMMA HistoryGrows ==
    ASSUME IndInv, IndInv', [Next]_vars
    PROVE  Len(views) \in Nat /\ Len(views') \in Nat /\ Len(views) <= Len(views')
<1>1. /\ TypeInv /\ TypeOK /\ ThreadsFence /\ views \in Seq(View)
      /\ Len(views) \in Nat /\ Len(views') \in Nat
  BY DEF IndInv, TypeInv, TypeOK, FenceInv
<1>2. CASE views' = views
  BY <1>1, <1>2
<1>3. ASSUME NEW v \in View, NEW cur \in 1 .. Len(views),
             views' = ProposeView(views, cur + 1, v)
      PROVE  Len(views) <= Len(views')
  BY <1>1, <1>3, ProposeFacts
<1>4. ASSUME NEW t \in Threads, OpStep(t), views' # views PROVE Len(views) <= Len(views')
  <2>1. AdvancePropose(t) \/ ExpandPropose(t)
    <3>1. WriteIo(t) \/ FillIo(t) \/ TrimIo(t) \/ TrimToIo(t) \/ SealObject(t) => views' = views
      BY DEF WriteIo, FillIo, TrimIo, TrimToIo, SealObject, history
    <3> QED BY <1>1, <1>4, <3>1, OpStepFrame
  <2>2. ThreadFence(th[t])
    BY <1>1 DEF ThreadsFence
  <2>3. PICK v \in View, cur \in 1 .. Len(views) : ProposeStep(v, cur)
    BY <1>1, <2>1, <2>2, AdvanceProposeStep, ExpandProposeStep
  <2> QED BY <1>3, <2>3 DEF ProposeStep
<1>5. ASSUME NEW c \in Clients, ProposeSequencer(c) PROVE Len(views) <= Len(views')
  <2> DEFINE me == opener[c]
             v == WithSequencer(views[me.cur], c, me.cur + 1, me.seed)
  <2>1. /\ me.pc = "propose" /\ me.cur + 1 <= MaxEpoch
        /\ views' = ProposeView(views, me.cur + 1, v)
    BY <1>5 DEF ProposeSequencer
  <2>2. me \in Opener /\ me.cur \in 1 .. Len(views) /\ me.seed \in PosOrEnd
    BY <1>1, <2>1, OpenerFacts
  <2>3. me.cur + 1 \in Epochs
    BY <1>1, <2>1, <2>2, EpochFacts DEF TypeOK
  <2>4. v \in View
    <3>1. [epoch |-> me.cur + 1, token |-> c, position |-> me.seed] \in SeqConfig
      BY <2>2, <2>3 DEF SeqConfig
    <3> QED BY <1>1, <2>2, <3>1, ViewFacts DEF View, WithSequencer
  <2> QED BY <1>3, <2>1, <2>2, <2>4
<1>6. ASSUME NEW c \in Clients, ClientStep(c) \/ Crash(c), ~ProposeSequencer(c)
      PROVE  views' = views
  BY <1>6 DEF ClientStep, RefreshView, Open, ProposeBegin, ProposeSeal, ProposeMaxPos,
              ProposeRetry, OpenDone, OpenFail, InitTake, InitSeal, Crash, Gone
<1>7. UserStep \/ UNCHANGED vars => views' = views
  BY DEF UserStep, StartOp, vars
<1> QED BY <1>1, <1>2, <1>4, <1>5, <1>6, <1>7 DEF Next

\* A job has the epoch of the view that the client has cached.
LEMMA JobsKept ==
    ASSUME TypeInv, JobsValid, [Next]_vars
    PROVE  \A c \in Clients : init_job'[c].epoch <= Len(views)
<1>1. /\ TypeOK /\ ClientsValid /\ init_job \in [Clients -> Job] /\ Len(views) \in Nat
      /\ NoJob.epoch <= Len(views)
  BY DEF TypeInv, TypeOK, NoJob
<1>2. CASE UNCHANGED init_job
  BY <1>2 DEF JobsValid
<1>3. ASSUME NEW c \in Clients, NEW j, init_job' = [init_job EXCEPT ![c] = j],
             j.epoch <= Len(views)
      PROVE  \A d \in Clients : init_job'[d].epoch <= Len(views)
  BY <1>1, <1>3 DEF JobsValid
<1>4. ASSUME NEW c \in Clients, InitTake(c)
      PROVE  \A d \in Clients : init_job'[d].epoch <= Len(views)
  <2> DEFINE new == [epoch |-> cview[c], idx |-> 0, stripe |-> StripeOf(Head(init_q[c]))]
             job == IF Mapped(views[cview[c]].inst, Head(init_q[c])) THEN new ELSE NoJob
  <2>1. init_job' = [init_job EXCEPT ![c] = job]
    BY <1>4 DEF InitTake
  <2>2. new.epoch <= Len(views)
    BY <1>1 DEF ClientsValid, ClientValid
  <2> HIDE DEF new
  <2>3. job.epoch <= Len(views)
    BY <1>1, <2>2
  <2> HIDE DEF job
  <2> QED BY <1>3, <2>1, <2>3
<1>5. ASSUME NEW c \in Clients, InitSeal(c)
      PROVE  \A d \in Clients : init_job'[d].epoch <= Len(views)
  <2> DEFINE j == init_job[c]
             job == IF j.idx = Width - 1 THEN NoJob ELSE [j EXCEPT !.idx = j.idx + 1]
  <2>1. init_job' = [init_job EXCEPT ![c] = job]
    BY <1>5 DEF InitSeal
  <2>2. j \in Job /\ j.epoch <= Len(views)
    BY <1>1 DEF JobsValid
  <2> HIDE DEF j
  <2>3. job.epoch <= Len(views)
    BY <1>1, <2>2 DEF Job
  <2> HIDE DEF job
  <2> QED BY <1>3, <2>1, <2>3
<1>6. ASSUME NEW c \in Clients, OpenFail(c) \/ Crash(c)
      PROVE  \A d \in Clients : init_job'[d].epoch <= Len(views)
  <2>1. init_job' = [init_job EXCEPT ![c] = NoJob]
    BY <1>6 DEF OpenFail, Crash, Gone
  <2> QED BY <1>1, <1>3, <2>1
<1>7. ASSUME NEW c \in Clients, ClientStep(c), ~InitTake(c), ~InitSeal(c), ~OpenFail(c)
      PROVE  UNCHANGED init_job
  BY <1>7 DEF ClientStep, RefreshView, Open, ProposeBegin, ProposeSeal, ProposeMaxPos,
              ProposeSequencer, ProposeRetry, OpenDone, UnchangedByOpener
<1>8. ASSUME NEW t \in Threads, OpStep(t) PROVE UNCHANGED init_job
  BY <1>8 DEF OpStep, SeqGetView, AppendTail, CheckTail, PosGetView, ReadIo, WriteIo, FillIo,
              TrimIo, SealObject, WaitDone, TrimToGetView, AdvanceRead, AdvancePropose,
              TrimToIo, TrimToDone, Callback, ExpandRead, ExpandPropose, ExpandWaited,
              ExpanderWake, ExpanderMap, ExpanderClear, UnchangedByOp
<1>9. UserStep \/ UNCHANGED vars => UNCHANGED init_job
  BY DEF UserStep, StartOp, vars
<1> QED BY <1>2, <1>4, <1>5, <1>6, <1>7, <1>8, <1>9 DEF Next

\* No step seals further ahead.
LEMMA AheadStep ==
    ASSUME IndInv, IndInv', JobsValid, SealedAhead, [Next]_vars
    PROVE  JobsValid' /\ SealedAhead'
<1>1. TypeInv /\ TypeOK /\ TypeOK'
  BY DEF IndInv, TypeInv
<1>2. Len(views) \in Nat /\ Len(views') \in Nat /\ Len(views) <= Len(views')
  BY HistoryGrows
<1>3. SealsUpTo(Len(views) + 1)
  <2>1. UserStep \/ UNCHANGED vars => UNCHANGED objs
    BY DEF UserStep, StartOp, vars
  <2>2. UNCHANGED objs => SealsUpTo(Len(views) + 1)
    BY DEF SealsUpTo
  <2> QED BY <1>1, <2>1, <2>2, OpSeals, ClientSeals DEF Next
<1>4. \A o \in Oids : objs'[o].epoch \in Int
  BY <1>1, EpochFacts DEF TypeOK, LogObject
<1>5. SealedAhead'
  <2> SUFFICES ASSUME NEW o \in Oids PROVE objs'[o].epoch <= Len(views') + 1
    BY DEF SealedAhead
  <2>1. objs'[o].epoch <= Len(views) + 1
    BY <1>3 DEF SealsUpTo, SealedAhead
  <2> QED BY <1>2, <1>4, <2>1
<1>6. JobsValid'
  <2> SUFFICES ASSUME NEW c \in Clients PROVE init_job'[c].epoch <= Len(views')
    BY DEF JobsValid
  <2>1. init_job'[c].epoch <= Len(views) /\ init_job'[c].epoch \in Int
    BY <1>1, JobsKept, EpochFacts DEF TypeOK, Job
  <2> QED BY <1>2, <2>1
<1> QED BY <1>5, <1>6

\* For any number of clients, threads, stripes and operations: every step keeps
\* the types, no client or thread ever uses a view that was not accepted, and
\* no object is sealed further ahead than with the epoch of the next view
\* (ViewManager, LogOp::run, propose_sequencer).
THEOREM TypeCorrect ==
    Spec => [](TypeOK /\ ClientsValid /\ ThreadsValid /\ JobsValid /\ SealedAhead)
<1>1. Init => JobsValid /\ SealedAhead
  <2> SUFFICES ASSUME Init PROVE JobsValid /\ SealedAhead
    OBVIOUS
  <2>1. Len(views) = 1 /\ (\A o \in Oids : objs[o].epoch = 0)
        /\ \A c \in Clients : init_job[c].epoch = 0
    BY DEF Init, Absent, NoJob
  <2> QED BY <2>1 DEF JobsValid, SealedAhead
<1>2. Init => IndInv
  BY TypeInit, FenceInit DEF IndInv
<1>3. ASSUME IndInv /\ JobsValid /\ SealedAhead, [Next]_vars
      PROVE  (IndInv /\ JobsValid /\ SealedAhead)'
  <2>1. IndInv'
    BY <1>3, FenceNext
  <2> QED BY <1>3, <2>1, AheadStep
<1>4. IndInv => TypeOK /\ ClientsValid /\ ThreadsValid
  BY DEF IndInv, TypeInv
<1> QED BY <1>1, <1>2, <1>3, <1>4, PTL DEF Spec

\* Along the accepted views the mapping, the minimum valid position and the
\* sequencer never go back, for any number of clients, threads and stripes:
\* ProposeView's compare-and-set makes every proposal a function of the view it
\* replaces.
THEOREM ViewsMonotonic == Spec => []ViewsMonotone
<1>1. IndInv => ViewsMonotone
  BY DEF IndInv, ViewsInv
<1> QED BY <1>1, IndInvAlways, PTL

\* A takeover fences: from the seed of a sequencer on, only it and its
\* successors ever write, whatever the number of clients, the width of stripes
\* and the interleaving of seals, appends, expansions and crashes
\* (propose_sequencer, seal_stripe, CheckEpoch).
THEOREM TakeoverSafe == Spec => []TakeoverFences
<1>1. IndInv => TakeoverFences
  BY DEF IndInv, FenceInv
<1> QED BY <1>1, IndInvAlways, PTL
==============================================================================
