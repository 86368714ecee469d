---------------------------- MODULE ObjectsProofs ----------------------------
(***************************************************************************)
(* Each backend implements ObjectSpec: what a call does to the object it   *)
(* stores is, in the terms of ObjectSpec, what the interface promises, for *)
(* any number of positions, data values, epochs and clients.               *)
(***************************************************************************)
EXTENDS Objects, FiniteSetTheorems, SequenceTheorems, WellFoundedInduction, TLAPS

-----------------------------------------------------------------------------
(* The promise of ObjectSpec as a relation between the objects before and   *)
(* after a call, and its answer; it does not depend on the backend.         *)

Obj(epoch, cells, top) == [epoch |-> epoch, cells |-> cells, top |-> top]

Turned(a, e, b, ret) ==
    /\ b = a
    /\ \/ ret = "EINVAL" /\ e = 0
       \/ ret = "ENOENT" /\ a.epoch = 0
       \/ ret = "ESPIPE" /\ e < a.epoch

Admitted(a, e) == e # 0 /\ a.epoch # 0 /\ ~(e < a.epoch)

Raised(top, p) == IF top <= p THEN p + 1 ELSE top

Puts(a, p, x, b) == b = Obj(a.epoch, [a.cells EXCEPT ![p] = x], Raised(a.top, p))

Reads(a, e, p, ret, val) ==
    /\ Admitted(a, e)
    /\ \/ a.cells[p] = 0 /\ ret = "ERANGE" /\ val = 0
       \/ a.cells[p] = -1 /\ ret = "ENODATA" /\ val = 0
       \/ a.cells[p] \notin {0, -1} /\ ret = "OK" /\ val = a.cells[p]

Writes(a, e, p, d, b, ret) ==
    /\ Admitted(a, e)
    /\ \/ a.cells[p] = 0 /\ Puts(a, p, d, b) /\ ret = "OK"
       \/ a.cells[p] # 0 /\ b = a /\ ret = "EROFS"

Fills(a, e, p, b, ret) ==
    /\ Admitted(a, e)
    /\ \/ a.cells[p] = 0 /\ Puts(a, p, -1, b) /\ ret = "OK"
       \/ a.cells[p] = -1 /\ b = a /\ ret = "OK"
       \/ a.cells[p] \in Data /\ b = a /\ ret = "EROFS"

Trims(a, e, p, b, ret) == Admitted(a, e) /\ Puts(a, p, -1, b) /\ ret = "OK"

TrimsTo(a, e, p, b, ret) ==
    /\ Admitted(a, e)
    /\ b = Obj(a.epoch, [q \in Positions |-> IF q <= p THEN -1 ELSE a.cells[q]],
               Raised(a.top, p))
    /\ ret = "OK"

Seals(a, e, b, ret) ==
    IF e = 0 THEN ret = "EINVAL" /\ b = a
    ELSE IF e <= a.epoch THEN ret = "ESPIPE" /\ b = a
    ELSE ret = "OK" /\ b = Obj(e, a.cells, a.top)

\* Whether a call can be refused for its epoch; a trim_full without trim_limit
\* and MaxPos cannot, and Seal has its own rules.
Refusable(q) ==
    \/ q.op \in {"read", "write", "fill"}
    \/ q.op = "trim" /\ (q.full => q.limit)

\* The call q, with the arguments it has, and its answer x
Promised(a, b, q, x) ==
    \/ /\ q.op = "maxpos" /\ b = a
       /\ IF a.epoch = 0 THEN x.ret = "ENOENT" /\ x.val = 0 ELSE x.ret = "OK" /\ x.val = a.top
    \/ q.op = "seal" /\ x.val = 0 /\ Seals(a, q.epoch, b, x.ret)
    \/ Refusable(q) /\ x.val = 0 /\ Turned(a, q.epoch, b, x.ret)
    \/ q.op = "read" /\ b = a /\ Reads(a, q.epoch, q.pos, x.ret, x.val)
    \/ q.op = "write" /\ x.val = 0 /\ Writes(a, q.epoch, q.pos, q.data, b, x.ret)
    \/ q.op = "fill" /\ x.val = 0 /\ Fills(a, q.epoch, q.pos, b, x.ret)
    \/ /\ q.op = "trim" /\ x.val = 0
       /\ \/ q.full /\ ~q.limit /\ x.ret = "EINVAL" /\ b = a
          \/ ~q.full /\ ~q.limit /\ Trims(a, q.epoch, q.pos, b, x.ret)
          \/ q.limit /\ TrimsTo(a, q.epoch, q.pos, b, x.ret)

RamObj == Obj(ram.epoch, RamCells, RamTop)
LmdbObj == Obj(LmdbEpoch, LmdbCells, LmdbTop)
CephObj == Obj(rados.epoch, CephCells, CephTop)

\* A promised step of the RAM backend is a step of ObjectSpec.
LEMMA RamPromised ==
    ASSUME NEW a, NEW b, NEW q, NEW x, a = RamObj, b = RamObj', q = call', x = ans'.ram,
           Promised(a, b, q, x)
    PROVE  RamSpec!Next
<1>1. /\ a.epoch = ram.epoch /\ a.cells = RamCells /\ a.top = RamTop
      /\ b.epoch = ram'.epoch /\ b.cells = RamCells' /\ b.top = RamTop'
  BY DEF RamObj, Obj
<1>2. b = a => RamSpec!obj' = RamSpec!obj
  BY <1>1 DEF RamSpec!obj
<1>3. ASSUME NEW e, Admitted(a, e) PROVE RamSpec!Accepted(e)
  BY <1>1, <1>3 DEF Admitted, RamSpec!Accepted, RamSpec!Refuses, RamSpec!Refusals
<1>4. ASSUME Turned(a, q.epoch, b, x.ret), x.val = 0
      PROVE  RamSpec!Refuse(q.epoch)
  BY <1>1, <1>2, <1>4 DEF Turned, RamSpec!Refuse, RamSpec!Refuses, RamSpec!Refusals,
       RamSpec!Answer
<1>5. ASSUME NEW p, NEW v, Puts(a, p, v, b) PROVE RamSpec!Put(p, v)
  <2>1. /\ b.epoch = a.epoch /\ b.cells = [a.cells EXCEPT ![p] = v]
        /\ b.top = IF a.top <= p THEN p + 1 ELSE a.top
    BY <1>5 DEF Puts, Obj, Raised
  <2> QED BY <1>1, <2>1 DEF RamSpec!Put, RamSpec!Raise
<1>6. CASE q.op = "maxpos"
  BY <1>1, <1>2, <1>6 DEF Promised, Refusable, RamSpec!Next, RamSpec!MaxPos, RamSpec!Called,
       RamSpec!Answer
<1>7. CASE q.op = "seal"
  <2>1. Seals(a, q.epoch, b, x.ret) /\ x.val = 0
    BY <1>7 DEF Promised, Refusable
  <2>2. RamSpec!Seal(q.epoch)
    BY <1>1, <2>1 DEF Seals, Obj, RamSpec!Seal, RamSpec!Answer
  <2> QED BY <1>7, <2>2 DEF RamSpec!Next, RamSpec!Called
<1>8. CASE Refusable(q) /\ x.val = 0 /\ Turned(a, q.epoch, b, x.ret)
  BY <1>4, <1>8 DEF Refusable, RamSpec!Next, RamSpec!Called
<1>9. CASE q.op = "read" /\ b = a /\ Reads(a, q.epoch, q.pos, x.ret, x.val)
  <2>1. RamSpec!Read(q.epoch, q.pos)
    BY <1>1, <1>2, <1>3, <1>9 DEF Reads, RamSpec!Read, RamSpec!Answer, RamSpec!Empty,
         RamSpec!Invalid
  <2> QED BY <1>9, <2>1 DEF RamSpec!Next, RamSpec!Called
<1>10. CASE q.op = "write" /\ x.val = 0 /\ Writes(a, q.epoch, q.pos, q.data, b, x.ret)
  <2>1. RamSpec!Write(q.epoch, q.pos, q.data)
    BY <1>1, <1>2, <1>3, <1>5, <1>10 DEF Writes, RamSpec!Write, RamSpec!Answer, RamSpec!Empty
  <2> QED BY <1>10, <2>1 DEF RamSpec!Next, RamSpec!Called
<1>11. CASE q.op = "fill" /\ x.val = 0 /\ Fills(a, q.epoch, q.pos, b, x.ret)
  <2>1. RamSpec!Fill(q.epoch, q.pos)
    BY <1>1, <1>2, <1>3, <1>5, <1>11 DEF Fills, RamSpec!Fill, RamSpec!Answer, RamSpec!Empty,
         RamSpec!Invalid
  <2> QED BY <1>11, <2>1 DEF RamSpec!Next, RamSpec!Called
<1>12. CASE /\ q.op = "trim" /\ ~q.full /\ ~q.limit /\ x.val = 0
            /\ Trims(a, q.epoch, q.pos, b, x.ret)
  <2>1. RamSpec!Trim(q.epoch, q.pos)
    BY <1>3, <1>5, <1>12 DEF Trims, RamSpec!Trim, RamSpec!Answer, RamSpec!Invalid
  <2> QED BY <1>12, <2>1 DEF RamSpec!Next, RamSpec!Called
<1>13. CASE q.op = "trim" /\ q.limit /\ x.val = 0 /\ TrimsTo(a, q.epoch, q.pos, b, x.ret)
  <2>1. PICK p : p = q.pos
    OBVIOUS
  <2>2. /\ b.epoch = a.epoch
        /\ b.cells = [r \in Positions |-> IF r <= p THEN -1 ELSE a.cells[r]]
        /\ b.top = IF a.top <= p THEN p + 1 ELSE a.top
    BY <1>13, <2>1 DEF TrimsTo, Obj, Raised
  <2>3. RamSpec!TrimLimit(q.epoch, p)
    BY <1>1, <1>3, <1>13, <2>1, <2>2 DEF TrimsTo, RamSpec!TrimLimit, RamSpec!Answer,
         RamSpec!Invalid, RamSpec!Raise
  <2> QED BY <1>13, <2>1, <2>3 DEF RamSpec!Next, RamSpec!Called
<1>14. CASE /\ q.op = "trim" /\ q.full /\ ~q.limit /\ x.val = 0 /\ x.ret = "EINVAL" /\ b = a
  BY <1>2, <1>14 DEF RamSpec!Next, RamSpec!Called, RamSpec!BadTrim, RamSpec!Answer
<1> QED BY <1>6, <1>7, <1>8, <1>9, <1>10, <1>11, <1>12, <1>13, <1>14 DEF Promised

-----------------------------------------------------------------------------
(* The RAM backend *)

Cells == Data \cup {0, -1}

RamObject ==
    [epoch : Epochs, entries : [Positions -> Cells], maxpos : Positions,
     trim_limit : Limits \cup {-1}]

\* An object without entries has inserted nothing that its limit does not cover.
RamOk(o) ==
    /\ o \in RamObject
    /\ (\A p \in Positions : o.entries[p] = 0) => o.maxpos = 0 \/ o.maxpos <= o.trim_limit

RamInv == RamOk(ram)

\* What the object o stands for
RamAbs(o) ==
    Obj(o.epoch, [p \in Positions |-> IF p <= o.trim_limit THEN -1 ELSE o.entries[p]],
        R!MaxPosPlus1(o))

\* The numbers a proof meets
LEMMA Numbers ==
    /\ Positions \subseteq Nat /\ Limits \subseteq Nat /\ Data \subseteq Nat \ {0}
    /\ Epochs \subseteq Nat /\ 0 \in Positions /\ 0 \in Epochs
    /\ NumPositions \in Nat \ {0}
BY ObjectsAssumption DEF Positions, Limits, Data, Epochs

\* The positions of the one object are the positions of a log with one stripe.
LEMMA RamPositions == R!Positions = Positions
BY ObjectsAssumption DEF R!Positions, R!StripeSize, Positions

\* The refinement mapping of the RAM backend, as a function of its object
LEMMA RamAbsIs == RamObj = RamAbs(ram) /\ RamObj' = RamAbs(ram')
BY DEF RamObj, RamAbs, RamCells, RamCell, RamTop, R!Trimmed

\* MaxPos in numbers
LEMMA RamTopIs ==
    ASSUME NEW o, RamOk(o)
    PROVE  /\ R!MaxPosPlus1(o) \in Nat
           /\ R!MaxPosPlus1(o) = IF \A p \in Positions : o.entries[p] = 0
                                 THEN o.trim_limit + 1
                                 ELSE IF o.maxpos < o.trim_limit THEN o.trim_limit + 1
                                      ELSE o.maxpos + 1
<1>1. o.trim_limit \in Nat \cup {-1} /\ o.maxpos \in Nat
  BY Numbers DEF RamOk, RamObject
<1> QED BY <1>1, RamPositions DEF R!MaxPosPlus1, R!Larger, R!NoEntry

\* An entry that is inserted above the limit is put.
LEMMA RamInsert ==
    ASSUME NEW o, RamOk(o), NEW p \in Positions, NEW x \in Data \cup {-1}, ~(p <= o.trim_limit)
    PROVE  RamOk(R!Insert(o, p, x)) /\ Puts(RamAbs(o), p, x, RamAbs(R!Insert(o, p, x)))
<1>1. PICK n : n = R!Insert(o, p, x)
  OBVIOUS
<1>2. /\ o.trim_limit \in Nat \cup {-1} /\ o.maxpos \in Nat /\ p \in Nat /\ o \in RamObject
      /\ o.entries \in [Positions -> Cells] /\ x \in Cells /\ x # 0
  <2>1. p \in Nat /\ x \in Cells /\ x # 0
    BY Numbers DEF Cells
  <2>2. o \in RamObject
    BY DEF RamOk
  <2>3. /\ o.trim_limit \in Limits \cup {-1} /\ o.maxpos \in Positions
        /\ o.entries \in [Positions -> Cells]
    BY <2>2 DEF RamObject
  <2> QED BY <2>1, <2>2, <2>3, Numbers
<1>3. /\ n.epoch = o.epoch /\ n.trim_limit = o.trim_limit
      /\ n.entries = [o.entries EXCEPT ![p] = x]
      /\ n.maxpos = IF o.maxpos < p THEN p ELSE o.maxpos
      /\ n \in RamObject
  BY <1>1, <1>2 DEF R!Insert, R!Larger, RamObject
<1>4. n.entries[p] # 0
  BY <1>2, <1>3
<1>5. RamOk(n)
  BY <1>3, <1>4 DEF RamOk
<1>6. [q \in Positions |-> IF q <= n.trim_limit THEN -1 ELSE n.entries[q]]
        = [[q \in Positions |-> IF q <= o.trim_limit THEN -1 ELSE o.entries[q]] EXCEPT ![p] = x]
  BY <1>2, <1>3
<1>7. R!MaxPosPlus1(n) = Raised(R!MaxPosPlus1(o), p)
  <2>1. R!MaxPosPlus1(n) = IF n.maxpos < n.trim_limit THEN n.trim_limit + 1 ELSE n.maxpos + 1
    BY <1>4, <1>5, RamTopIs
  <2>2. CASE \A q \in Positions : o.entries[q] = 0
    <3>1. R!MaxPosPlus1(o) = o.trim_limit + 1 /\ (o.maxpos = 0 \/ o.maxpos <= o.trim_limit)
      BY <2>2, RamTopIs DEF RamOk
    <3> QED BY <1>2, <1>3, <2>1, <3>1 DEF Raised
  <2>3. CASE ~\A q \in Positions : o.entries[q] = 0
    <3>1. R!MaxPosPlus1(o) = IF o.maxpos < o.trim_limit THEN o.trim_limit + 1 ELSE o.maxpos + 1
      BY <2>3, RamTopIs
    <3> QED BY <1>2, <1>3, <2>1, <3>1 DEF Raised
  <2> QED BY <2>2, <2>3
<1> QED BY <1>1, <1>3, <1>5, <1>6, <1>7 DEF Puts, RamAbs, Obj

\* A position that was used is below the maximum.
LEMMA RamUsed ==
    ASSUME NEW o, RamOk(o), NEW p \in Nat, p <= o.trim_limit
    PROVE  Raised(R!MaxPosPlus1(o), p) = R!MaxPosPlus1(o)
<1>1. o.trim_limit \in Nat \cup {-1} /\ o.maxpos \in Nat
  BY Numbers DEF RamOk, RamObject
<1> QED BY <1>1, RamTopIs DEF Raised

\* A refused call changes nothing, and is refused for a reason.
LEMMA RamRefused ==
    ASSUME NEW o, RamOk(o), NEW e \in Epochs, e # 0
    PROVE  /\ R!CheckEpoch(o, e) = "OK" => Admitted(RamAbs(o), e)
           /\ R!CheckEpoch(o, e) # "OK" =>
                 Turned(RamAbs(o), e, RamAbs(o), R!CheckEpoch(o, e))
BY DEF R!CheckEpoch, Admitted, Turned, RamAbs, Obj

\* RAMBackend::Write does what ObjectSpec promises.
LEMMA RamWrite ==
    ASSUME NEW o, RamOk(o), NEW e \in Epochs, NEW p \in Positions, NEW d \in Data, e # 0,
           NEW r, r = R!Write(o, e, p, d)
    PROVE  /\ RamOk(r.obj)
           /\ \/ Turned(RamAbs(o), e, RamAbs(r.obj), r.ret)
              \/ Writes(RamAbs(o), e, p, d, RamAbs(r.obj), r.ret)
<1>1. CASE R!CheckEpoch(o, e) # "OK"
  BY <1>1, RamRefused DEF R!Write, R!Result
<1>2. CASE R!CheckEpoch(o, e) = "OK" /\ (p <= o.trim_limit \/ o.entries[p] # 0)
  <2>1. r.ret = "EROFS" /\ r.obj = o
    BY <1>2 DEF R!Write, R!Result, R!Trimmed, R!NoEntry
  <2>2. RamAbs(o).cells[p] # 0
    BY <1>2 DEF RamAbs, Obj
  <2> QED BY <1>2, <2>1, <2>2, RamRefused DEF Writes
<1>3. CASE R!CheckEpoch(o, e) = "OK" /\ ~(p <= o.trim_limit) /\ o.entries[p] = 0
  <2>1. r.ret = "OK" /\ r.obj = R!Insert(o, p, d)
    BY <1>3 DEF R!Write, R!Result, R!Trimmed, R!NoEntry
  <2>2. RamAbs(o).cells[p] = 0
    BY <1>3 DEF RamAbs, Obj
  <2> QED BY <1>3, <2>1, <2>2, RamRefused, RamInsert DEF Writes
<1> QED BY <1>1, <1>2, <1>3

\* RAMBackend::Fill does what ObjectSpec promises.
LEMMA RamFill ==
    ASSUME NEW o, RamOk(o), NEW e \in Epochs, NEW p \in Positions, e # 0,
           NEW r, r = R!Fill(o, e, p)
    PROVE  /\ RamOk(r.obj)
           /\ \/ Turned(RamAbs(o), e, RamAbs(r.obj), r.ret)
              \/ Fills(RamAbs(o), e, p, RamAbs(r.obj), r.ret)
<1>1. CASE R!CheckEpoch(o, e) # "OK"
  BY <1>1, RamRefused DEF R!Fill, R!Result
<1>2. CASE R!CheckEpoch(o, e) = "OK" /\ (p <= o.trim_limit \/ o.entries[p] = -1)
  <2>1. r.ret = "OK" /\ r.obj = o
    BY <1>2 DEF R!Fill, R!Result, R!Trimmed, R!Junk
  <2>2. RamAbs(o).cells[p] = -1
    BY <1>2 DEF RamAbs, Obj
  <2> QED BY <1>2, <2>1, <2>2, RamRefused DEF Fills
<1>3. CASE R!CheckEpoch(o, e) = "OK" /\ ~(p <= o.trim_limit) /\ o.entries[p] = 0
  <2>1. r.ret = "OK" /\ r.obj = R!Insert(o, p, -1)
    BY <1>3 DEF R!Fill, R!Result, R!Trimmed, R!NoEntry, R!Junk
  <2>2. RamAbs(o).cells[p] = 0
    BY <1>3 DEF RamAbs, Obj
  <2> QED BY <1>3, <2>1, <2>2, RamRefused, RamInsert DEF Fills
<1>4. CASE R!CheckEpoch(o, e) = "OK" /\ ~(p <= o.trim_limit) /\ o.entries[p] \notin {0, -1}
  <2>1. r.ret = "EROFS" /\ r.obj = o
    BY <1>4 DEF R!Fill, R!Result, R!Trimmed, R!NoEntry, R!Junk
  <2>2. o.entries \in [Positions -> Cells]
    BY DEF RamOk, RamObject
  <2>3. RamAbs(o).cells[p] \in Data
    BY <1>4, <2>2 DEF RamAbs, Obj, Cells
  <2> QED BY <1>4, <2>1, <2>3, RamRefused DEF Fills
<1> QED BY <1>1, <1>2, <1>3, <1>4

\* RAMBackend::Trim of one position does what ObjectSpec promises.
LEMMA RamTrim ==
    ASSUME NEW o, RamOk(o), NEW e \in Epochs, NEW p \in Positions, e # 0,
           NEW r, r = R!Trim(o, e, p)
    PROVE  /\ RamOk(r.obj)
           /\ \/ Turned(RamAbs(o), e, RamAbs(r.obj), r.ret)
              \/ Trims(RamAbs(o), e, p, RamAbs(r.obj), r.ret)
<1>1. CASE R!CheckEpoch(o, e) # "OK"
  BY <1>1, RamRefused DEF R!Trim, R!Result
<1>2. CASE R!CheckEpoch(o, e) = "OK" /\ p <= o.trim_limit
  <2>1. r.ret = "OK" /\ r.obj = o
    BY <1>2 DEF R!Trim, R!Result, R!Trimmed
  <2>2. Puts(RamAbs(o), p, -1, RamAbs(o))
    <3>1. Raised(R!MaxPosPlus1(o), p) = R!MaxPosPlus1(o)
      BY <1>2, RamUsed, Numbers
    <3> QED BY <1>2, <3>1 DEF Puts, RamAbs, Obj
  <2> QED BY <1>2, <2>1, <2>2, RamRefused DEF Trims
<1>3. CASE R!CheckEpoch(o, e) = "OK" /\ ~(p <= o.trim_limit)
  <2>1. r.ret = "OK" /\ r.obj = R!Insert(o, p, -1)
    BY <1>3 DEF R!Trim, R!Result, R!Trimmed, R!Junk
  <2> QED BY <1>3, <2>1, RamRefused, RamInsert DEF Trims
<1> QED BY <1>1, <1>2, <1>3

\* Dropping the entries of an object that its limit covers changes nothing.
LEMMA RamTrimLimit ==
    ASSUME NEW o, RamOk(o), NEW e \in Epochs, NEW p \in Limits, e # 0,
           NEW full \in BOOLEAN, full => p >= NumPositions - 1,
           NEW r, r = R!TrimLimit(o, e, p, full)
    PROVE  /\ RamOk(r.obj)
           /\ \/ Turned(RamAbs(o), e, RamAbs(r.obj), r.ret)
              \/ TrimsTo(RamAbs(o), e, p, RamAbs(r.obj), r.ret)
<1>1. CASE R!CheckEpoch(o, e) # "OK"
  BY <1>1, RamRefused DEF R!TrimLimit, R!Result
<1>2. CASE R!CheckEpoch(o, e) = "OK"
  <2>1. PICK n : n = r.obj
    OBVIOUS
  <2>2. /\ o \in RamObject /\ p \in Nat /\ o.trim_limit \in Limits \cup {-1}
        /\ o.maxpos \in Positions /\ o.entries \in [Positions -> Cells]
    <3>1. o \in RamObject /\ p \in Nat
      BY Numbers DEF RamOk
    <3> QED BY <3>1 DEF RamObject
  <2>3. o.trim_limit \in Nat \cup {-1} /\ o.maxpos \in Nat /\ o.maxpos <= NumPositions - 1
    <3>1. o.trim_limit \in Nat \cup {-1} /\ o.maxpos \in Nat
      BY <2>2, Numbers
    <3>2. o.maxpos <= NumPositions - 1
      BY <2>2, ObjectsAssumption DEF Positions
    <3> QED BY <3>1, <3>2
  <2>4. R!Absent.entries = [q \in Positions |-> 0]
    BY RamPositions DEF R!Absent, R!NoEntry
  <2>5. [q \in Positions |-> 0] \in [Positions -> Cells]
    BY DEF Cells
  <2>6. /\ r.ret = "OK"
        /\ n.epoch = o.epoch /\ n.maxpos = o.maxpos
        /\ n.trim_limit = IF o.trim_limit < p THEN p ELSE o.trim_limit
        /\ n.entries = IF full THEN [q \in Positions |-> 0] ELSE o.entries
        /\ n \in RamObject
    <3>1. PICK lim \in Limits \cup {-1} : lim = IF o.trim_limit < p THEN p ELSE o.trim_limit
      BY <2>2
    <3>2. PICK es \in [Positions -> Cells] :
            /\ full => es = [q \in Positions |-> 0]
            /\ ~full => es = o.entries
      BY <2>2, <2>5
    <3>3. r = [ret |-> "OK", obj |-> [o EXCEPT !.trim_limit = lim, !.entries = es]]
      <4>1. CASE full
        BY <1>2, <2>4, <3>1, <3>2, <4>1 DEF R!TrimLimit, R!Result, R!Larger
      <4>2. CASE ~full
        BY <1>2, <3>1, <3>2, <4>2 DEF R!TrimLimit, R!Result, R!Larger
      <4> QED BY <4>1, <4>2
    <3>4. /\ r.ret = "OK" /\ n \in RamObject
          /\ n.epoch = o.epoch /\ n.maxpos = o.maxpos
          /\ n.trim_limit = lim /\ n.entries = es
      <4>1. r.ret = "OK" /\ n = [o EXCEPT !.trim_limit = lim, !.entries = es]
        BY <2>1, <3>3
      <4>2. n \in RamObject
        BY <2>2, <4>1 DEF RamObject
      <4>3. /\ n.epoch = o.epoch /\ n.maxpos = o.maxpos
            /\ n.trim_limit = lim /\ n.entries = es
        BY <2>2, <4>1 DEF RamObject
      <4> QED BY <4>1, <4>2, <4>3
    <3>5. n.entries = IF full THEN [q \in Positions |-> 0] ELSE o.entries
      <4>1. CASE full
        BY <3>2, <3>4, <4>1
      <4>2. CASE ~full
        BY <3>2, <3>4, <4>2
      <4> QED BY <4>1, <4>2
    <3> QED BY <3>1, <3>4, <3>5
  <2>7. RamOk(n)
    <3>1. CASE full
      <4>1. o.maxpos <= p
        BY <2>2, <2>3, <3>1, Numbers
      <4> QED BY <2>2, <2>3, <2>6, <4>1 DEF RamOk
    <3>2. CASE ~full
      BY <2>2, <2>3, <2>6, <3>2 DEF RamOk
    <3> QED BY <3>1, <3>2
  <2>8. [q \in Positions |-> IF q <= n.trim_limit THEN -1 ELSE n.entries[q]]
          = [q \in Positions |-> IF q <= p THEN -1 ELSE RamAbs(o).cells[q]]
    <3> SUFFICES ASSUME NEW q \in Positions
                 PROVE  (IF q <= n.trim_limit THEN -1 ELSE n.entries[q])
                          = (IF q <= p THEN -1 ELSE RamAbs(o).cells[q])
      OBVIOUS
    <3>1. RamAbs(o).cells[q] = IF q <= o.trim_limit THEN -1 ELSE o.entries[q]
      BY DEF RamAbs, Obj
    <3>2. q \in Nat /\ q <= NumPositions - 1
      BY Numbers DEF Positions
    <3>3. CASE full
      BY <2>2, <2>3, <2>6, <3>2, <3>3, Numbers
    <3>4. CASE ~full
      BY <2>2, <2>3, <2>6, <3>1, <3>2, <3>4
    <3> QED BY <3>3, <3>4
  <2>9. R!MaxPosPlus1(n) = Raised(R!MaxPosPlus1(o), p)
    <3>1. CASE full
      <4>1. R!MaxPosPlus1(n) = n.trim_limit + 1
        BY <2>6, <2>7, <3>1, RamTopIs
      <4> QED BY <2>2, <2>3, <2>6, <3>1, <4>1, RamTopIs, Numbers DEF Raised
    <3>2. CASE ~full
      BY <2>2, <2>3, <2>6, <2>7, <3>2, RamTopIs DEF Raised
    <3> QED BY <3>1, <3>2
  <2>10. RamAbs(n) = Obj(RamAbs(o).epoch,
                         [q \in Positions |-> IF q <= p THEN -1 ELSE RamAbs(o).cells[q]],
                         Raised(RamAbs(o).top, p))
    BY <2>6, <2>8, <2>9 DEF RamAbs, Obj
  <2> QED BY <1>2, <2>1, <2>6, <2>7, <2>10, RamRefused DEF TrimsTo
<1> QED BY <1>1, <1>2

\* RAMBackend::Seal does what ObjectSpec promises.
LEMMA RamSeal ==
    ASSUME NEW o, RamOk(o), NEW e \in Epochs, e # 0, NEW r, r = R!Seal(o, e)
    PROVE  RamOk(r.obj) /\ Seals(RamAbs(o), e, RamAbs(r.obj), r.ret)
<1>1. CASE e <= o.epoch
  BY <1>1 DEF R!Seal, R!Result, Seals, RamAbs, Obj
<1>2. CASE ~(e <= o.epoch)
  <2>1. PICK n : n = r.obj
    OBVIOUS
  <2>2. o \in RamObject
    BY DEF RamOk
  <2>3. /\ r.ret = "OK" /\ n.epoch = e /\ n.entries = o.entries /\ n.maxpos = o.maxpos
        /\ n.trim_limit = o.trim_limit /\ n \in RamObject
    BY <1>2, <2>1, <2>2 DEF R!Seal, R!Result, RamObject
  <2>4. RamOk(n)
    BY <2>3 DEF RamOk
  <2>5. RamAbs(n) = Obj(e, RamAbs(o).cells, RamAbs(o).top)
    BY <2>3 DEF RamAbs, Obj, R!MaxPosPlus1
  <2>6. RamAbs(o).epoch = o.epoch
    BY DEF RamAbs, Obj
  <2> QED BY <1>2, <2>1, <2>3, <2>4, <2>5, <2>6 DEF Seals
<1> QED BY <1>1, <1>2

\* RAMBackend::Read answers what ObjectSpec promises.
LEMMA RamRead ==
    ASSUME NEW o, RamOk(o), NEW e \in Epochs, NEW p \in Positions, e # 0,
           NEW ret, ret = R!Read(o, e, p),
           NEW val, val = IF ret = "OK" THEN o.entries[p] ELSE 0
    PROVE  \/ Turned(RamAbs(o), e, RamAbs(o), ret) /\ val = 0
           \/ Reads(RamAbs(o), e, p, ret, val)
<1>1. RamAbs(o).cells[p] = IF p <= o.trim_limit THEN -1 ELSE o.entries[p]
  BY DEF RamAbs, Obj
<1>2. CASE R!CheckEpoch(o, e) # "OK"
  <2>1. ret = R!CheckEpoch(o, e)
    BY <1>2 DEF R!Read
  <2> QED BY <1>2, <2>1, RamRefused
<1>3. CASE R!CheckEpoch(o, e) = "OK"
  BY <1>1, <1>3, RamRefused DEF R!Read, R!Trimmed, R!NoEntry, R!Junk, Reads
<1> QED BY <1>2, <1>3

\* Every step keeps the RAM object sound and is promised, or changes nothing of it.
LEMMA RamStep ==
    ASSUME RamInv, [Next]_vars
    PROVE  RamInv' /\ (RamSpec!Next \/ UNCHANGED RamSpec!vars)
<1> DEFINE x == ans'.ram
<1>1. ASSUME RamOk(ram'), Promised(RamAbs(ram), RamAbs(ram'), call', ans'.ram)
      PROVE  RamInv' /\ (RamSpec!Next \/ UNCHANGED RamSpec!vars)
  <2>1. PICK a, b, q, y : a = RamObj /\ b = RamObj' /\ q = call' /\ y = ans'.ram
    OBVIOUS
  <2>2. Promised(a, b, q, y)
    BY <1>1, <2>1, RamAbsIs
  <2> QED BY <1>1, <2>1, <2>2, RamPromised DEF RamInv
<1>2. RamOk(ram)
  BY DEF RamInv
<1>3. ASSUME ram' = ram, ans' = ans, call' = call
      PROVE  RamInv' /\ (RamSpec!Next \/ UNCHANGED RamSpec!vars)
  BY <1>3 DEF RamInv, RamSpec!vars, RamCells, RamCell, RamTop
<1>4. CASE MaxPos
  <2>1. /\ call' = Request("maxpos", 0, 0, 0, FALSE, FALSE)
        /\ ram' = ram /\ x = Value(IF ram.epoch = 0 THEN "ENOENT" ELSE "OK", R!MaxPosPlus1(ram))
    BY <1>4 DEF MaxPos, Asks, Answers
  <2>2. RamAbs(ram).epoch = ram.epoch /\ RamAbs(ram).top = R!MaxPosPlus1(ram)
    BY DEF RamAbs, Obj
  <2>3. Promised(RamAbs(ram), RamAbs(ram'), call', x)
    BY <2>1, <2>2 DEF Promised, Refusable, Request, Value
  <2> QED BY <1>1, <1>2, <2>1, <2>3
<1>5. ASSUME NEW e \in Epochs, NEW size \in OmapMaxSizes, Seal(e, size)
      PROVE  RamInv' /\ (RamSpec!Next \/ UNCHANGED RamSpec!vars)
  <2>1. PICK r : r = RamArgs(e, R!Seal(ram, e))
    OBVIOUS
  <2>2. /\ call' = Request("seal", e, 0, 0, FALSE, FALSE)
        /\ ram' = r.obj /\ x = Value(r.ret, 0)
    BY <1>5, <2>1 DEF Seal, Asks, Call, Answers
  <2>3. RamOk(r.obj) /\ Seals(RamAbs(ram), e, RamAbs(r.obj), r.ret)
    <3>1. CASE e = 0
      BY <1>2, <2>1, <3>1 DEF RamArgs, R!Result, Seals
    <3>2. CASE e # 0
      BY <1>2, <2>1, <3>2, RamSeal DEF RamArgs
    <3> QED BY <3>1, <3>2
  <2>4. Promised(RamAbs(ram), RamAbs(ram'), call', x)
    BY <2>2, <2>3 DEF Promised, Refusable, Request, Value
  <2> QED BY <1>1, <2>2, <2>3, <2>4
<1>6. ASSUME NEW e \in Epochs, NEW p \in Positions, Read(e, p)
      PROVE  RamInv' /\ (RamSpec!Next \/ UNCHANGED RamSpec!vars)
  <2>1. PICK ret : ret = IF e = 0 THEN "EINVAL" ELSE R!Read(ram, e, p)
    OBVIOUS
  <2>2. /\ call' = Request("read", e, p, 0, FALSE, FALSE)
        /\ ram' = ram /\ x = Value(ret, ram.entries[p])
    BY <1>6, <2>1 DEF Read, Asks, Answers
  <2>3. PICK val : val = IF ret = "OK" THEN ram.entries[p] ELSE 0
    OBVIOUS
  <2>4. \/ Turned(RamAbs(ram), e, RamAbs(ram), ret) /\ val = 0
        \/ Reads(RamAbs(ram), e, p, ret, val)
    <3>1. CASE e = 0
      BY <2>1, <2>3, <3>1 DEF Turned
    <3>2. CASE e # 0
      BY <1>2, <2>1, <2>3, <3>2, RamRead
    <3> QED BY <3>1, <3>2
  <2>5. x.ret = ret /\ x.val = val
    BY <2>2, <2>3 DEF Value
  <2>6. Promised(RamAbs(ram), RamAbs(ram'), call', x)
    <3> HIDE DEF x
    <3> QED BY <2>2, <2>4, <2>5 DEF Promised, Refusable, Request
  <2> QED BY <1>1, <1>2, <2>2, <2>6
<1>7. ASSUME NEW e \in Epochs, NEW p \in Positions, Fill(e, p)
      PROVE  RamInv' /\ (RamSpec!Next \/ UNCHANGED RamSpec!vars)
  <2>1. PICK r : r = RamArgs(e, R!Fill(ram, e, p))
    OBVIOUS
  <2>2. /\ call' = Request("fill", e, p, 0, FALSE, FALSE)
        /\ ram' = r.obj /\ x = Value(r.ret, 0)
    BY <1>7, <2>1 DEF Fill, Asks, Call, Answers
  <2>3. /\ RamOk(r.obj)
        /\ \/ Turned(RamAbs(ram), e, RamAbs(r.obj), r.ret)
           \/ Fills(RamAbs(ram), e, p, RamAbs(r.obj), r.ret)
    <3>1. CASE e = 0
      BY <1>2, <2>1, <3>1 DEF RamArgs, R!Result, Turned
    <3>2. CASE e # 0
      BY <1>2, <2>1, <3>2, RamFill DEF RamArgs
    <3> QED BY <3>1, <3>2
  <2>4. Promised(RamAbs(ram), RamAbs(ram'), call', x)
    BY <2>2, <2>3 DEF Promised, Refusable, Request, Value
  <2> QED BY <1>1, <2>2, <2>3, <2>4
<1>8. ASSUME NEW e \in Epochs, NEW p \in Positions, TrimOne(e, p)
      PROVE  RamInv' /\ (RamSpec!Next \/ UNCHANGED RamSpec!vars)
  <2>1. PICK r : r = RamArgs(e, R!Trim(ram, e, p))
    OBVIOUS
  <2>2. /\ call' = Request("trim", e, p, 0, FALSE, FALSE)
        /\ ram' = r.obj /\ x = Value(r.ret, 0)
    BY <1>8, <2>1 DEF TrimOne, Asks, Call, Answers
  <2>3. /\ RamOk(r.obj)
        /\ \/ Turned(RamAbs(ram), e, RamAbs(r.obj), r.ret)
           \/ Trims(RamAbs(ram), e, p, RamAbs(r.obj), r.ret)
    <3>1. CASE e = 0
      BY <1>2, <2>1, <3>1 DEF RamArgs, R!Result, Turned
    <3>2. CASE e # 0
      BY <1>2, <2>1, <3>2, RamTrim DEF RamArgs
    <3> QED BY <3>1, <3>2
  <2>4. Promised(RamAbs(ram), RamAbs(ram'), call', x)
    BY <2>2, <2>3 DEF Promised, Refusable, Request, Value
  <2> QED BY <1>1, <2>2, <2>3, <2>4
<1>9. ASSUME NEW e \in Epochs, NEW p \in Positions, BadTrim(e, p)
      PROVE  RamInv' /\ (RamSpec!Next \/ UNCHANGED RamSpec!vars)
  <2>1. /\ call' = Request("trim", e, p, 0, FALSE, TRUE)
        /\ ram' = ram /\ x = Value("EINVAL", 0)
    BY <1>9 DEF BadTrim, Asks, Call, Answers, R!Result
  <2>2. Promised(RamAbs(ram), RamAbs(ram'), call', x)
    BY <2>1 DEF Promised, Refusable, Request, Value
  <2> QED BY <1>1, <1>2, <2>1, <2>2
<1>10. ASSUME NEW e \in Epochs, NEW p \in Positions, NEW d \in Data, Write(e, p, d)
       PROVE  RamInv' /\ (RamSpec!Next \/ UNCHANGED RamSpec!vars)
  <2>1. PICK r : r = RamArgs(e, R!Write(ram, e, p, d))
    OBVIOUS
  <2>2. /\ call' = Request("write", e, p, d, FALSE, FALSE)
        /\ ram' = r.obj /\ x = Value(r.ret, 0)
    BY <1>10, <2>1 DEF Write, Asks, Call, Answers
  <2>3. /\ RamOk(r.obj)
        /\ \/ Turned(RamAbs(ram), e, RamAbs(r.obj), r.ret)
           \/ Writes(RamAbs(ram), e, p, d, RamAbs(r.obj), r.ret)
    <3>1. CASE e = 0
      BY <1>2, <2>1, <3>1 DEF RamArgs, R!Result, Turned
    <3>2. CASE e # 0
      BY <1>2, <2>1, <3>2, RamWrite DEF RamArgs
    <3> QED BY <3>1, <3>2
  <2>4. Promised(RamAbs(ram), RamAbs(ram'), call', x)
    BY <2>2, <2>3 DEF Promised, Refusable, Request, Value
  <2> QED BY <1>1, <2>2, <2>3, <2>4
<1>11. ASSUME NEW c \in Clients, NEW e \in Epochs, NEW p \in Limits, NEW full \in BOOLEAN,
              Trim(c, e, p, full)
       PROVE  RamInv' /\ (RamSpec!Next \/ UNCHANGED RamSpec!vars)
  <2>1. PICK r : r = RamArgs(e, R!TrimLimit(ram, e, p, full))
    OBVIOUS
  <2>2. /\ call' = Request("trim", e, p, 0, TRUE, full)
        /\ ram' = r.obj /\ x = Value(r.ret, 0) /\ (full => p >= NumPositions - 1)
    BY <1>11, <2>1 DEF Trim, Asks, Call, Answers
  <2>3. /\ RamOk(r.obj)
        /\ \/ Turned(RamAbs(ram), e, RamAbs(r.obj), r.ret)
           \/ TrimsTo(RamAbs(ram), e, p, RamAbs(r.obj), r.ret)
    <3>1. CASE e = 0
      BY <1>2, <2>1, <3>1 DEF RamArgs, R!Result, Turned
    <3>2. CASE e # 0
      BY <1>2, <2>1, <2>2, <3>2, RamTrimLimit DEF RamArgs
    <3> QED BY <3>1, <3>2
  <2>4. Promised(RamAbs(ram), RamAbs(ram'), call', x)
    BY <2>2, <2>3 DEF Promised, Refusable, Request, Value
  <2> QED BY <1>1, <2>2, <2>3, <2>4
<1>12. ASSUME NEW c \in Clients,
              TrimList(c) \/ TrimRemove(c) \/ TrimTruncate(c) \/ Crash(c)
       PROVE  ram' = ram /\ ans' = ans /\ call' = call
  BY <1>12 DEF TrimList, TrimRemove, TrimTruncate, Crash
<1> QED BY <1>3, <1>4, <1>5, <1>6, <1>7, <1>8, <1>9, <1>10, <1>11, <1>12 DEF Next, vars

\* The initial state of the RAM backend is sound and empty.
LEMMA RamInit ==
    ASSUME Init PROVE RamInv /\ RamSpec!Init
<1>1. PICK o : o = ram
  OBVIOUS
<1>2. /\ o = R!Absent /\ ans.ram = [ret |-> "OK", val |-> 0]
      /\ call = Request("none", 0, 0, 0, FALSE, FALSE)
  BY <1>1 DEF Init
<1>3. /\ o.epoch = 0 /\ o.maxpos = 0 /\ o.trim_limit = -1
      /\ o.entries = [p \in Positions |-> 0]
  BY <1>2, RamPositions DEF R!Absent, R!NoEntry, R!NoLimit
<1>4. o \in RamObject
  BY <1>2, RamPositions, Numbers DEF R!Absent, R!NoEntry, R!NoLimit, RamObject, Cells
<1>5. RamOk(o)
  BY <1>3, <1>4 DEF RamOk
<1>6. R!MaxPosPlus1(o) = 0
  BY <1>3, <1>5, RamTopIs
<1>7. RamCells = [p \in Positions |-> 0]
  <2> SUFFICES ASSUME NEW p \in Positions PROVE RamCell(p) = 0
    BY DEF RamCells
  <2> QED BY <1>1, <1>3, Numbers DEF RamCell, R!Trimmed
<1> QED BY <1>1, <1>2, <1>3, <1>5, <1>6, <1>7
      DEF RamInv, RamSpec!Init, RamSpec!Empty, RamTop, Request

\* The RAM backend implements the object of the storage interface: its calls
\* (ram.cc) are refused, see, write, invalidate and report what backend.h
\* promises, also after a full trim has dropped all entries.
THEOREM RamCorrect == Spec => RamImplements
<1>1. Init => RamInv /\ RamSpec!Init
  BY RamInit
<1>2. RamInv /\ [Next]_vars => RamInv' /\ [RamSpec!Next]_(RamSpec!vars)
  BY RamStep
<1> QED BY <1>1, <1>2, PTL DEF Spec, RamImplements, RamSpec!Spec

-----------------------------------------------------------------------------
(* The LMDB backend *)

\* Trim limits fit into the int64_t that LMDB keeps them in.
LimitsFit == 2 * MaxLimit < Word

\* What an entry holds
EntryCell(v) == IF v.trimmed \/ v.invalidated THEN -1 ELSE v.data
EntryOk(v) == v.trimmed \/ v.invalidated \/ v.data \in Data

\* An object that is not there has nothing; limits, maxima and entries make sense.
LmdbOk(m) ==
    /\ L!ObjKey \notin DOMAIN m =>
         /\ L!MaxPosKey \notin DOMAIN m
         /\ \A p \in Positions : L!LogEntryKey(p) \notin DOMAIN m
    /\ L!ObjKey \in DOMAIN m =>
         /\ m[L!ObjKey].epoch \in Epochs \ {0}
         /\ m[L!ObjKey].trim_limit \in Limits \cup {-1}
    /\ L!MaxPosKey \in DOMAIN m => m[L!MaxPosKey].maxpos \in Nat
    /\ \A p \in Positions :
         L!LogEntryKey(p) \in DOMAIN m => EntryOk(m[L!LogEntryKey(p)])

LmdbInv == LmdbOk(db)

CellOf(m, p) ==
    IF m[L!ObjKey].trim_limit >= 0 /\ p <= m[L!ObjKey].trim_limit THEN -1
    ELSE IF L!LogEntryKey(p) \notin DOMAIN m THEN 0
    ELSE EntryCell(m[L!LogEntryKey(p)])

\* What the key space m stands for
LmdbAbs(m) ==
    Obj(IF L!ObjKey \in DOMAIN m THEN m[L!ObjKey].epoch ELSE 0,
        [p \in Positions |-> IF L!ObjKey \in DOMAIN m THEN CellOf(m, p) ELSE 0],
        IF L!ObjKey \in DOMAIN m THEN L!MaxPosPlus1(m) ELSE 0)

\* The refinement mapping of the LMDB backend, as a function of its key space
LEMMA LmdbAbsIs == LmdbObj = LmdbAbs(db) /\ LmdbObj' = LmdbAbs(db')
BY DEF LmdbObj, LmdbAbs, LmdbEpoch, LmdbCells, LmdbCell, LmdbTop, Stored, L!Present, L!Trimmed,
       CellOf, EntryCell

\* A promised step of the LMDB backend is a step of ObjectSpec.
LEMMA LmdbPromised ==
    ASSUME NEW a, NEW b, NEW q, NEW x, a = LmdbObj, b = LmdbObj', q = call', x = ans'.lmdb,
           Promised(a, b, q, x)
    PROVE  LmdbSpec!Next
<1>1. /\ a.epoch = LmdbEpoch /\ a.cells = LmdbCells /\ a.top = LmdbTop
      /\ b.epoch = LmdbEpoch' /\ b.cells = LmdbCells' /\ b.top = LmdbTop'
  BY DEF LmdbObj, Obj
<1>2. b = a => LmdbSpec!obj' = LmdbSpec!obj
  BY <1>1 DEF LmdbSpec!obj
<1>3. ASSUME NEW e, Admitted(a, e) PROVE LmdbSpec!Accepted(e)
  BY <1>1, <1>3 DEF Admitted, LmdbSpec!Accepted, LmdbSpec!Refuses, LmdbSpec!Refusals
<1>4. ASSUME Turned(a, q.epoch, b, x.ret), x.val = 0
      PROVE  LmdbSpec!Refuse(q.epoch)
  BY <1>1, <1>2, <1>4 DEF Turned, LmdbSpec!Refuse, LmdbSpec!Refuses, LmdbSpec!Refusals,
       LmdbSpec!Answer
<1>5. ASSUME NEW p, NEW v, Puts(a, p, v, b) PROVE LmdbSpec!Put(p, v)
  <2>1. /\ b.epoch = a.epoch /\ b.cells = [a.cells EXCEPT ![p] = v]
        /\ b.top = IF a.top <= p THEN p + 1 ELSE a.top
    BY <1>5 DEF Puts, Obj, Raised
  <2> QED BY <1>1, <2>1 DEF LmdbSpec!Put, LmdbSpec!Raise
<1>6. CASE q.op = "maxpos"
  BY <1>1, <1>2, <1>6 DEF Promised, Refusable, LmdbSpec!Next, LmdbSpec!MaxPos, LmdbSpec!Called,
       LmdbSpec!Answer
<1>7. CASE q.op = "seal"
  <2>1. Seals(a, q.epoch, b, x.ret) /\ x.val = 0
    BY <1>7 DEF Promised, Refusable
  <2>2. LmdbSpec!Seal(q.epoch)
    BY <1>1, <2>1 DEF Seals, Obj, LmdbSpec!Seal, LmdbSpec!Answer
  <2> QED BY <1>7, <2>2 DEF LmdbSpec!Next, LmdbSpec!Called
<1>8. CASE Refusable(q) /\ x.val = 0 /\ Turned(a, q.epoch, b, x.ret)
  BY <1>4, <1>8 DEF Refusable, LmdbSpec!Next, LmdbSpec!Called
<1>9. CASE q.op = "read" /\ b = a /\ Reads(a, q.epoch, q.pos, x.ret, x.val)
  <2>1. LmdbSpec!Read(q.epoch, q.pos)
    BY <1>1, <1>2, <1>3, <1>9 DEF Reads, LmdbSpec!Read, LmdbSpec!Answer, LmdbSpec!Empty,
         LmdbSpec!Invalid
  <2> QED BY <1>9, <2>1 DEF LmdbSpec!Next, LmdbSpec!Called
<1>10. CASE q.op = "write" /\ x.val = 0 /\ Writes(a, q.epoch, q.pos, q.data, b, x.ret)
  <2>1. LmdbSpec!Write(q.epoch, q.pos, q.data)
    BY <1>1, <1>2, <1>3, <1>5, <1>10 DEF Writes, LmdbSpec!Write, LmdbSpec!Answer, LmdbSpec!Empty
  <2> QED BY <1>10, <2>1 DEF LmdbSpec!Next, LmdbSpec!Called
<1>11. CASE q.op = "fill" /\ x.val = 0 /\ Fills(a, q.epoch, q.pos, b, x.ret)
  <2>1. LmdbSpec!Fill(q.epoch, q.pos)
    BY <1>1, <1>2, <1>3, <1>5, <1>11 DEF Fills, LmdbSpec!Fill, LmdbSpec!Answer, LmdbSpec!Empty,
         LmdbSpec!Invalid
  <2> QED BY <1>11, <2>1 DEF LmdbSpec!Next, LmdbSpec!Called
<1>12. CASE /\ q.op = "trim" /\ ~q.full /\ ~q.limit /\ x.val = 0
            /\ Trims(a, q.epoch, q.pos, b, x.ret)
  <2>1. LmdbSpec!Trim(q.epoch, q.pos)
    BY <1>3, <1>5, <1>12 DEF Trims, LmdbSpec!Trim, LmdbSpec!Answer, LmdbSpec!Invalid
  <2> QED BY <1>12, <2>1 DEF LmdbSpec!Next, LmdbSpec!Called
<1>13. CASE q.op = "trim" /\ q.limit /\ x.val = 0 /\ TrimsTo(a, q.epoch, q.pos, b, x.ret)
  <2>1. PICK p : p = q.pos
    OBVIOUS
  <2>2. /\ b.epoch = a.epoch
        /\ b.cells = [r \in Positions |-> IF r <= p THEN -1 ELSE a.cells[r]]
        /\ b.top = IF a.top <= p THEN p + 1 ELSE a.top
    BY <1>13, <2>1 DEF TrimsTo, Obj, Raised
  <2>3. LmdbSpec!TrimLimit(q.epoch, p)
    BY <1>1, <1>3, <1>13, <2>1, <2>2 DEF TrimsTo, LmdbSpec!TrimLimit, LmdbSpec!Answer,
         LmdbSpec!Invalid, LmdbSpec!Raise
  <2> QED BY <1>13, <2>1, <2>3 DEF LmdbSpec!Next, LmdbSpec!Called
<1>14. CASE /\ q.op = "trim" /\ q.full /\ ~q.limit /\ x.val = 0 /\ x.ret = "EINVAL" /\ b = a
  BY <1>2, <1>14 DEF LmdbSpec!Next, LmdbSpec!Called, LmdbSpec!BadTrim, LmdbSpec!Answer
<1> QED BY <1>6, <1>7, <1>8, <1>9, <1>10, <1>11, <1>12, <1>13, <1>14 DEF Promised

\* The keys of the records are all different.
LEMMA LmdbKeys ==
    /\ L!ObjKey # L!MaxPosKey
    /\ \A p \in Positions : L!LogEntryKey(p) # L!ObjKey /\ L!LogEntryKey(p) # L!MaxPosKey
    /\ \A p, q \in Positions : p # q => L!LogEntryKey(p) # L!LogEntryKey(q)
    /\ L!ObjKey[1] # "entry" /\ L!MaxPosKey[1] # "entry"
    /\ \A p \in Positions : L!LogEntryKey(p)[1] = "entry"
BY DEF L!ObjKey, L!MaxPosKey, L!LogEntryKey

\* MaxPos in numbers
LEMMA LmdbTopIs ==
    ASSUME NEW m, LmdbOk(m), L!ObjKey \in DOMAIN m
    PROVE  /\ L!MaxPosPlus1(m) \in Nat
           /\ m[L!ObjKey].trim_limit \in Nat \cup {-1}
           /\ L!MaxPosKey \notin DOMAIN m => L!MaxPosPlus1(m) = m[L!ObjKey].trim_limit + 1
           /\ L!MaxPosKey \in DOMAIN m =>
                /\ m[L!MaxPosKey].maxpos \in Nat
                /\ L!MaxPosPlus1(m) = IF m[L!MaxPosKey].maxpos < m[L!ObjKey].trim_limit
                                      THEN m[L!ObjKey].trim_limit + 1
                                      ELSE m[L!MaxPosKey].maxpos + 1
<1>1. m[L!ObjKey].trim_limit \in Nat \cup {-1}
  BY Numbers DEF LmdbOk
<1>2. L!MaxPosKey \in DOMAIN m => m[L!MaxPosKey].maxpos \in Nat
  BY DEF LmdbOk
<1> QED BY <1>1, <1>2 DEF L!MaxPosPlus1, L!Present

\* n is m with the entry v at p and p counted into the maximum.
WithEntry(m, p, v, n) ==
    /\ DOMAIN n = DOMAIN m \cup {L!LogEntryKey(p), L!MaxPosKey}
    /\ n[L!LogEntryKey(p)] = v
    /\ n[L!MaxPosKey].maxpos =
         IF L!MaxPosKey \in DOMAIN m /\ ~(m[L!MaxPosKey].maxpos < p)
         THEN m[L!MaxPosKey].maxpos ELSE p
    /\ \A k \in DOMAIN m \ {L!LogEntryKey(p), L!MaxPosKey} : n[k] = m[k]

\* Write puts the entry first and then the maximum.
LEMMA EntryThenMax ==
    ASSUME NEW m, NEW p \in Positions, NEW v
    PROVE  WithEntry(m, p, v, L!UpdateMaxPos(L!Put(m, L!LogEntryKey(p), v), p))
<1>1. PICK k : k = L!LogEntryKey(p) /\ k # L!MaxPosKey
  BY LmdbKeys
<1>2. p \in Nat
  BY Numbers
<1>3. PICK n : n = L!Put(m, k, v)
  OBVIOUS
<1>4. /\ DOMAIN n = DOMAIN m \cup {k} /\ n[k] = v
      /\ \A j \in DOMAIN m \ {k} : n[j] = m[j]
  BY <1>3 DEF L!Put, L!With
<1>5. PICK o : o = L!UpdateMaxPos(n, p)
  OBVIOUS
<1>6. /\ DOMAIN o = DOMAIN n \cup {L!MaxPosKey}
      /\ \A j \in DOMAIN n \ {L!MaxPosKey} : o[j] = n[j]
      /\ o[L!MaxPosKey].maxpos =
           IF (IF L!MaxPosKey \in DOMAIN n THEN n[L!MaxPosKey].maxpos ELSE 0) < p
           THEN p ELSE (IF L!MaxPosKey \in DOMAIN n THEN n[L!MaxPosKey].maxpos ELSE 0)
  BY <1>5 DEF L!UpdateMaxPos, L!Put, L!With, L!Present
<1>7. L!MaxPosKey \in DOMAIN n <=> L!MaxPosKey \in DOMAIN m
  BY <1>1, <1>4
<1> QED BY <1>1, <1>2, <1>3, <1>4, <1>5, <1>6, <1>7 DEF WithEntry

\* Fill and Trim put them in the other order, to the same effect.
LEMMA MaxThenEntry ==
    ASSUME NEW m, NEW p \in Positions, NEW v
    PROVE  WithEntry(m, p, v, L!Put(L!UpdateMaxPos(m, p), L!LogEntryKey(p), v))
<1>1. PICK k : k = L!LogEntryKey(p) /\ k # L!MaxPosKey
  BY LmdbKeys
<1>2. p \in Nat
  BY Numbers
<1>3. PICK n : n = L!UpdateMaxPos(m, p)
  OBVIOUS
<1>4. /\ DOMAIN n = DOMAIN m \cup {L!MaxPosKey}
      /\ \A j \in DOMAIN m \ {L!MaxPosKey} : n[j] = m[j]
      /\ n[L!MaxPosKey].maxpos =
           IF (IF L!MaxPosKey \in DOMAIN m THEN m[L!MaxPosKey].maxpos ELSE 0) < p
           THEN p ELSE (IF L!MaxPosKey \in DOMAIN m THEN m[L!MaxPosKey].maxpos ELSE 0)
  BY <1>3 DEF L!UpdateMaxPos, L!Put, L!With, L!Present
<1>5. PICK o : o = L!Put(n, k, v)
  OBVIOUS
<1>6. /\ DOMAIN o = DOMAIN n \cup {k} /\ o[k] = v
      /\ \A j \in DOMAIN n \ {k} : o[j] = n[j]
  BY <1>5 DEF L!Put, L!With
<1> QED BY <1>1, <1>2, <1>3, <1>4, <1>5, <1>6 DEF WithEntry

\* An entry above the limit is put.
LEMMA LmdbPut ==
    ASSUME NEW m, LmdbOk(m), L!ObjKey \in DOMAIN m, NEW p \in Positions, ~L!Trimmed(m, p),
           NEW v, EntryOk(v), NEW x, x = EntryCell(v), NEW n, WithEntry(m, p, v, n)
    PROVE  LmdbOk(n) /\ Puts(LmdbAbs(m), p, x, LmdbAbs(n))
<1>1. L!ObjKey \in DOMAIN n /\ n[L!ObjKey] = m[L!ObjKey] /\ L!MaxPosKey \in DOMAIN n
  BY LmdbKeys DEF WithEntry
<1>2. p \in Nat /\ m[L!ObjKey].trim_limit \in Nat \cup {-1}
  BY Numbers, LmdbTopIs
<1>3. ~(p <= m[L!ObjKey].trim_limit)
  BY <1>2 DEF L!Trimmed
<1>4. n[L!MaxPosKey].maxpos \in Nat
  BY <1>2 DEF WithEntry, LmdbOk
<1>5. /\ L!LogEntryKey(p) \in DOMAIN n
      /\ EntryOk(n[L!LogEntryKey(p)]) /\ EntryCell(n[L!LogEntryKey(p)]) = x
  BY DEF WithEntry
<1>6. ASSUME NEW q \in Positions, q # p
      PROVE  /\ L!LogEntryKey(q) \in DOMAIN n <=> L!LogEntryKey(q) \in DOMAIN m
             /\ L!LogEntryKey(q) \in DOMAIN m => n[L!LogEntryKey(q)] = m[L!LogEntryKey(q)]
  BY <1>6, LmdbKeys DEF WithEntry
<1>7. LmdbOk(n)
  <2>1. ASSUME NEW q \in Positions, L!LogEntryKey(q) \in DOMAIN n
        PROVE  EntryOk(n[L!LogEntryKey(q)])
    <3>1. CASE q = p
      BY <1>5, <3>1
    <3>2. CASE q # p
      BY <1>6, <2>1, <3>2 DEF LmdbOk
    <3> QED BY <3>1, <3>2
  <2> QED BY <1>1, <1>4, <2>1 DEF LmdbOk
<1>8. CellOf(n, p) = x
  BY <1>1, <1>2, <1>3, <1>5 DEF CellOf
<1>9. ASSUME NEW q \in Positions, q # p PROVE CellOf(n, q) = CellOf(m, q)
  BY <1>1, <1>6, <1>9 DEF CellOf
<1>10. [q \in Positions |-> CellOf(n, q)] = [[q \in Positions |-> CellOf(m, q)] EXCEPT ![p] = x]
  BY <1>8, <1>9
<1>11. L!MaxPosPlus1(n) = Raised(L!MaxPosPlus1(m), p)
  <2>1. /\ n[L!MaxPosKey].maxpos =
             IF L!MaxPosKey \in DOMAIN m /\ ~(m[L!MaxPosKey].maxpos < p)
             THEN m[L!MaxPosKey].maxpos ELSE p
        /\ L!MaxPosPlus1(n) = IF n[L!MaxPosKey].maxpos < m[L!ObjKey].trim_limit
                              THEN m[L!ObjKey].trim_limit + 1 ELSE n[L!MaxPosKey].maxpos + 1
    BY <1>1, <1>7, LmdbTopIs DEF WithEntry
  <2>2. CASE L!MaxPosKey \in DOMAIN m
    BY <1>2, <1>3, <2>1, <2>2, LmdbTopIs DEF Raised
  <2>3. CASE L!MaxPosKey \notin DOMAIN m
    BY <1>2, <1>3, <2>1, <2>3, LmdbTopIs DEF Raised
  <2> QED BY <2>2, <2>3
<1> QED BY <1>1, <1>7, <1>10, <1>11 DEF Puts, LmdbAbs, Obj

\* A refused call changes nothing, and is refused for a reason.
LEMMA LmdbRefused ==
    ASSUME NEW m, LmdbOk(m), NEW e \in Epochs
    PROVE  /\ L!CheckEpoch(m, e) = "OK" => L!ObjKey \in DOMAIN m /\ Admitted(LmdbAbs(m), e)
           /\ L!CheckEpoch(m, e) # "OK" =>
                 Turned(LmdbAbs(m), e, LmdbAbs(m), L!CheckEpoch(m, e))
BY DEF L!CheckEpoch, L!Get, L!Present, LmdbOk, Admitted, Turned, LmdbAbs, Obj

\* The cell of a position of an object that is there
LEMMA LmdbCellIs ==
    ASSUME NEW m, LmdbOk(m), L!ObjKey \in DOMAIN m, NEW p \in Positions
    PROVE  /\ L!Trimmed(m, p) => LmdbAbs(m).cells[p] = -1
           /\ ~L!Trimmed(m, p) /\ L!LogEntryKey(p) \notin DOMAIN m => LmdbAbs(m).cells[p] = 0
           /\ ~L!Trimmed(m, p) /\ L!LogEntryKey(p) \in DOMAIN m =>
                /\ LmdbAbs(m).cells[p] = EntryCell(m[L!LogEntryKey(p)])
                /\ EntryOk(m[L!LogEntryKey(p)]) /\ LmdbAbs(m).cells[p] # 0
<1>1. LmdbAbs(m).cells[p] = CellOf(m, p)
  BY DEF LmdbAbs, Obj
<1>2. ASSUME NEW v, EntryOk(v) PROVE EntryCell(v) # 0
  BY <1>2, Numbers DEF EntryOk, EntryCell
<1> QED BY <1>1, <1>2 DEF CellOf, L!Trimmed, LmdbOk

\* LMDBBackend::Write does what ObjectSpec promises.
LEMMA LmdbWrite ==
    ASSUME NEW m, LmdbOk(m), NEW e \in Epochs, NEW p \in Positions, NEW d \in Data,
           NEW r, r = L!Write(m, e, p, d)
    PROVE  /\ LmdbOk(r.db)
           /\ \/ Turned(LmdbAbs(m), e, LmdbAbs(r.db), r.ret)
              \/ Writes(LmdbAbs(m), e, p, d, LmdbAbs(r.db), r.ret)
<1>1. CASE L!CheckEpoch(m, e) # "OK"
  BY <1>1, LmdbRefused DEF L!Write, L!Abort
<1>2. CASE L!CheckEpoch(m, e) = "OK" /\ (L!Trimmed(m, p) \/ L!LogEntryKey(p) \in DOMAIN m)
  <2>1. r.ret = "EROFS" /\ r.db = m
    BY <1>2 DEF L!Write, L!Abort, L!PutRet, L!Present
  <2>2. LmdbAbs(m).cells[p] # 0
    BY <1>2, LmdbRefused, LmdbCellIs
  <2> QED BY <1>2, <2>1, <2>2, LmdbRefused DEF Writes
<1>3. CASE L!CheckEpoch(m, e) = "OK" /\ ~L!Trimmed(m, p) /\ L!LogEntryKey(p) \notin DOMAIN m
  <2>1. PICK v : v = L!LogEntry(FALSE, FALSE, d)
    OBVIOUS
  <2>2. EntryCell(v) = d /\ EntryOk(v)
    BY <2>1 DEF L!LogEntry, EntryCell, EntryOk
  <2>3. r.ret = "OK" /\ r.db = L!UpdateMaxPos(L!Put(m, L!LogEntryKey(p), v), p)
    BY <1>3, <2>1 DEF L!Write, L!Commit, L!PutRet, L!Present
  <2>4. LmdbAbs(m).cells[p] = 0 /\ L!ObjKey \in DOMAIN m
    BY <1>3, LmdbRefused, LmdbCellIs
  <2>5. LmdbOk(r.db) /\ Puts(LmdbAbs(m), p, d, LmdbAbs(r.db))
    BY <1>3, <2>2, <2>3, <2>4, EntryThenMax, LmdbPut
  <2> QED BY <1>3, <2>3, <2>4, <2>5, LmdbRefused DEF Writes
<1> QED BY <1>1, <1>2, <1>3

\* Putting an invalid entry
LEMMA LmdbInvalidate ==
    ASSUME NEW m, LmdbOk(m), L!ObjKey \in DOMAIN m, NEW p \in Positions, ~L!Trimmed(m, p),
           NEW v, v.trimmed,
           NEW n, n = L!Put(L!UpdateMaxPos(m, p), L!LogEntryKey(p), v)
    PROVE  LmdbOk(n) /\ Puts(LmdbAbs(m), p, -1, LmdbAbs(n))
<1>1. EntryOk(v) /\ EntryCell(v) = -1
  BY DEF EntryOk, EntryCell
<1>2. WithEntry(m, p, v, n)
  BY MaxThenEntry
<1> QED BY <1>1, <1>2, LmdbPut

\* LMDBBackend::Fill does what ObjectSpec promises.
LEMMA LmdbFill ==
    ASSUME NEW m, LmdbOk(m), NEW e \in Epochs, NEW p \in Positions,
           NEW r, r = L!Fill(m, e, p)
    PROVE  /\ LmdbOk(r.db)
           /\ \/ Turned(LmdbAbs(m), e, LmdbAbs(r.db), r.ret)
              \/ Fills(LmdbAbs(m), e, p, LmdbAbs(r.db), r.ret)
<1>1. CASE L!CheckEpoch(m, e) # "OK"
  BY <1>1, LmdbRefused DEF L!Fill, L!Abort
<1>2. CASE L!CheckEpoch(m, e) = "OK" /\ L!Trimmed(m, p)
  <2>1. r.ret = "OK" /\ r.db = m
    BY <1>2 DEF L!Fill, L!Abort
  <2> QED BY <1>2, <2>1, LmdbRefused, LmdbCellIs DEF Fills
<1>3. CASE L!CheckEpoch(m, e) = "OK" /\ ~L!Trimmed(m, p) /\ L!LogEntryKey(p) \in DOMAIN m
  <2>1. PICK v : v = m[L!LogEntryKey(p)]
    OBVIOUS
  <2>2. LmdbAbs(m).cells[p] = EntryCell(v) /\ EntryOk(v)
    BY <1>3, <2>1, LmdbRefused, LmdbCellIs
  <2>3. r.ret = (IF v.trimmed \/ v.invalidated THEN "OK" ELSE "EROFS") /\ r.db = m
    BY <1>3, <2>1 DEF L!Fill, L!Abort, L!Present
  <2>4. CASE v.trimmed \/ v.invalidated
    <3>1. EntryCell(v) = -1 /\ r.ret = "OK"
      BY <2>3, <2>4 DEF EntryCell
    <3> QED BY <1>3, <2>2, <2>3, <3>1, LmdbRefused DEF Fills
  <2>5. CASE ~(v.trimmed \/ v.invalidated)
    <3>1. EntryCell(v) \in Data /\ r.ret = "EROFS"
      BY <2>2, <2>3, <2>5 DEF EntryOk, EntryCell
    <3> QED BY <1>3, <2>2, <2>3, <3>1, LmdbRefused DEF Fills
  <2> QED BY <2>4, <2>5
<1>4. CASE L!CheckEpoch(m, e) = "OK" /\ ~L!Trimmed(m, p) /\ L!LogEntryKey(p) \notin DOMAIN m
  <2>1. PICK v : v = L!LogEntry(TRUE, TRUE, L!NoData)
    OBVIOUS
  <2>2. v.trimmed
    BY <2>1 DEF L!LogEntry
  <2>3. r.ret = "OK" /\ r.db = L!Put(L!UpdateMaxPos(m, p), L!LogEntryKey(p), v)
    BY <1>4, <2>1 DEF L!Fill, L!Commit, L!Present
  <2>4. LmdbOk(r.db) /\ Puts(LmdbAbs(m), p, -1, LmdbAbs(r.db))
    BY <1>4, <2>2, <2>3, LmdbRefused, LmdbInvalidate
  <2>5. LmdbAbs(m).cells[p] = 0
    BY <1>4, LmdbRefused, LmdbCellIs
  <2> QED BY <1>4, <2>3, <2>4, <2>5, LmdbRefused DEF Fills
<1> QED BY <1>1, <1>2, <1>3, <1>4

\* LMDBBackend::Trim of one position does what ObjectSpec promises.
LEMMA LmdbTrim ==
    ASSUME NEW m, LmdbOk(m), NEW e \in Epochs, NEW p \in Positions,
           NEW r, r = L!Trim(m, e, p, FALSE, FALSE)
    PROVE  /\ LmdbOk(r.db)
           /\ \/ Turned(LmdbAbs(m), e, LmdbAbs(r.db), r.ret)
              \/ Trims(LmdbAbs(m), e, p, LmdbAbs(r.db), r.ret)
<1>1. CASE L!CheckEpoch(m, e) # "OK"
  BY <1>1, LmdbRefused DEF L!Trim, L!Abort
<1>2. CASE L!CheckEpoch(m, e) = "OK" /\ L!Trimmed(m, p)
  <2>1. r.ret = "OK" /\ r.db = m
    BY <1>2 DEF L!Trim, L!Commit
  <2>2. Puts(LmdbAbs(m), p, -1, LmdbAbs(m))
    <3>1. L!ObjKey \in DOMAIN m /\ p \in Nat /\ p <= m[L!ObjKey].trim_limit
      BY <1>2, LmdbRefused, Numbers DEF L!Trimmed
    <3>2. Raised(L!MaxPosPlus1(m), p) = L!MaxPosPlus1(m)
      BY <3>1, LmdbTopIs DEF Raised
    <3>3. LmdbAbs(m).cells[p] = -1
      BY <1>2, <3>1, LmdbCellIs
    <3> QED BY <3>1, <3>2, <3>3 DEF Puts, LmdbAbs, Obj
  <2> QED BY <1>2, <2>1, <2>2, LmdbRefused DEF Trims
<1>3. CASE L!CheckEpoch(m, e) = "OK" /\ ~L!Trimmed(m, p)
  <2>1. r.ret = "OK" /\ r.db = L!TrimEntry(m, p)
    BY <1>3 DEF L!Trim, L!Commit
  <2>2. PICK inv : L!TrimEntry(m, p) = L!Put(L!UpdateMaxPos(m, p), L!LogEntryKey(p),
                                             L!LogEntry(TRUE, inv, L!NoData))
    BY Zenon DEF L!TrimEntry
  <2>3. PICK v : v = L!LogEntry(TRUE, inv, L!NoData)
    OBVIOUS
  <2>4. v.trimmed
    BY <2>3 DEF L!LogEntry
  <2> QED BY <1>3, <2>1, <2>2, <2>3, <2>4, LmdbRefused, LmdbInvalidate DEF Trims
<1> QED BY <1>1, <1>2, <1>3

\* n is m with the limit advanced to p; entries it covers may be gone.
WithLimit(m, p, n) ==
    /\ L!ObjKey \in DOMAIN n /\ n[L!ObjKey].epoch = m[L!ObjKey].epoch
    /\ n[L!ObjKey].trim_limit =
         IF p < m[L!ObjKey].trim_limit THEN m[L!ObjKey].trim_limit ELSE p
    /\ L!MaxPosKey \in DOMAIN n <=> L!MaxPosKey \in DOMAIN m
    /\ L!MaxPosKey \in DOMAIN m => n[L!MaxPosKey] = m[L!MaxPosKey]
    /\ \A q \in Positions : L!LogEntryKey(q) \in DOMAIN n =>
         L!LogEntryKey(q) \in DOMAIN m /\ n[L!LogEntryKey(q)] = m[L!LogEntryKey(q)]
    /\ \A q \in Positions : L!LogEntryKey(q) \in DOMAIN m /\ ~(q <= p) =>
         L!LogEntryKey(q) \in DOMAIN n

\* Advancing the limit invalidates what it covers, also when the entries are gone.
LEMMA LmdbLimited ==
    ASSUME NEW m, LmdbOk(m), L!ObjKey \in DOMAIN m, NEW p \in Limits, NEW n, WithLimit(m, p, n)
    PROVE  /\ LmdbOk(n)
           /\ LmdbAbs(n) = Obj(LmdbAbs(m).epoch,
                [q \in Positions |-> IF q <= p THEN -1 ELSE LmdbAbs(m).cells[q]],
                Raised(LmdbAbs(m).top, p))
<1>1. /\ p \in Nat /\ m[L!ObjKey].trim_limit \in Nat \cup {-1}
      /\ m[L!ObjKey].trim_limit \in Limits \cup {-1}
  BY Numbers, LmdbTopIs DEF LmdbOk
<1>2. /\ L!ObjKey \in DOMAIN n /\ n[L!ObjKey].epoch = m[L!ObjKey].epoch
      /\ n[L!ObjKey].trim_limit =
           IF p < m[L!ObjKey].trim_limit THEN m[L!ObjKey].trim_limit ELSE p
  BY DEF WithLimit
<1>3. LmdbOk(n)
  BY <1>1, <1>2 DEF LmdbOk, WithLimit
<1>4. ASSUME NEW q \in Positions
      PROVE  CellOf(n, q) = IF q <= p THEN -1 ELSE CellOf(m, q)
  <2>1. q \in Nat
    BY Numbers
  <2>2. CASE q <= p
    BY <1>1, <1>2, <2>1, <2>2 DEF CellOf
  <2>3. CASE ~(q <= p)
    <3>1. /\ L!LogEntryKey(q) \in DOMAIN n <=> L!LogEntryKey(q) \in DOMAIN m
          /\ L!LogEntryKey(q) \in DOMAIN m => n[L!LogEntryKey(q)] = m[L!LogEntryKey(q)]
      BY <2>3 DEF WithLimit
    <3>2. /\ q <= n[L!ObjKey].trim_limit <=> q <= m[L!ObjKey].trim_limit
          /\ n[L!ObjKey].trim_limit >= 0
          /\ q <= m[L!ObjKey].trim_limit => m[L!ObjKey].trim_limit >= 0
      BY <1>1, <1>2, <2>1, <2>3
    <3> QED BY <2>3, <3>1, <3>2 DEF CellOf
  <2> QED BY <2>2, <2>3
<1>5. L!MaxPosPlus1(n) = Raised(L!MaxPosPlus1(m), p)
  <2>1. CASE L!MaxPosKey \in DOMAIN m
    <3>1. L!MaxPosKey \in DOMAIN n /\ n[L!MaxPosKey] = m[L!MaxPosKey]
      BY <2>1 DEF WithLimit
    <3> QED BY <1>1, <1>2, <1>3, <2>1, <3>1, LmdbTopIs DEF Raised
  <2>2. CASE L!MaxPosKey \notin DOMAIN m
    <3>1. L!MaxPosKey \notin DOMAIN n
      BY <2>2 DEF WithLimit
    <3> QED BY <1>1, <1>2, <1>3, <2>2, <3>1, LmdbTopIs DEF Raised
  <2> QED BY <2>1, <2>2
<1>6. /\ LmdbAbs(m).epoch = m[L!ObjKey].epoch /\ LmdbAbs(m).top = L!MaxPosPlus1(m)
      /\ \A q \in Positions : LmdbAbs(m).cells[q] = CellOf(m, q)
  BY DEF LmdbAbs, Obj
<1>7. [q \in Positions |-> IF L!ObjKey \in DOMAIN n THEN CellOf(n, q) ELSE 0]
        = [q \in Positions |-> IF q <= p THEN -1 ELSE LmdbAbs(m).cells[q]]
  BY <1>2, <1>4, <1>6
<1>8. LmdbAbs(n) = Obj(n[L!ObjKey].epoch,
        [q \in Positions |-> IF L!ObjKey \in DOMAIN n THEN CellOf(n, q) ELSE 0],
        L!MaxPosPlus1(n))
  BY <1>2 DEF LmdbAbs
<1> QED BY <1>2, <1>3, <1>5, <1>6, <1>7, <1>8

\* A range trim that is let in advances the limit and adds no entries.
LEMMA LmdbRange ==
    ASSUME LimitsFit, NEW m, LmdbOk(m), NEW e \in Epochs, NEW p \in Limits,
           NEW full \in BOOLEAN, full => p >= NumPositions - 1,
           NEW r, r = L!Trim(m, e, p, TRUE, full), L!CheckEpoch(m, e) = "OK"
    PROVE  /\ r.ret = "OK" /\ L!ObjKey \in DOMAIN m /\ WithLimit(m, p, r.db)
           /\ L!GetAll(r.db, "entry") \subseteq L!GetAll(m, "entry")
<1>1. L!ObjKey \in DOMAIN m
  BY LmdbRefused
<1>2. /\ p \in Nat /\ m[L!ObjKey].trim_limit \in Nat \cup {-1}
      /\ m[L!ObjKey].trim_limit \in Limits \cup {-1}
  BY <1>1, Numbers, LmdbTopIs DEF LmdbOk
<1>3. PICK lim : lim = IF p < m[L!ObjKey].trim_limit THEN m[L!ObjKey].trim_limit ELSE p
  OBVIOUS
<1>4. lim \in Nat /\ 2 * lim < Word /\ p <= lim
  BY <1>2, <1>3, ObjectsAssumption DEF LimitsFit, Limits
<1>5. PICK txn : txn = L!AdvanceLimit(m, p)
  OBVIOUS
<1>6. txn = L!With(m, L!ObjKey, L!LogObject(m[L!ObjKey].epoch, lim))
  BY <1>2, <1>3, <1>4, <1>5 DEF L!AdvanceLimit, L!Put, L!ToInt64
<1>7. /\ DOMAIN txn = DOMAIN m
      /\ txn[L!ObjKey].epoch = m[L!ObjKey].epoch /\ txn[L!ObjKey].trim_limit = lim
      /\ \A k \in DOMAIN m \ {L!ObjKey} : txn[k] = m[k]
  BY <1>1, <1>6 DEF L!With, L!LogObject
<1>8. L!Trimmed(txn, p)
  BY <1>2, <1>4, <1>7 DEF L!Trimmed
<1>9. /\ r.ret = "OK" /\ WithLimit(m, p, r.db)
      /\ L!GetAll(r.db, "entry") \subseteq L!GetAll(m, "entry")
  <2>1. CASE ~full
    <3>1. r.ret = "OK" /\ r.db = txn
      BY <1>5, <1>8, <2>1 DEF L!Trim, L!Commit
    <3>2. WithLimit(m, p, txn)
      BY <1>1, <1>3, <1>7, LmdbKeys DEF WithLimit
    <3>3. L!GetAll(txn, "entry") = L!GetAll(m, "entry")
      BY <1>7 DEF L!GetAll
    <3> QED BY <2>1, <3>1, <3>2, <3>3
  <2>2. CASE full
    <3>1. r.ret = "OK" /\ r.db = L!Delete(txn, L!GetAll(txn, "entry"))
      BY <1>5, <2>2 DEF L!Trim, L!Commit
    <3>2. PICK n : n = r.db
      OBVIOUS
    <3>3. /\ DOMAIN n = {k \in DOMAIN m : k[1] # "entry"}
          /\ \A k \in DOMAIN n : n[k] = txn[k]
      BY <1>7, <3>1, <3>2 DEF L!Delete, L!GetAll
    <3>4. \A q \in Positions : q <= p
      BY <1>2, <2>2, ObjectsAssumption DEF Positions
    <3>5. WithLimit(m, p, n)
      BY <1>1, <1>3, <1>7, <3>3, <3>4, LmdbKeys DEF WithLimit
    <3>6. L!GetAll(n, "entry") = {}
      BY <3>3 DEF L!GetAll
    <3> QED BY <3>1, <3>2, <3>5, <3>6
  <2> QED BY <2>1, <2>2
<1> QED BY <1>1, <1>9

\* A full one leaves none.
LEMMA LmdbFull ==
    ASSUME NEW m, NEW e \in Epochs, NEW p \in Limits,
           NEW r, r = L!Trim(m, e, p, TRUE, TRUE), r.ret = "OK"
    PROVE  L!GetAll(r.db, "entry") = {}
<1>1. CASE L!CheckEpoch(m, e) # "OK"
  <2>1. r.ret = L!CheckEpoch(m, e)
    BY <1>1 DEF L!Trim, L!Abort
  <2> QED BY <1>1, <2>1
<1>2. CASE L!CheckEpoch(m, e) = "OK"
  <2>1. PICK txn : txn = L!AdvanceLimit(m, p)
    OBVIOUS
  <2>2. r.db = L!Delete(txn, L!GetAll(txn, "entry"))
    BY <1>2, <2>1 DEF L!Trim, L!Commit
  <2> QED BY <2>2 DEF L!Delete, L!GetAll
<1> QED BY <1>1, <1>2

\* Trim with trim_limit does what ObjectSpec promises.
LEMMA LmdbTrimLimit ==
    ASSUME LimitsFit, NEW m, LmdbOk(m), NEW e \in Epochs, NEW p \in Limits,
           NEW full \in BOOLEAN, full => p >= NumPositions - 1,
           NEW r, r = L!Trim(m, e, p, TRUE, full)
    PROVE  /\ LmdbOk(r.db)
           /\ \/ Turned(LmdbAbs(m), e, LmdbAbs(r.db), r.ret)
              \/ TrimsTo(LmdbAbs(m), e, p, LmdbAbs(r.db), r.ret)
<1>1. CASE L!CheckEpoch(m, e) # "OK"
  <2>1. r.ret = L!CheckEpoch(m, e) /\ r.db = m
    BY <1>1 DEF L!Trim, L!Abort
  <2> QED BY <1>1, <2>1, LmdbRefused
<1>2. CASE L!CheckEpoch(m, e) = "OK"
  <2>1. L!ObjKey \in DOMAIN m /\ Admitted(LmdbAbs(m), e)
    BY <1>2, LmdbRefused
  <2>2. r.ret = "OK" /\ WithLimit(m, p, r.db)
    BY <1>2, LmdbRange
  <2> QED BY <2>1, <2>2, LmdbLimited DEF TrimsTo
<1> QED BY <1>1, <1>2

\* LMDBBackend::Seal does what ObjectSpec promises.
LEMMA LmdbSeal ==
    ASSUME NEW m, LmdbOk(m), NEW e \in Epochs, NEW r, r = L!Seal(m, e)
    PROVE  LmdbOk(r.db) /\ Seals(LmdbAbs(m), e, LmdbAbs(r.db), r.ret)
<1>1. LmdbAbs(m).epoch = IF L!ObjKey \in DOMAIN m THEN m[L!ObjKey].epoch ELSE 0
  BY DEF LmdbAbs, Obj
<1>2. e \in Nat
  BY Numbers
<1>3. CASE e = 0
  BY <1>3 DEF L!Seal, L!Abort, Seals
<1>4. CASE e # 0 /\ e <= LmdbAbs(m).epoch
  <2>1. L!ObjKey \in DOMAIN m
    BY <1>1, <1>2, <1>4
  <2> QED BY <1>1, <1>4, <2>1 DEF L!Seal, L!Abort, L!Present, Seals
<1>5. CASE e # 0 /\ ~(e <= LmdbAbs(m).epoch)
  <2>1. PICK lim : lim = IF L!ObjKey \in DOMAIN m THEN m[L!ObjKey].trim_limit ELSE -1
    OBVIOUS
  <2>2. PICK n : n = L!With(m, L!ObjKey, L!LogObject(e, lim))
    OBVIOUS
  <2>3. r.ret = "OK" /\ r.db = n
    BY <1>1, <1>5, <2>1, <2>2 DEF L!Seal, L!Commit, L!Present, L!Put, L!NoLimit
  <2>4. /\ DOMAIN n = DOMAIN m \cup {L!ObjKey}
        /\ n[L!ObjKey].epoch = e /\ n[L!ObjKey].trim_limit = lim
        /\ \A k \in DOMAIN m \ {L!ObjKey} : n[k] = m[k]
    BY <2>2 DEF L!With, L!LogObject
  <2>5. lim \in Limits \cup {-1}
    BY <2>1 DEF LmdbOk
  <2>6. /\ L!MaxPosKey \in DOMAIN n <=> L!MaxPosKey \in DOMAIN m
        /\ L!MaxPosKey \in DOMAIN m => n[L!MaxPosKey] = m[L!MaxPosKey]
        /\ \A q \in Positions :
             /\ L!LogEntryKey(q) \in DOMAIN n <=> L!LogEntryKey(q) \in DOMAIN m
             /\ L!LogEntryKey(q) \in DOMAIN m => n[L!LogEntryKey(q)] = m[L!LogEntryKey(q)]
    BY <2>4, LmdbKeys
  <2>7. LmdbOk(n)
    BY <1>5, <2>4, <2>5, <2>6 DEF LmdbOk
  <2>8. LmdbAbs(n) = Obj(e, LmdbAbs(m).cells, LmdbAbs(m).top)
    <3>1. CASE L!ObjKey \in DOMAIN m
      <4>1. \A q \in Positions : CellOf(n, q) = CellOf(m, q)
        BY <2>1, <2>4, <2>6, <3>1 DEF CellOf
      <4>2. L!MaxPosPlus1(n) = L!MaxPosPlus1(m)
        BY <2>1, <2>4, <2>6, <3>1 DEF L!MaxPosPlus1, L!Present
      <4> QED BY <2>4, <3>1, <4>1, <4>2 DEF LmdbAbs, Obj
    <3>2. CASE L!ObjKey \notin DOMAIN m
      <4>1. lim = -1 /\ L!MaxPosKey \notin DOMAIN n
            /\ \A q \in Positions : L!LogEntryKey(q) \notin DOMAIN n
        BY <2>1, <2>6, <3>2 DEF LmdbOk
      <4>2. \A q \in Positions : CellOf(n, q) = 0
        BY <2>4, <4>1 DEF CellOf
      <4>3. L!MaxPosPlus1(n) = 0
        BY <2>4, <4>1 DEF L!MaxPosPlus1, L!Present
      <4> QED BY <2>4, <3>2, <4>2, <4>3 DEF LmdbAbs, Obj
    <3> QED BY <3>1, <3>2
  <2> QED BY <1>5, <2>3, <2>7, <2>8 DEF Seals
<1> QED BY <1>3, <1>4, <1>5

\* LMDBBackend::Read answers what ObjectSpec promises.
LEMMA LmdbRead ==
    ASSUME NEW m, LmdbOk(m), NEW e \in Epochs, NEW p \in Positions,
           NEW ret, ret = L!Read(m, e, p),
           NEW val, val = IF ret = "OK" THEN m[L!LogEntryKey(p)].data ELSE 0
    PROVE  \/ Turned(LmdbAbs(m), e, LmdbAbs(m), ret) /\ val = 0
           \/ Reads(LmdbAbs(m), e, p, ret, val)
<1>1. CASE L!CheckEpoch(m, e) # "OK"
  <2>1. ret = L!CheckEpoch(m, e)
    BY <1>1 DEF L!Read
  <2> QED BY <1>1, <2>1, LmdbRefused
<1>2. CASE L!CheckEpoch(m, e) = "OK"
  <2>1. L!ObjKey \in DOMAIN m /\ Admitted(LmdbAbs(m), e)
    BY <1>2, LmdbRefused
  <2>2. PICK v : v = m[L!LogEntryKey(p)]
    OBVIOUS
  <2>3. CASE L!Trimmed(m, p) \/ L!LogEntryKey(p) \notin DOMAIN m
    BY <1>2, <2>1, <2>3, LmdbCellIs DEF L!Read, L!Get, L!Present, Reads
  <2>4. CASE ~L!Trimmed(m, p) /\ L!LogEntryKey(p) \in DOMAIN m /\ (v.trimmed \/ v.invalidated)
    <3>1. ret = "ENODATA"
      BY <1>2, <2>2, <2>4 DEF L!Read, L!Get, L!Present
    <3>2. LmdbAbs(m).cells[p] = -1
      BY <2>1, <2>2, <2>4, LmdbCellIs DEF EntryCell
    <3> QED BY <2>1, <3>1, <3>2 DEF Reads
  <2>5. CASE ~L!Trimmed(m, p) /\ L!LogEntryKey(p) \in DOMAIN m /\ ~(v.trimmed \/ v.invalidated)
    <3>1. ret = "OK" /\ val = v.data
      BY <1>2, <2>2, <2>5 DEF L!Read, L!Get, L!Present
    <3>2. LmdbAbs(m).cells[p] = v.data /\ v.data \in Data
      BY <2>1, <2>2, <2>5, LmdbCellIs DEF EntryCell, EntryOk
    <3> QED BY <2>1, <3>1, <3>2, Numbers DEF Reads
  <2> QED BY <2>3, <2>4, <2>5
<1> QED BY <1>1, <1>2

\* Every step keeps the LMDB object sound and is promised, or changes nothing of it.
LEMMA LmdbStep ==
    ASSUME LimitsFit, LmdbInv, [Next]_vars
    PROVE  LmdbInv' /\ (LmdbSpec!Next \/ UNCHANGED LmdbSpec!vars)
<1> DEFINE x == ans'.lmdb
<1>1. ASSUME LmdbOk(db'), Promised(LmdbAbs(db), LmdbAbs(db'), call', ans'.lmdb)
      PROVE  LmdbInv' /\ (LmdbSpec!Next \/ UNCHANGED LmdbSpec!vars)
  <2>1. PICK a, b, q, y : a = LmdbObj /\ b = LmdbObj' /\ q = call' /\ y = ans'.lmdb
    OBVIOUS
  <2>2. Promised(a, b, q, y)
    BY <1>1, <2>1, LmdbAbsIs
  <2> QED BY <1>1, <2>1, <2>2, LmdbPromised DEF LmdbInv
<1>2. LmdbOk(db)
  BY DEF LmdbInv
<1>3. ASSUME db' = db, ans' = ans, call' = call
      PROVE  LmdbInv' /\ (LmdbSpec!Next \/ UNCHANGED LmdbSpec!vars)
  BY <1>3 DEF LmdbInv, LmdbSpec!vars, LmdbEpoch, LmdbCells, LmdbCell, LmdbTop, Stored
<1>4. CASE MaxPos
  <2>1. /\ db' = db
        /\ call' = Request("maxpos", 0, 0, 0, FALSE, FALSE)
        /\ x = Value(L!Get(db, L!ObjKey),
                     IF L!Present(db, L!ObjKey) THEN L!MaxPosPlus1(db) ELSE 0)
    BY <1>4 DEF MaxPos, Asks, Answers
  <2>2. /\ LmdbAbs(db).epoch = 0 <=> L!ObjKey \notin DOMAIN db
        /\ L!ObjKey \in DOMAIN db => LmdbAbs(db).top = L!MaxPosPlus1(db)
    BY <1>2 DEF LmdbAbs, Obj, LmdbOk
  <2>3. Promised(LmdbAbs(db), LmdbAbs(db'), call', x)
    BY <2>1, <2>2 DEF Promised, Refusable, Request, Value, L!Get, L!Present
  <2> QED BY <1>1, <1>2, <2>1, <2>3
<1>5. ASSUME NEW e \in Epochs, NEW size \in OmapMaxSizes, Seal(e, size)
      PROVE  LmdbInv' /\ (LmdbSpec!Next \/ UNCHANGED LmdbSpec!vars)
  <2>1. PICK r : r = L!Seal(db, e)
    OBVIOUS
  <2>2. /\ call' = Request("seal", e, 0, 0, FALSE, FALSE)
        /\ db' = r.db /\ x = Value(r.ret, 0)
    BY <1>5, <2>1 DEF Seal, Asks, Call, Answers
  <2>3. LmdbOk(r.db) /\ Seals(LmdbAbs(db), e, LmdbAbs(r.db), r.ret)
    BY <1>2, <2>1, LmdbSeal
  <2>4. Promised(LmdbAbs(db), LmdbAbs(db'), call', x)
    BY <2>2, <2>3 DEF Promised, Refusable, Request, Value
  <2> QED BY <1>1, <2>2, <2>3, <2>4
<1>6. ASSUME NEW e \in Epochs, NEW p \in Positions, Read(e, p)
      PROVE  LmdbInv' /\ (LmdbSpec!Next \/ UNCHANGED LmdbSpec!vars)
  <2>1. PICK ret : ret = L!Read(db, e, p)
    OBVIOUS
  <2>2. /\ db' = db
        /\ call' = Request("read", e, p, 0, FALSE, FALSE)
        /\ x = Value(ret, IF ret = "OK" THEN db[L!LogEntryKey(p)].data ELSE 0)
    BY <1>6, <2>1 DEF Read, Asks, Answers
  <2>3. PICK val : val = IF ret = "OK" THEN db[L!LogEntryKey(p)].data ELSE 0
    OBVIOUS
  <2>4. \/ Turned(LmdbAbs(db), e, LmdbAbs(db), ret) /\ val = 0
        \/ Reads(LmdbAbs(db), e, p, ret, val)
    BY <1>2, <2>1, <2>3, LmdbRead
  <2>5. x.ret = ret /\ x.val = val
    BY <2>2, <2>3 DEF Value
  <2>6. Promised(LmdbAbs(db), LmdbAbs(db'), call', x)
    <3> HIDE DEF x
    <3> QED BY <2>2, <2>4, <2>5 DEF Promised, Refusable, Request
  <2> QED BY <1>1, <1>2, <2>2, <2>6
<1>7. ASSUME NEW e \in Epochs, NEW p \in Positions, Fill(e, p)
      PROVE  LmdbInv' /\ (LmdbSpec!Next \/ UNCHANGED LmdbSpec!vars)
  <2>1. PICK r : r = L!Fill(db, e, p)
    OBVIOUS
  <2>2. /\ call' = Request("fill", e, p, 0, FALSE, FALSE)
        /\ db' = r.db /\ x = Value(r.ret, 0)
    BY <1>7, <2>1 DEF Fill, Asks, Call, Answers
  <2>3. /\ LmdbOk(r.db)
        /\ \/ Turned(LmdbAbs(db), e, LmdbAbs(r.db), r.ret)
           \/ Fills(LmdbAbs(db), e, p, LmdbAbs(r.db), r.ret)
    BY <1>2, <2>1, LmdbFill
  <2>4. Promised(LmdbAbs(db), LmdbAbs(db'), call', x)
    BY <2>2, <2>3 DEF Promised, Refusable, Request, Value
  <2> QED BY <1>1, <2>2, <2>3, <2>4
<1>8. ASSUME NEW e \in Epochs, NEW p \in Positions, TrimOne(e, p)
      PROVE  LmdbInv' /\ (LmdbSpec!Next \/ UNCHANGED LmdbSpec!vars)
  <2>1. PICK r : r = L!Trim(db, e, p, FALSE, FALSE)
    OBVIOUS
  <2>2. /\ call' = Request("trim", e, p, 0, FALSE, FALSE)
        /\ db' = r.db /\ x = Value(r.ret, 0)
    BY <1>8, <2>1 DEF TrimOne, Asks, Call, Answers
  <2>3. /\ LmdbOk(r.db)
        /\ \/ Turned(LmdbAbs(db), e, LmdbAbs(r.db), r.ret)
           \/ Trims(LmdbAbs(db), e, p, LmdbAbs(r.db), r.ret)
    BY <1>2, <2>1, LmdbTrim
  <2>4. Promised(LmdbAbs(db), LmdbAbs(db'), call', x)
    BY <2>2, <2>3 DEF Promised, Refusable, Request, Value
  <2> QED BY <1>1, <2>2, <2>3, <2>4
<1>9. ASSUME NEW e \in Epochs, NEW p \in Positions, BadTrim(e, p)
      PROVE  LmdbInv' /\ (LmdbSpec!Next \/ UNCHANGED LmdbSpec!vars)
  <2>1. /\ call' = Request("trim", e, p, 0, FALSE, TRUE)
        /\ db' = db /\ x = Value("EINVAL", 0)
    BY <1>9 DEF BadTrim, Asks, Call, Answers, L!Trim, L!Abort
  <2>2. Promised(LmdbAbs(db), LmdbAbs(db'), call', x)
    BY <2>1 DEF Promised, Refusable, Request, Value
  <2> QED BY <1>1, <1>2, <2>1, <2>2
<1>10. ASSUME NEW e \in Epochs, NEW p \in Positions, NEW d \in Data, Write(e, p, d)
       PROVE  LmdbInv' /\ (LmdbSpec!Next \/ UNCHANGED LmdbSpec!vars)
  <2>1. PICK r : r = L!Write(db, e, p, d)
    OBVIOUS
  <2>2. /\ call' = Request("write", e, p, d, FALSE, FALSE)
        /\ db' = r.db /\ x = Value(r.ret, 0)
    BY <1>10, <2>1 DEF Write, Asks, Call, Answers
  <2>3. /\ LmdbOk(r.db)
        /\ \/ Turned(LmdbAbs(db), e, LmdbAbs(r.db), r.ret)
           \/ Writes(LmdbAbs(db), e, p, d, LmdbAbs(r.db), r.ret)
    BY <1>2, <2>1, LmdbWrite
  <2>4. Promised(LmdbAbs(db), LmdbAbs(db'), call', x)
    BY <2>2, <2>3 DEF Promised, Refusable, Request, Value
  <2> QED BY <1>1, <2>2, <2>3, <2>4
<1>11. ASSUME NEW c \in Clients, NEW e \in Epochs, NEW p \in Limits, NEW full \in BOOLEAN,
              Trim(c, e, p, full)
       PROVE  LmdbInv' /\ (LmdbSpec!Next \/ UNCHANGED LmdbSpec!vars)
  <2>1. PICK r : r = L!Trim(db, e, p, TRUE, full)
    OBVIOUS
  <2>2. /\ call' = Request("trim", e, p, 0, TRUE, full)
        /\ db' = r.db /\ x = Value(r.ret, 0) /\ (full => p >= NumPositions - 1)
    BY <1>11, <2>1 DEF Trim, Asks, Call, Answers
  <2>3. /\ LmdbOk(r.db)
        /\ \/ Turned(LmdbAbs(db), e, LmdbAbs(r.db), r.ret)
           \/ TrimsTo(LmdbAbs(db), e, p, LmdbAbs(r.db), r.ret)
    BY <1>2, <2>1, <2>2, LmdbTrimLimit
  <2>4. Promised(LmdbAbs(db), LmdbAbs(db'), call', x)
    BY <2>2, <2>3 DEF Promised, Refusable, Request, Value
  <2> QED BY <1>1, <2>2, <2>3, <2>4
<1>12. ASSUME NEW c \in Clients,
              TrimList(c) \/ TrimRemove(c) \/ TrimTruncate(c) \/ Crash(c)
       PROVE  db' = db /\ ans' = ans /\ call' = call
  BY <1>12 DEF TrimList, TrimRemove, TrimTruncate, Crash
<1> QED BY <1>3, <1>4, <1>5, <1>6, <1>7, <1>8, <1>9, <1>10, <1>11, <1>12 DEF Next, vars

\* The initial state of the LMDB backend is sound and empty.
LEMMA LmdbInit ==
    ASSUME Init PROVE LmdbInv /\ LmdbSpec!Init
<1>1. /\ DOMAIN db = {} /\ ans.lmdb = [ret |-> "OK", val |-> 0]
      /\ call = Request("none", 0, 0, 0, FALSE, FALSE)
  BY DEF Init
<1> QED BY <1>1 DEF Request, LmdbInv, LmdbOk, LmdbSpec!Init, LmdbSpec!Empty, LmdbEpoch, LmdbCells,
          LmdbTop, Stored, L!Present

\* So does the LMDB backend (lmdb.cc), with its limit, maximum and entries
\* under different keys, as long as trim limits fit into an int64_t: it compares
\* limits as uint64_t and stores them signed.
THEOREM LmdbCorrect == LimitsFit => (Spec => LmdbImplements)
<1> SUFFICES ASSUME LimitsFit PROVE Spec => LmdbImplements
  OBVIOUS
<1>1. Init => LmdbInv /\ LmdbSpec!Init
  BY LmdbInit
<1>2. LmdbInv /\ [Next]_vars => LmdbInv' /\ [LmdbSpec!Next]_(LmdbSpec!vars)
  BY LmdbStep
<1> QED BY <1>1, <1>2, PTL DEF Spec, LmdbImplements, LmdbSpec!Spec

-----------------------------------------------------------------------------
(* The Ceph backend *)

\* All the bytes an object can hold have offsets that fit into 32 bits.
OffsetsFit == NumPositions * NumData < OffsetMod

CephEntry ==
    [invalid : BOOLEAN, bytestream : BOOLEAN, data : Seq(Data), offset : Nat, length : Nat]

Omaps == UNION {[D -> CephEntry] : D \in SUBSET Positions}

CephObject ==
    [epoch : Epochs, empty : BOOLEAN, max_pos : Nat, omap_max_size : Int,
     trim_limit : Limits \cup {-1}, omap : Omaps, stream : Seq(Data)]

\* The entry x has the bytes of the data d, in itself or in the stream.
Holds(stream, x, d) ==
    IF x.bytestream
    THEN /\ x.length = d - 1 /\ x.offset + x.length <= Len(stream)
         /\ \A i \in 1 .. d - 1 : stream[x.offset + i] = d
    ELSE x.data = Bytes(d)

\* The positions nothing will be written to again
Used(o) == {p \in Positions : p <= o.trim_limit \/ p \in DOMAIN o.omap}

\* The maximum covers the limit and the entries, an entry that can be read has
\* the bytes it was written with, and the stream has no more bytes than were
\* written to the positions used.
CephOk(o) ==
    /\ o \in CephObject
    /\ o.empty => o.trim_limit = -1 /\ DOMAIN o.omap = {}
    /\ o.trim_limit <= o.max_pos
    /\ \A p \in DOMAIN o.omap :
         /\ p <= o.max_pos
         /\ p <= o.trim_limit \/ o.omap[p].invalid
              \/ \E d \in Data : Holds(o.stream, o.omap[p], d)
    /\ Len(o.stream) <= NumData * Cardinality(Used(o))

CephCellOf(o, p) ==
    IF p <= o.trim_limit THEN -1
    ELSE IF p \notin DOMAIN o.omap THEN 0
    ELSE IF o.omap[p].invalid THEN -1 ELSE Decoded(C!EntryBytes(o, p))

\* What the object o stands for
CephAbs(o) ==
    Obj(o.epoch, [p \in Positions |-> CephCellOf(o, p)], C!entry_max_position(o))

\* The refinement mapping of the Ceph backend, as a function of its object
LEMMA CephAbsIs == CephObj = CephAbs(rados) /\ CephObj' = CephAbs(rados')
BY DEF CephObj, CephAbs, CephCells, CephCell, CephTop, CephCellOf, C!position_trimmed, C!exists,
       C!invalid

\* A promised step of the Ceph backend is a step of ObjectSpec.
LEMMA CephPromised ==
    ASSUME NEW a, NEW b, NEW q, NEW x, a = CephObj, b = CephObj', q = call', x = ans'.ceph,
           Promised(a, b, q, x)
    PROVE  CephSpec!Next
<1>1. /\ a.epoch = rados.epoch /\ a.cells = CephCells /\ a.top = CephTop
      /\ b.epoch = rados'.epoch /\ b.cells = CephCells' /\ b.top = CephTop'
  BY DEF CephObj, Obj
<1>2. b = a => CephSpec!obj' = CephSpec!obj
  BY <1>1 DEF CephSpec!obj
<1>3. ASSUME NEW e, Admitted(a, e) PROVE CephSpec!Accepted(e)
  BY <1>1, <1>3 DEF Admitted, CephSpec!Accepted, CephSpec!Refuses, CephSpec!Refusals
<1>4. ASSUME Turned(a, q.epoch, b, x.ret), x.val = 0
      PROVE  CephSpec!Refuse(q.epoch)
  BY <1>1, <1>2, <1>4 DEF Turned, CephSpec!Refuse, CephSpec!Refuses, CephSpec!Refusals,
       CephSpec!Answer
<1>5. ASSUME NEW p, NEW v, Puts(a, p, v, b) PROVE CephSpec!Put(p, v)
  <2>1. /\ b.epoch = a.epoch /\ b.cells = [a.cells EXCEPT ![p] = v]
        /\ b.top = IF a.top <= p THEN p + 1 ELSE a.top
    BY <1>5 DEF Puts, Obj, Raised
  <2> QED BY <1>1, <2>1 DEF CephSpec!Put, CephSpec!Raise
<1>6. CASE q.op = "maxpos"
  BY <1>1, <1>2, <1>6 DEF Promised, Refusable, CephSpec!Next, CephSpec!MaxPos, CephSpec!Called,
       CephSpec!Answer
<1>7. CASE q.op = "seal"
  <2>1. Seals(a, q.epoch, b, x.ret) /\ x.val = 0
    BY <1>7 DEF Promised, Refusable
  <2>2. CephSpec!Seal(q.epoch)
    BY <1>1, <2>1 DEF Seals, Obj, CephSpec!Seal, CephSpec!Answer
  <2> QED BY <1>7, <2>2 DEF CephSpec!Next, CephSpec!Called
<1>8. CASE Refusable(q) /\ x.val = 0 /\ Turned(a, q.epoch, b, x.ret)
  BY <1>4, <1>8 DEF Refusable, CephSpec!Next, CephSpec!Called
<1>9. CASE q.op = "read" /\ b = a /\ Reads(a, q.epoch, q.pos, x.ret, x.val)
  <2>1. CephSpec!Read(q.epoch, q.pos)
    BY <1>1, <1>2, <1>3, <1>9 DEF Reads, CephSpec!Read, CephSpec!Answer, CephSpec!Empty,
         CephSpec!Invalid
  <2> QED BY <1>9, <2>1 DEF CephSpec!Next, CephSpec!Called
<1>10. CASE q.op = "write" /\ x.val = 0 /\ Writes(a, q.epoch, q.pos, q.data, b, x.ret)
  <2>1. CephSpec!Write(q.epoch, q.pos, q.data)
    BY <1>1, <1>2, <1>3, <1>5, <1>10 DEF Writes, CephSpec!Write, CephSpec!Answer, CephSpec!Empty
  <2> QED BY <1>10, <2>1 DEF CephSpec!Next, CephSpec!Called
<1>11. CASE q.op = "fill" /\ x.val = 0 /\ Fills(a, q.epoch, q.pos, b, x.ret)
  <2>1. CephSpec!Fill(q.epoch, q.pos)
    BY <1>1, <1>2, <1>3, <1>5, <1>11 DEF Fills, CephSpec!Fill, CephSpec!Answer, CephSpec!Empty,
         CephSpec!Invalid
  <2> QED BY <1>11, <2>1 DEF CephSpec!Next, CephSpec!Called
<1>12. CASE /\ q.op = "trim" /\ ~q.full /\ ~q.limit /\ x.val = 0
            /\ Trims(a, q.epoch, q.pos, b, x.ret)
  <2>1. CephSpec!Trim(q.epoch, q.pos)
    BY <1>3, <1>5, <1>12 DEF Trims, CephSpec!Trim, CephSpec!Answer, CephSpec!Invalid
  <2> QED BY <1>12, <2>1 DEF CephSpec!Next, CephSpec!Called
<1>13. CASE q.op = "trim" /\ q.limit /\ x.val = 0 /\ TrimsTo(a, q.epoch, q.pos, b, x.ret)
  <2>1. PICK p : p = q.pos
    OBVIOUS
  <2>2. /\ b.epoch = a.epoch
        /\ b.cells = [r \in Positions |-> IF r <= p THEN -1 ELSE a.cells[r]]
        /\ b.top = IF a.top <= p THEN p + 1 ELSE a.top
    BY <1>13, <2>1 DEF TrimsTo, Obj, Raised
  <2>3. CephSpec!TrimLimit(q.epoch, p)
    BY <1>1, <1>3, <1>13, <2>1, <2>2 DEF TrimsTo, CephSpec!TrimLimit, CephSpec!Answer,
         CephSpec!Invalid, CephSpec!Raise
  <2> QED BY <1>13, <2>1, <2>3 DEF CephSpec!Next, CephSpec!Called
<1>14. CASE /\ q.op = "trim" /\ q.full /\ ~q.limit /\ x.val = 0 /\ x.ret = "EINVAL" /\ b = a
  BY <1>2, <1>14 DEF CephSpec!Next, CephSpec!Called, CephSpec!BadTrim, CephSpec!Answer
<1> QED BY <1>6, <1>7, <1>8, <1>9, <1>10, <1>11, <1>12, <1>13, <1>14 DEF Promised

\* The types of the fields of an object in Ceph
LEMMA CephFields ==
    ASSUME NEW o \in CephObject
    PROVE  /\ o.epoch \in Epochs /\ o.max_pos \in Nat /\ o.trim_limit \in Limits \cup {-1}
           /\ o.trim_limit \in Nat \cup {-1} /\ o.omap \in Omaps /\ o.stream \in Seq(Data)
           /\ o.omap_max_size \in Int /\ Len(o.stream) \in Nat
<1>1. /\ o.epoch \in Epochs /\ o.max_pos \in Nat /\ o.trim_limit \in Limits \cup {-1}
      /\ o.omap \in Omaps /\ o.stream \in Seq(Data) /\ o.omap_max_size \in Int
  BY DEF CephObject
<1> QED BY <1>1, Numbers, LenProperties

\* An omap has entries at positions of the object.
LEMMA OmapFacts ==
    ASSUME NEW m \in Omaps
    PROVE  DOMAIN m \subseteq Positions /\ \A p \in DOMAIN m : m[p] \in CephEntry
BY DEF Omaps

\* Adding an entry keeps it an omap.
LEMMA OmapWith ==
    ASSUME NEW m \in Omaps, NEW p \in Positions, NEW v \in CephEntry
    PROVE  C!With(m, p, v) \in Omaps
<1>1. PICK n : n = C!With(m, p, v)
  OBVIOUS
<1>2. DOMAIN n = DOMAIN m \cup {p} /\ n[p] = v /\ \A q \in DOMAIN m \ {p} : n[q] = m[q]
  BY <1>1 DEF C!With
<1>3. PICK D : D = DOMAIN m \cup {p}
  OBVIOUS
<1>4. D \subseteq Positions /\ n \in [D -> CephEntry]
  BY <1>1, <1>2, <1>3, OmapFacts DEF C!With
<1> QED BY <1>1, <1>4 DEF Omaps

\* What a writer writes is a sequence of one byte less than its number.
LEMMA BytesFacts ==
    ASSUME NEW d \in Data
    PROVE  /\ Bytes(d) \in Seq(Data) /\ Len(Bytes(d)) = d - 1 /\ d \in Nat /\ d # 0
           /\ d <= NumData
           /\ \A i \in 1 .. d - 1 : Bytes(d)[i] = d
<1>1. d \in Nat /\ d # 0 /\ d <= NumData /\ d - 1 \in Nat
  BY ObjectsAssumption DEF Data
<1>2. PICK n \in Nat : n = d - 1
  BY <1>1
<1>3. Bytes(d) \in [1 .. n -> Data]
  BY <1>2 DEF Bytes
<1>4. Bytes(d) \in Seq(Data)
  BY <1>3, SeqDef
<1>5. DOMAIN Bytes(d) = 1 .. n
  BY <1>3
<1>6. Len(Bytes(d)) = n
  BY <1>2, <1>4, <1>5, LenProperties
<1> QED BY <1>1, <1>2, <1>4, <1>6 DEF Bytes

\* What was written can be told from its bytes.
LEMMA DecodedBytes ==
    ASSUME NEW d \in Data PROVE Decoded(Bytes(d)) = d
<1>1. ASSUME NEW c \in Data, Bytes(c) = Bytes(d) PROVE c = d
  BY <1>1, BytesFacts
<1> QED BY <1>1, Zenon DEF Decoded

\* A readable entry is read as what it holds.
LEMMA HoldsRead ==
    ASSUME NEW o \in CephObject, NEW p \in DOMAIN o.omap, NEW d \in Data,
           Holds(o.stream, o.omap[p], d)
    PROVE  C!EntryBytes(o, p) = Bytes(d) /\ Decoded(C!EntryBytes(o, p)) = d
<1>1. PICK x : x = o.omap[p]
  OBVIOUS
<1>2. x \in CephEntry /\ o.stream \in Seq(Data) /\ Len(o.stream) \in Nat
  BY <1>1, CephFields, OmapFacts
<1>3. x.offset \in Nat /\ x.length \in Nat
  BY <1>2 DEF CephEntry
<1>4. CASE x.bytestream
  <2>1. PICK off \in Nat, len \in Nat, k \in Nat :
          off = x.offset /\ len = x.length /\ k = Len(o.stream)
    BY <1>2, <1>3
  <2>2. /\ len = d - 1 /\ off + len <= k
        /\ \A i \in 1 .. d - 1 : o.stream[off + i] = d
    BY <1>1, <1>4, <2>1 DEF Holds
  <2>3. PICK a \in Int, b \in Int : a = off + 1 /\ b = off + len
    BY <2>1
  <2>4. C!EntryBytes(o, p) = SubSeq(o.stream, a, b)
    <3>1. (IF x.offset + x.length < Len(o.stream) THEN x.offset + x.length ELSE Len(o.stream)) = b
      BY <2>1, <2>2, <2>3
    <3> QED BY <1>1, <1>4, <2>1, <2>3, <3>1 DEF C!EntryBytes
  <2>5. b - a + 1 = d - 1 /\ d \in Nat /\ d # 0 /\ \A i \in a .. b : o.stream[i] = d
    <3>1. d \in Nat /\ d # 0
      BY BytesFacts
    <3>2. b - a + 1 = d - 1
      BY <2>2, <2>3, <3>1
    <3>3. ASSUME NEW i \in a .. b PROVE o.stream[i] = d
      <4>1. i - off \in 1 .. d - 1 /\ i = off + (i - off)
        BY <2>2, <2>3, <3>1
      <4> QED BY <2>2, <4>1
    <3> QED BY <3>1, <3>2, <3>3
  <2>6. /\ SubSeq(o.stream, a, b) \in Seq(Data)
        /\ Len(SubSeq(o.stream, a, b)) = IF a <= b THEN b - a + 1 ELSE 0
        /\ \A i \in 1 .. b - a + 1 : SubSeq(o.stream, a, b)[i] = o.stream[a + i - 1]
    BY <2>5, SubSeqProperties
  <2>7. PICK s : s = SubSeq(o.stream, a, b)
    OBVIOUS
  <2>8. Len(s) = d - 1
    BY <2>5, <2>6, <2>7
  <2>9. \A i \in 1 .. Len(s) : s[i] = Bytes(d)[i]
    <3> SUFFICES ASSUME NEW i \in 1 .. Len(s) PROVE s[i] = Bytes(d)[i]
      OBVIOUS
    <3>1. i \in 1 .. b - a + 1 /\ a + i - 1 \in a .. b /\ i \in 1 .. d - 1
      BY <2>5, <2>8
    <3> QED BY <2>5, <2>6, <2>7, <3>1, BytesFacts
  <2>10. s = Bytes(d)
    BY <2>6, <2>7, <2>8, <2>9, BytesFacts, SeqEqual
  <2> QED BY <2>4, <2>7, <2>10, DecodedBytes
<1>5. CASE ~x.bytestream
  <2>1. C!EntryBytes(o, p) = Bytes(d)
    BY <1>1, <1>5 DEF Holds, C!EntryBytes
  <2> QED BY <2>1, DecodedBytes
<1> QED BY <1>4, <1>5

\* Appending to the stream leaves the bytes of other entries where they are.
Grown(s, t) == Len(s) <= Len(t) /\ \A i \in 1 .. Len(s) : t[i] = s[i]

\* An entry holds its data in the grown stream too.
LEMMA HoldsGrown ==
    ASSUME NEW s \in Seq(Data), NEW t \in Seq(Data), Grown(s, t),
           NEW x \in CephEntry, NEW d \in Data, Holds(s, x, d)
    PROVE  Holds(t, x, d)
<1>1. CASE ~x.bytestream
  BY <1>1 DEF Holds
<1>2. CASE x.bytestream
  <2>1. PICK off \in Nat, len \in Nat, k \in Nat, n \in Nat :
          off = x.offset /\ len = x.length /\ k = Len(s) /\ n = Len(t)
    <3>1. x.offset \in Nat /\ x.length \in Nat
      BY DEF CephEntry
    <3> QED BY <3>1, LenProperties
  <2>2. /\ len = d - 1 /\ off + len <= k /\ k <= n /\ d \in Nat
        /\ \A i \in 1 .. d - 1 : s[off + i] = d
        /\ \A i \in 1 .. k : t[i] = s[i]
    BY <1>2, <2>1, BytesFacts DEF Holds, Grown
  <2>3. ASSUME NEW i \in 1 .. d - 1 PROVE t[off + i] = d
    <3>1. off + i \in 1 .. k
      BY <2>2
    <3> QED BY <2>2, <3>1
  <2>4. off + len <= n
    BY <2>2
  <2> QED BY <1>2, <2>1, <2>2, <2>3, <2>4 DEF Holds
<1> QED BY <1>1, <1>2

\* n is o with the entry v at p, the stream s and p counted into the maximum.
Entered(o, p, v, s, n) ==
    /\ n \in CephObject
    /\ n.epoch = o.epoch /\ n.trim_limit = o.trim_limit /\ ~n.empty
    /\ n.omap = C!With(o.omap, p, v) /\ n.stream = s
    /\ n.max_pos \in {o.max_pos, p} /\ p <= n.max_pos
    /\ ~o.empty => o.max_pos <= n.max_pos
    /\ n.max_pos = p \/ ~o.empty

\* Writing an entry and raising the maximum, field by field
LEMMA CephEnter ==
    ASSUME NEW o \in CephObject, NEW p \in Positions, NEW v \in CephEntry, NEW s \in Seq(Data),
           NEW n, n = C!update_max_pos(C!WriteEntry([o EXCEPT !.stream = s], p, v), p)
    PROVE  Entered(o, p, v, s, n)
<1>1. PICK w \in Omaps : w = C!With(o.omap, p, v)
  BY CephFields, OmapWith
<1>2. PICK q \in CephObject : q = [o EXCEPT !.stream = s]
  BY DEF CephObject
<1>3. /\ q.epoch = o.epoch /\ q.trim_limit = o.trim_limit /\ q.max_pos = o.max_pos
      /\ q.omap = o.omap /\ q.stream = s
  BY <1>2 DEF CephObject
<1>4. q.empty <=> o.empty
  BY <1>2 DEF CephObject
<1>5. PICK u \in CephObject : u = [q EXCEPT !.omap = w]
  BY DEF CephObject
<1>6. /\ u.epoch = o.epoch /\ u.trim_limit = o.trim_limit /\ u.max_pos = o.max_pos
      /\ u.omap = w /\ u.stream = s
  BY <1>3, <1>5 DEF CephObject
<1>7. u.empty <=> o.empty
  BY <1>4, <1>5 DEF CephObject
<1>8. n = C!update_max_pos(u, p)
  BY <1>1, <1>2, <1>3, <1>5 DEF C!WriteEntry
<1>9. p \in Nat /\ o.max_pos \in Nat
  BY Numbers, CephFields
<1>10. CASE u.empty \/ p > u.max_pos
  <2>1. n = [u EXCEPT !.max_pos = p, !.empty = FALSE]
    BY <1>8, <1>10 DEF C!update_max_pos
  <2>2. n \in CephObject
    BY <1>9, <2>1 DEF CephObject
  <2>3. /\ n.epoch = u.epoch /\ n.trim_limit = u.trim_limit /\ n.max_pos = p
        /\ n.omap = u.omap /\ n.stream = u.stream
    BY <2>1 DEF CephObject
  <2>4. ~n.empty
    BY <2>1 DEF CephObject
  <2>5. ~o.empty => o.max_pos <= p
    BY <1>6, <1>7, <1>9, <1>10
  <2> QED BY <1>1, <1>6, <1>9, <2>2, <2>3, <2>4, <2>5 DEF Entered
<1>11. CASE ~(u.empty \/ p > u.max_pos)
  <2>1. n = u
    BY <1>8, <1>11 DEF C!update_max_pos
  <2>2. ~u.empty /\ ~o.empty /\ p <= o.max_pos
    BY <1>6, <1>7, <1>9, <1>11
  <2> QED BY <1>1, <1>6, <1>9, <2>1, <2>2 DEF Entered
<1> QED BY <1>10, <1>11

\* How the number of used positions grows
LEMMA UsedFacts ==
    ASSUME NEW o
    PROVE  /\ IsFiniteSet(Used(o)) /\ Cardinality(Used(o)) \in Nat
           /\ Cardinality(Used(o)) <= NumPositions
<1>1. IsFiniteSet(Positions) /\ Cardinality(Positions) = NumPositions
  BY ObjectsAssumption, FS_Interval DEF Positions
<1>2. Used(o) \in SUBSET Positions
  BY DEF Used
<1> QED BY <1>1, <1>2, FS_Subset, FS_CardinalityType

\* More used positions allow for more bytes.
LEMMA UsedGrows ==
    ASSUME NEW o, NEW n, Used(o) \subseteq Used(n)
    PROVE  /\ NumData * Cardinality(Used(o)) <= NumData * Cardinality(Used(n))
           /\ NumData * Cardinality(Used(o)) \in Nat
           /\ NumData * Cardinality(Used(n)) \in Nat
           /\ (\E p \in Used(n) : p \notin Used(o)) =>
                NumData * Cardinality(Used(o)) + NumData <= NumData * Cardinality(Used(n))
<1>1. PICK a \in Nat, b \in Nat : a = Cardinality(Used(o)) /\ b = Cardinality(Used(n))
  BY UsedFacts
<1>2. a <= b
  BY <1>1, UsedFacts, FS_Subset
<1>3. ASSUME NEW p \in Used(n), p \notin Used(o) PROVE a + 1 <= b
  <2>1. Used(o) \cup {p} \in SUBSET Used(n)
    BY <1>3
  <2>2. Cardinality(Used(o) \cup {p}) = a + 1
    BY <1>1, <1>3, UsedFacts, FS_AddElement
  <2> QED BY <1>1, <2>1, <2>2, UsedFacts, FS_Subset
<1>4. NumData \in Nat
  BY ObjectsAssumption
<1>5. NumData * a <= NumData * b /\ NumData * a \in Nat /\ NumData * b \in Nat
  BY <1>2, <1>4
<1>6. a + 1 <= b => NumData * a + NumData <= NumData * b
  BY <1>4
<1> QED BY <1>1, <1>3, <1>5, <1>6

\* The cells of an object that is sound
LEMMA CephCellIs ==
    ASSUME NEW o, CephOk(o), NEW p \in Positions
    PROVE  /\ p <= o.trim_limit => CephCellOf(o, p) = -1
           /\ ~(p <= o.trim_limit) /\ p \notin DOMAIN o.omap => CephCellOf(o, p) = 0
           /\ ~(p <= o.trim_limit) /\ p \in DOMAIN o.omap /\ o.omap[p].invalid =>
                CephCellOf(o, p) = -1
           /\ ~(p <= o.trim_limit) /\ p \in DOMAIN o.omap /\ ~o.omap[p].invalid =>
                \E d \in Data : Holds(o.stream, o.omap[p], d) /\ CephCellOf(o, p) = d
<1>1. ASSUME ~(p <= o.trim_limit), p \in DOMAIN o.omap, ~o.omap[p].invalid
      PROVE  \E d \in Data : Holds(o.stream, o.omap[p], d) /\ CephCellOf(o, p) = d
  <2>1. o \in CephObject
    BY DEF CephOk
  <2>2. PICK d \in Data : Holds(o.stream, o.omap[p], d)
    BY <1>1 DEF CephOk
  <2>3. Decoded(C!EntryBytes(o, p)) = d
    BY <1>1, <2>1, <2>2, HoldsRead
  <2> QED BY <1>1, <2>2, <2>3 DEF CephCellOf
<1> QED BY <1>1 DEF CephCellOf

\* MaxPos in numbers
LEMMA CephTopIs ==
    ASSUME NEW o, CephOk(o)
    PROVE  /\ o.empty => C!entry_max_position(o) = 0
           /\ ~o.empty => C!entry_max_position(o) = o.max_pos + 1
           /\ o.max_pos \in Nat /\ o.trim_limit \in Nat \cup {-1}
           /\ o.trim_limit < C!entry_max_position(o)
<1>1. o \in CephObject
  BY DEF CephOk
<1>2. o.max_pos \in Nat /\ o.trim_limit \in Nat \cup {-1}
  BY <1>1, CephFields
<1>3. CASE o.empty
  BY <1>2, <1>3 DEF CephOk, C!entry_max_position
<1>4. CASE ~o.empty
  BY <1>2, <1>4 DEF CephOk, C!entry_max_position
<1> QED BY <1>2, <1>3, <1>4

\* An entry above the limit is put.
LEMMA CephPut ==
    ASSUME NEW o, CephOk(o), NEW p \in Positions, ~(p <= o.trim_limit),
           NEW v \in CephEntry, NEW s \in Seq(Data), Grown(o.stream, s),
           NEW n, Entered(o, p, v, s, n),
           NEW x, \/ v.invalid /\ x = -1
                  \/ ~v.invalid /\ x \in Data /\ Holds(s, v, x),
           Len(s) <= NumData * Cardinality(Used(n))
    PROVE  CephOk(n) /\ Puts(CephAbs(o), p, x, CephAbs(n))
<1>1. o \in CephObject /\ n \in CephObject
  BY DEF CephOk, Entered
<1>2. /\ o.max_pos \in Nat /\ o.trim_limit \in Nat \cup {-1} /\ o.omap \in Omaps
      /\ o.stream \in Seq(Data) /\ n.max_pos \in Nat /\ p \in Nat
  BY <1>1, CephFields, Numbers
<1>3. /\ n.epoch = o.epoch /\ n.trim_limit = o.trim_limit /\ ~n.empty /\ n.stream = s
      /\ n.max_pos \in {o.max_pos, p} /\ p <= n.max_pos
      /\ ~o.empty => o.max_pos <= n.max_pos
      /\ n.max_pos = p \/ ~o.empty
  BY DEF Entered
<1>4. /\ DOMAIN n.omap = DOMAIN o.omap \cup {p} /\ n.omap[p] = v
      /\ \A q \in DOMAIN o.omap \ {p} : n.omap[q] = o.omap[q]
  <2>1. n.omap = C!With(o.omap, p, v)
    BY DEF Entered
  <2>2. PICK m \in Omaps : m = o.omap
    BY <1>2
  <2>3. /\ DOMAIN C!With(m, p, v) = DOMAIN m \cup {p}
        /\ C!With(m, p, v)[p] = v
        /\ \A q \in DOMAIN m \ {p} : C!With(m, p, v)[q] = m[q]
    BY DEF C!With
  <2> QED BY <2>1, <2>2, <2>3
<1>5. DOMAIN o.omap \subseteq Positions /\ \A q \in DOMAIN o.omap : o.omap[q] \in CephEntry
  BY <1>2, OmapFacts
<1>6. CephOk(n)
  <2>1. n.trim_limit <= n.max_pos
    BY <1>2, <1>3 DEF CephOk
  <2>2. ASSUME NEW q \in DOMAIN n.omap PROVE q <= n.max_pos
    <3>1. CASE q = p
      BY <1>3, <3>1
    <3>2. CASE q # p
      <4>1. q \in DOMAIN o.omap /\ q \in Nat
        BY <1>4, <1>5, <3>2, Numbers
      <4>2. ~o.empty /\ q <= o.max_pos
        BY <4>1 DEF CephOk
      <4> QED BY <1>2, <1>3, <4>1, <4>2
    <3> QED BY <3>1, <3>2
  <2>3. ASSUME NEW q \in DOMAIN n.omap, ~(q <= n.trim_limit), ~n.omap[q].invalid
        PROVE  \E d \in Data : Holds(n.stream, n.omap[q], d)
    <3>1. CASE q = p
      BY <1>3, <1>4, <2>3, <3>1
    <3>2. CASE q # p
      <4>1. q \in DOMAIN o.omap /\ n.omap[q] = o.omap[q] /\ o.omap[q] \in CephEntry
        BY <1>4, <1>5, <3>2
      <4>2. PICK d \in Data : Holds(o.stream, o.omap[q], d)
        BY <1>3, <2>3, <4>1 DEF CephOk
      <4>3. Holds(s, o.omap[q], d)
        BY <1>2, <4>1, <4>2, HoldsGrown
      <4> QED BY <1>3, <4>1, <4>3
    <3> QED BY <3>1, <3>2
  <2> QED BY <1>1, <1>3, <2>1, <2>2, <2>3 DEF CephOk
<1>7. CephCellOf(n, p) = x
  <2>1. ~(p <= n.trim_limit) /\ p \in DOMAIN n.omap /\ n.omap[p] = v
    BY <1>3, <1>4
  <2>2. CASE v.invalid /\ x = -1
    BY <1>6, <2>1, <2>2, CephCellIs
  <2>3. CASE ~v.invalid /\ x \in Data /\ Holds(s, v, x)
    <3>1. Decoded(C!EntryBytes(n, p)) = x
      BY <1>1, <1>3, <2>1, <2>3, HoldsRead
    <3> QED BY <2>1, <2>3, <3>1 DEF CephCellOf
  <2> QED BY <2>2, <2>3
<1>8. ASSUME NEW q \in Positions, q # p PROVE CephCellOf(n, q) = CephCellOf(o, q)
  <2>1. q \in DOMAIN n.omap <=> q \in DOMAIN o.omap
    BY <1>4, <1>8
  <2>2. q \in DOMAIN o.omap => n.omap[q] = o.omap[q]
    BY <1>4, <1>8
  <2>3. CASE ~(q <= o.trim_limit) /\ q \in DOMAIN o.omap /\ ~o.omap[q].invalid
    <3>1. PICK d \in Data : Holds(o.stream, o.omap[q], d) /\ CephCellOf(o, q) = d
      BY <2>3, CephCellIs
    <3>2. Holds(n.stream, n.omap[q], d)
      BY <1>2, <1>3, <1>5, <2>2, <2>3, <3>1, HoldsGrown
    <3>3. Decoded(C!EntryBytes(n, q)) = d
      BY <1>1, <2>1, <2>3, <3>2, HoldsRead
    <3> QED BY <1>3, <2>1, <2>2, <2>3, <3>1, <3>3 DEF CephCellOf
  <2>4. CASE ~(~(q <= o.trim_limit) /\ q \in DOMAIN o.omap /\ ~o.omap[q].invalid)
    BY <1>3, <2>1, <2>2, <2>4 DEF CephCellOf
  <2> QED BY <2>3, <2>4
<1>9. [q \in Positions |-> CephCellOf(n, q)]
        = [[q \in Positions |-> CephCellOf(o, q)] EXCEPT ![p] = x]
  BY <1>7, <1>8
<1>10. C!entry_max_position(n) = Raised(C!entry_max_position(o), p)
  <2>1. C!entry_max_position(n) = n.max_pos + 1
    BY <1>3, <1>6, CephTopIs
  <2>2. CASE o.empty
    <3>1. C!entry_max_position(o) = 0 /\ n.max_pos = p
      BY <1>3, <2>2, CephTopIs
    <3> QED BY <1>2, <2>1, <3>1 DEF Raised
  <2>3. CASE ~o.empty
    <3>1. C!entry_max_position(o) = o.max_pos + 1 /\ o.max_pos <= n.max_pos
      BY <1>3, <2>3, CephTopIs
    <3>2. PICK j \in Nat, k \in Nat : j = o.max_pos /\ k = n.max_pos
      BY <1>2
    <3>3. (k = j \/ k = p) /\ p <= k /\ j <= k /\ p \in Nat
      BY <1>2, <1>3, <3>1, <3>2
    <3>4. k + 1 = IF j + 1 <= p THEN p + 1 ELSE j + 1
      BY <3>3
    <3> QED BY <2>1, <3>1, <3>2, <3>4 DEF Raised
  <2> QED BY <2>2, <2>3
<1> QED BY <1>3, <1>6, <1>9, <1>10 DEF Puts, CephAbs, Obj

\* A refused call changes nothing, and is refused for a reason.
LEMMA CephRefused ==
    ASSUME NEW o, CephOk(o), NEW e \in Epochs
    PROVE  /\ C!Guard(o, e) = "OK" => Admitted(CephAbs(o), e)
           /\ C!Guard(o, e) # "OK" => Turned(CephAbs(o), e, CephAbs(o), C!Guard(o, e))
<1>1. e \in Nat
  BY Numbers
<1> QED BY <1>1 DEF C!Guard, Admitted, Turned, CephAbs, Obj

\* Bytes written where the stream ends are appended.
LEMMA OverwriteAtEnd ==
    ASSUME NEW s \in Seq(Data), NEW y \in Seq(Data)
    PROVE  C!Overwrite(s, Len(s), y) = s \o y
<1>1. PICK k \in Nat, n \in Nat : k = Len(s) /\ n = Len(y)
  BY LenProperties
<1>2. SubSeq(s, 1, k) = s
  <2>1. /\ SubSeq(s, 1, k) \in Seq(Data) /\ Len(SubSeq(s, 1, k)) = k
        /\ \A i \in 1 .. k : SubSeq(s, 1, k)[i] = s[i]
    <3>1. \A i \in 1 .. k : s[i] \in Data
      BY <1>1, ElementOfSeq
    <3>2. k - 1 + 1 = k /\ \A i \in 1 .. k : 1 + i - 1 = i
      OBVIOUS
    <3>3. /\ SubSeq(s, 1, k) \in Seq(Data)
          /\ Len(SubSeq(s, 1, k)) = IF 1 <= k THEN k - 1 + 1 ELSE 0
          /\ \A i \in 1 .. k - 1 + 1 : SubSeq(s, 1, k)[i] = s[1 + i - 1]
      BY <3>1, SubSeqProperties
    <3> QED BY <3>2, <3>3
  <2> QED BY <1>1, <2>1, SeqEqual
<1>3. SubSeq(s, k + n + 1, k) = <<>>
  <2>1. k + n + 1 \in Int /\ k \in Int /\ k < k + n + 1
    OBVIOUS
  <2> QED BY <2>1, SubSeqEmpty
<1>4. (s \o y) \o <<>> = s \o y
  BY ConcatProperties, ConcatEmptySeq
<1> QED BY <1>1, <1>2, <1>3, <1>4 DEF C!Overwrite

\* The entry that set_data makes, and the stream, hold the data.
LEMMA CephSetData ==
    ASSUME OffsetsFit, NEW o, CephOk(o), NEW d \in Data,
           NEW new, new = C!set_data(o, Bytes(d))
    PROVE  /\ new.entry \in CephEntry /\ new.stream \in Seq(Data)
           /\ ~new.entry.invalid /\ Holds(new.stream, new.entry, d)
           /\ Grown(o.stream, new.stream) /\ Len(new.stream) <= Len(o.stream) + NumData
<1>1. o \in CephObject
  BY DEF CephOk
<1>2. o.stream \in Seq(Data) /\ Len(o.stream) \in Nat
  BY <1>1, CephFields
<1>3. /\ Bytes(d) \in Seq(Data) /\ Len(Bytes(d)) = d - 1 /\ d \in Nat /\ d # 0 /\ d <= NumData
      /\ \A i \in 1 .. d - 1 : Bytes(d)[i] = d
  BY BytesFacts
<1>4. NumData \in Nat /\ <<>> \in Seq(Data)
  BY ObjectsAssumption, EmptySeq
<1>5. C!NewEntry \in CephEntry
  BY <1>4 DEF C!NewEntry, CephEntry
<1>6. CASE C!ToStream(o, Bytes(d))
  <2>1. PICK k \in Nat, len \in Nat : k = Len(o.stream) /\ len = d - 1
    BY <1>2, <1>3
  <2>2. k % OffsetMod = k
    <3>1. k <= NumData * Cardinality(Used(o))
      BY <2>1 DEF CephOk
    <3>2. PICK a \in Nat : a = Cardinality(Used(o)) /\ a <= NumPositions
      BY UsedFacts
    <3>3. NumData * a <= NumData * NumPositions /\ NumData * a \in Nat
      BY <1>4, <3>2, ObjectsAssumption
    <3>4. NumData * NumPositions = NumPositions * NumData /\ NumPositions * NumData \in Nat
      BY <1>4, ObjectsAssumption
    <3>5. k < OffsetMod /\ OffsetMod \in Nat \ {0}
      BY <3>1, <3>2, <3>3, <3>4, ObjectsAssumption DEF OffsetsFit
    <3> QED BY <3>5
  <2>3. PICK x : x = [C!NewEntry EXCEPT !.bytestream = TRUE, !.offset = k, !.length = len]
    OBVIOUS
  <2>4. new = [entry |-> x, stream |-> o.stream \o Bytes(d)]
    <3>1. PICK s \in Seq(Data), y \in Seq(Data) : s = o.stream /\ y = Bytes(d)
      BY <1>2, <1>3
    <3>2. Len(s) = k /\ Len(y) = len
      BY <1>3, <2>1, <3>1
    <3>3. C!Overwrite(s, k, y) = s \o y
      BY <3>2, OverwriteAtEnd
    <3>4. C!Overwrite(o.stream, k, Bytes(d)) = o.stream \o Bytes(d)
      BY <3>1, <3>3
    <3> QED BY <1>3, <1>6, <2>1, <2>2, <2>3, <3>4 DEF C!set_data
  <2>5. x \in CephEntry
    BY <1>5, <2>3 DEF CephEntry
  <2>6. x.offset = k /\ x.length = len
    BY <1>5, <2>3 DEF CephEntry
  <2>7. x.bytestream
    BY <1>5, <2>3 DEF CephEntry
  <2>8. ~x.invalid
    BY <2>3 DEF C!NewEntry
  <2>9. PICK t : t = o.stream \o Bytes(d)
    OBVIOUS
  <2>10. /\ t \in Seq(Data) /\ Len(t) = k + len
         /\ \A i \in 1 .. k + len : t[i] = IF i <= k THEN o.stream[i] ELSE Bytes(d)[i - k]
    <3>1. PICK s1 \in Seq(Data), s2 \in Seq(Data) : s1 = o.stream /\ s2 = Bytes(d)
      BY <1>2, <1>3
    <3>2. /\ s1 \o s2 \in Seq(Data)
          /\ Len(s1 \o s2) = Len(s1) + Len(s2)
          /\ \A i \in 1 .. Len(s1) + Len(s2) :
               (s1 \o s2)[i] = IF i <= Len(s1) THEN s1[i] ELSE s2[i - Len(s1)]
      BY ConcatProperties
    <3>3. Len(s1) = k /\ Len(s2) = len /\ t = s1 \o s2
      BY <1>3, <2>1, <2>9, <3>1
    <3> QED BY <3>1, <3>2, <3>3
  <2>11. ASSUME NEW i \in 1 .. d - 1 PROVE t[k + i] = d
    <3>1. k + i \in 1 .. k + len /\ ~(k + i <= k) /\ k + i - k = i
      BY <1>3, <2>1
    <3> QED BY <1>3, <2>10, <3>1
  <2>12. Holds(t, x, d)
    <3>1. x.length = d - 1 /\ x.offset + x.length <= Len(t)
      BY <2>1, <2>6, <2>10
    <3>2. \A i \in 1 .. d - 1 : t[x.offset + i] = d
      BY <2>6, <2>11
    <3> QED BY <2>7, <3>1, <3>2 DEF Holds
  <2>13. Grown(o.stream, t)
    <3>1. \A i \in 1 .. k : t[i] = o.stream[i]
      BY <2>10
    <3>2. k <= k + len
      OBVIOUS
    <3> QED BY <2>1, <2>10, <3>1, <3>2 DEF Grown
  <2>14. Len(t) <= Len(o.stream) + NumData
    BY <1>3, <1>4, <2>1, <2>10
  <2>15. new.entry = x /\ new.stream = t
    BY <2>4, <2>9
  <2> QED BY <2>5, <2>8, <2>10, <2>12, <2>13, <2>14, <2>15
<1>7. CASE ~C!ToStream(o, Bytes(d))
  <2>1. PICK x : x = [C!NewEntry EXCEPT !.data = Bytes(d)]
    OBVIOUS
  <2>2. new.entry = x /\ new.stream = o.stream
    BY <1>7, <2>1 DEF C!set_data
  <2>3. x \in CephEntry
    BY <1>3, <1>5, <2>1 DEF CephEntry
  <2>4. x.data = Bytes(d)
    BY <1>5, <2>1 DEF CephEntry
  <2>5. ~x.invalid /\ ~x.bytestream
    BY <2>1 DEF C!NewEntry
  <2> QED BY <1>2, <1>4, <2>2, <2>3, <2>4, <2>5 DEF Holds, Grown
<1> QED BY <1>6, <1>7

\* cls_zlog entry_write does what ObjectSpec promises.
LEMMA CephWrite ==
    ASSUME OffsetsFit, NEW o, CephOk(o), NEW e \in Epochs, NEW p \in Positions, NEW d \in Data,
           NEW r, r = C!entry_write(o, e, p, Bytes(d))
    PROVE  /\ CephOk(r.obj)
           /\ \/ Turned(CephAbs(o), e, CephAbs(r.obj), r.ret)
              \/ Writes(CephAbs(o), e, p, d, CephAbs(r.obj), r.ret)
<1>1. CephAbs(o).cells[p] = CephCellOf(o, p)
  BY DEF CephAbs, Obj
<1>2. CASE C!Guard(o, e) # "OK"
  BY <1>2, CephRefused DEF C!entry_write, C!Reply
<1>3. CASE C!Guard(o, e) = "OK" /\ (p <= o.trim_limit \/ p \in DOMAIN o.omap)
  <2>1. r.ret = "EROFS" /\ r.obj = o
    BY <1>3 DEF C!entry_write, C!Reply, C!position_trimmed, C!exists
  <2>2. CephCellOf(o, p) # 0
    BY <1>3, CephCellIs, Numbers
  <2> QED BY <1>1, <1>3, <2>1, <2>2, CephRefused DEF Writes
<1>4. CASE C!Guard(o, e) = "OK" /\ ~(p <= o.trim_limit) /\ p \notin DOMAIN o.omap
  <2>1. PICK new : new = C!set_data(o, Bytes(d))
    OBVIOUS
  <2>2. PICK v, s : v = new.entry /\ s = new.stream
    OBVIOUS
  <2>3. /\ v \in CephEntry /\ s \in Seq(Data) /\ ~v.invalid /\ Holds(s, v, d)
        /\ Grown(o.stream, s) /\ Len(s) <= Len(o.stream) + NumData
    BY <2>1, <2>2, CephSetData
  <2>4. PICK n : n = C!update_max_pos(C!WriteEntry([o EXCEPT !.stream = s], p, v), p)
    OBVIOUS
  <2>5. r.ret = "OK" /\ r.obj = n
    BY <1>4, <2>1, <2>2, <2>4 DEF C!entry_write, C!Reply, C!position_trimmed, C!exists
  <2>6. o \in CephObject
    BY DEF CephOk
  <2>7. Entered(o, p, v, s, n)
    BY <2>3, <2>4, <2>6, CephEnter
  <2>8. Used(o) \subseteq Used(n) /\ p \in Used(n) /\ p \notin Used(o)
    <3>1. n.trim_limit = o.trim_limit /\ DOMAIN n.omap = DOMAIN o.omap \cup {p}
      BY <2>7 DEF Entered, C!With
    <3> QED BY <1>4, <3>1 DEF Used
  <2>9. Len(s) <= NumData * Cardinality(Used(n))
    <3>1. PICK a \in Nat, b \in Nat :
            a = NumData * Cardinality(Used(o)) /\ b = NumData * Cardinality(Used(n))
      BY <2>8, UsedGrows
    <3>2. a + NumData <= b
      BY <2>8, <3>1, UsedGrows
    <3>3. Len(o.stream) <= a /\ Len(o.stream) \in Nat /\ Len(s) \in Nat /\ NumData \in Nat
      BY <2>3, <2>6, <3>1, CephFields, LenProperties, ObjectsAssumption DEF CephOk
    <3> QED BY <2>3, <3>1, <3>2, <3>3
  <2>10. CephOk(n) /\ Puts(CephAbs(o), p, d, CephAbs(n))
    BY <1>4, <2>3, <2>7, <2>9, CephPut
  <2>11. CephCellOf(o, p) = 0
    BY <1>4, CephCellIs
  <2> QED BY <1>1, <1>4, <2>5, <2>10, <2>11, CephRefused DEF Writes
<1> QED BY <1>2, <1>3, <1>4

\* Making an entry invalid, whether it was there or not
LEMMA CephInvalidate ==
    ASSUME NEW o, CephOk(o), NEW p \in Positions, ~(p <= o.trim_limit),
           NEW x, x = IF C!exists(o, p) THEN o.omap[p] ELSE C!NewEntry,
           NEW n, n = C!update_max_pos(C!WriteEntry(o, p, [x EXCEPT !.invalid = TRUE]), p)
    PROVE  CephOk(n) /\ Puts(CephAbs(o), p, -1, CephAbs(n))
<1>1. o \in CephObject
  BY DEF CephOk
<1>2. o.omap \in Omaps /\ o.stream \in Seq(Data) /\ Len(o.stream) \in Nat
  BY <1>1, CephFields
<1>3. x \in CephEntry
  <2>1. CASE C!exists(o, p)
    BY <1>2, <2>1, OmapFacts DEF C!exists
  <2>2. CASE ~C!exists(o, p)
    BY <2>2, EmptySeq DEF C!NewEntry, CephEntry
  <2> QED BY <2>1, <2>2
<1>4. PICK v \in CephEntry : v = [x EXCEPT !.invalid = TRUE]
  BY <1>3 DEF CephEntry
<1>5. v.invalid
  BY <1>3, <1>4 DEF CephEntry
<1>6. PICK s \in Seq(Data) : s = o.stream
  BY <1>2
<1>7. [o EXCEPT !.stream = s] = o
  BY <1>1, <1>6 DEF CephObject
<1>8. Entered(o, p, v, s, n)
  BY <1>1, <1>4, <1>7, CephEnter
<1>9. Used(o) \subseteq Used(n)
  <2>1. n.trim_limit = o.trim_limit /\ DOMAIN n.omap = DOMAIN o.omap \cup {p}
    BY <1>8 DEF Entered, C!With
  <2> QED BY <2>1 DEF Used
<1>10. Len(s) <= NumData * Cardinality(Used(n))
  <2>1. PICK a \in Nat, b \in Nat :
          a = NumData * Cardinality(Used(o)) /\ b = NumData * Cardinality(Used(n)) /\ a <= b
    BY <1>9, UsedGrows
  <2>2. Len(o.stream) <= a
    BY <2>1 DEF CephOk
  <2> QED BY <1>2, <1>6, <2>1, <2>2
<1>11. Grown(o.stream, s)
  BY <1>2, <1>6 DEF Grown
<1> QED BY <1>5, <1>8, <1>10, <1>11, CephPut

\* A position with an entry, or below the limit, is below the maximum.
LEMMA CephUsedPut ==
    ASSUME NEW o, CephOk(o), NEW p \in Positions, CephCellOf(o, p) = -1,
           p <= o.trim_limit \/ p \in DOMAIN o.omap
    PROVE  Puts(CephAbs(o), p, -1, CephAbs(o))
<1>1. o.max_pos \in Nat /\ o.trim_limit \in Nat \cup {-1} /\ p \in Nat
  BY CephTopIs, Numbers
<1>2. ~o.empty /\ p <= o.max_pos
  BY <1>1 DEF CephOk
<1>3. Raised(C!entry_max_position(o), p) = C!entry_max_position(o)
  BY <1>1, <1>2, CephTopIs DEF Raised
<1> QED BY <1>3 DEF Puts, CephAbs, Obj

\* cls_zlog entry_invalidate without force does what ObjectSpec promises of a fill.
LEMMA CephFill ==
    ASSUME NEW o, CephOk(o), NEW e \in Epochs, NEW p \in Positions,
           NEW r, r = C!entry_invalidate(o, e, p, FALSE, FALSE)
    PROVE  /\ CephOk(r.obj)
           /\ \/ Turned(CephAbs(o), e, CephAbs(r.obj), r.ret)
              \/ Fills(CephAbs(o), e, p, CephAbs(r.obj), r.ret)
<1>1. CephAbs(o).cells[p] = CephCellOf(o, p)
  BY DEF CephAbs, Obj
<1>2. CASE C!Guard(o, e) # "OK"
  BY <1>2, CephRefused DEF C!entry_invalidate, C!Reply
<1>3. CASE C!Guard(o, e) = "OK" /\ (p <= o.trim_limit \/ (p \in DOMAIN o.omap /\ o.omap[p].invalid))
  <2>1. r.ret = "OK" /\ r.obj = o
    BY <1>3 DEF C!entry_invalidate, C!Reply, C!position_trimmed, C!exists, C!invalid
  <2>2. CephCellOf(o, p) = -1
    BY <1>3, CephCellIs
  <2> QED BY <1>1, <1>3, <2>1, <2>2, CephRefused DEF Fills
<1>4. CASE C!Guard(o, e) = "OK" /\ ~(p <= o.trim_limit) /\ p \in DOMAIN o.omap /\ ~o.omap[p].invalid
  <2>1. r.ret = "EROFS" /\ r.obj = o
    BY <1>4 DEF C!entry_invalidate, C!Reply, C!position_trimmed, C!exists, C!invalid
  <2>2. CephCellOf(o, p) \in Data
    BY <1>4, CephCellIs
  <2> QED BY <1>1, <1>4, <2>1, <2>2, CephRefused DEF Fills
<1>5. CASE C!Guard(o, e) = "OK" /\ ~(p <= o.trim_limit) /\ p \notin DOMAIN o.omap
  <2>1. PICK x : x = IF C!exists(o, p) THEN o.omap[p] ELSE C!NewEntry
    OBVIOUS
  <2>2. /\ r.ret = "OK"
        /\ r.obj = C!update_max_pos(C!WriteEntry(o, p, [x EXCEPT !.invalid = TRUE]), p)
    BY <1>5, <2>1 DEF C!entry_invalidate, C!Reply, C!position_trimmed, C!exists, C!invalid
  <2>3. CephOk(r.obj) /\ Puts(CephAbs(o), p, -1, CephAbs(r.obj))
    BY <1>5, <2>1, <2>2, CephInvalidate
  <2>4. CephCellOf(o, p) = 0
    BY <1>5, CephCellIs
  <2> QED BY <1>1, <1>5, <2>2, <2>3, <2>4, CephRefused DEF Fills
<1> QED BY <1>2, <1>3, <1>4, <1>5

\* cls_zlog entry_invalidate with force does what ObjectSpec promises of a trim.
LEMMA CephTrim ==
    ASSUME NEW o, CephOk(o), NEW e \in Epochs, NEW p \in Positions,
           NEW r, r = C!entry_invalidate(o, e, p, TRUE, FALSE)
    PROVE  /\ CephOk(r.obj)
           /\ \/ Turned(CephAbs(o), e, CephAbs(r.obj), r.ret)
              \/ Trims(CephAbs(o), e, p, CephAbs(r.obj), r.ret)
<1>1. CASE C!Guard(o, e) # "OK"
  BY <1>1, CephRefused DEF C!entry_invalidate, C!Reply
<1>2. CASE C!Guard(o, e) = "OK" /\ (p <= o.trim_limit \/ (p \in DOMAIN o.omap /\ o.omap[p].invalid))
  <2>1. r.ret = "OK" /\ r.obj = o
    BY <1>2 DEF C!entry_invalidate, C!Reply, C!position_trimmed, C!exists, C!invalid
  <2>2. CephCellOf(o, p) = -1
    BY <1>2, CephCellIs
  <2> QED BY <1>2, <2>1, <2>2, CephRefused, CephUsedPut DEF Trims
<1>3. CASE C!Guard(o, e) = "OK" /\ ~(p <= o.trim_limit) /\ ~(p \in DOMAIN o.omap /\ o.omap[p].invalid)
  <2>1. PICK x : x = IF C!exists(o, p) THEN o.omap[p] ELSE C!NewEntry
    OBVIOUS
  <2>2. /\ r.ret = "OK"
        /\ r.obj = C!update_max_pos(C!WriteEntry(o, p, [x EXCEPT !.invalid = TRUE]), p)
    BY <1>3, <2>1 DEF C!entry_invalidate, C!Reply, C!position_trimmed, C!exists, C!invalid
  <2>3. CephOk(r.obj) /\ Puts(CephAbs(o), p, -1, CephAbs(r.obj))
    BY <1>3, <2>1, <2>2, CephInvalidate
  <2> QED BY <1>3, <2>2, <2>3, CephRefused DEF Trims
<1> QED BY <1>1, <1>2, <1>3

\* A range trim raises the limit and lets entries and stream be.
CephLimited(o, p, r) ==
    /\ CephOk(r.obj) /\ o.trim_limit <= r.obj.trim_limit
    /\ r.ret = "OK" => p <= r.obj.trim_limit
    /\ r.obj.omap = o.omap /\ r.obj.stream = o.stream

\* cls_zlog entry_invalidate with a limit does what ObjectSpec promises of a range trim.
LEMMA CephTrimLimit ==
    ASSUME LimitsFit, NEW o, CephOk(o), NEW e \in Epochs, NEW p \in Limits,
           NEW r, r = C!entry_invalidate(o, e, p, TRUE, TRUE)
    PROVE  /\ CephLimited(o, p, r)
           /\ \/ Turned(CephAbs(o), e, CephAbs(r.obj), r.ret)
              \/ TrimsTo(CephAbs(o), e, p, CephAbs(r.obj), r.ret)
<1>1. o \in CephObject
  BY DEF CephOk
<1>2. /\ o.max_pos \in Nat /\ o.trim_limit \in Nat \cup {-1} /\ o.omap \in Omaps
      /\ o.trim_limit \in Limits \cup {-1} /\ o.stream \in Seq(Data) /\ p \in Nat
      /\ Len(o.stream) \in Nat
  BY <1>1, CephFields, Numbers
<1>3. CASE C!Guard(o, e) # "OK"
  <2>1. r.ret = C!Guard(o, e) /\ r.obj = o
    BY <1>3 DEF C!entry_invalidate, C!Reply
  <2>2. o.trim_limit <= r.obj.trim_limit
    <3>1. PICK t \in Int : t = o.trim_limit
      BY <1>2
    <3>2. t <= t
      OBVIOUS
    <3> QED BY <2>1, <3>1, <3>2, Zenon
  <2>3. Turned(CephAbs(o), e, CephAbs(r.obj), r.ret)
    BY <1>3, <2>1, CephRefused
  <2>4. CephLimited(o, p, r)
    BY <1>3, <2>1, <2>2 DEF CephLimited
  <2> QED BY <2>3, <2>4
<1>4. CASE C!Guard(o, e) = "OK"
  <2>1. PICK n : n = C!update_trim_limit(o, p)
    OBVIOUS
  <2>2. r.ret = "OK" /\ r.obj = n
    BY <1>4, <2>1 DEF C!entry_invalidate, C!Reply
  <2>3. /\ n \in CephObject /\ n.epoch = o.epoch /\ n.omap = o.omap /\ n.stream = o.stream
        /\ n.trim_limit = IF p > o.trim_limit THEN p ELSE o.trim_limit
        /\ ~n.empty /\ n.max_pos \in Nat
        /\ IF o.empty \/ p > o.max_pos THEN n.max_pos = p ELSE n.max_pos = o.max_pos
    <3>1. CASE o.trim_limit = -1 \/ p > o.trim_limit
      <4> C!StoredLimit(p) = p
        BY <1>2, ObjectsAssumption DEF C!StoredLimit, LimitsFit, Limits
      <4>1. PICK u \in CephObject : u = [o EXCEPT !.trim_limit = p]
        BY <1>1 DEF CephObject
      <4>2. /\ u.epoch = o.epoch /\ u.omap = o.omap /\ u.stream = o.stream
            /\ u.trim_limit = p /\ u.max_pos = o.max_pos
        BY <1>1, <4>1 DEF CephObject
      <4>3. u.empty <=> o.empty
        BY <1>1, <4>1 DEF CephObject
      <4>4. n = C!update_max_pos(u, p)
        BY <2>1, <3>1, <4>1 DEF C!update_trim_limit, C!NoLimit
      <4>5. p = IF p > o.trim_limit THEN p ELSE o.trim_limit
        BY <1>2, <3>1
      <4>6. CASE u.empty \/ p > u.max_pos
        <5>1. n = [u EXCEPT !.max_pos = p, !.empty = FALSE]
          BY <4>4, <4>6 DEF C!update_max_pos
        <5>2. n \in CephObject
          BY <1>2, <5>1 DEF CephObject
        <5>3. /\ n.epoch = u.epoch /\ n.omap = u.omap /\ n.stream = u.stream
              /\ n.trim_limit = u.trim_limit /\ n.max_pos = p
          BY <5>1 DEF CephObject
        <5>4. ~n.empty
          BY <5>1 DEF CephObject
        <5>5. o.empty \/ p > o.max_pos
          BY <4>2, <4>3, <4>6
        <5> QED BY <1>2, <4>2, <4>5, <5>2, <5>3, <5>4, <5>5
      <4>7. CASE ~(u.empty \/ p > u.max_pos)
        <5>1. n = u
          BY <4>4, <4>7 DEF C!update_max_pos
        <5>2. ~u.empty /\ ~o.empty /\ ~(p > o.max_pos)
          BY <4>2, <4>3, <4>7
        <5> QED BY <1>2, <4>2, <4>5, <5>1, <5>2
      <4> QED BY <4>6, <4>7
    <3>2. CASE ~(o.trim_limit = -1 \/ p > o.trim_limit)
      <4>1. n = o
        BY <2>1, <3>2 DEF C!update_trim_limit, C!NoLimit
      <4>2. ~o.empty /\ ~(p > o.max_pos)
        BY <1>2, <3>2 DEF CephOk
      <4> QED BY <1>1, <1>2, <3>2, <4>1, <4>2
    <3> QED BY <3>1, <3>2
  <2>4. PICK m \in Nat, k \in Nat, lim \in Nat \cup {-1} :
          m = o.max_pos /\ k = n.max_pos /\ lim = o.trim_limit
    BY <1>2, <2>3
  <2>5. lim <= m /\ p <= k /\ (~o.empty => m <= k) /\ (o.empty => lim = -1)
    BY <1>2, <2>3, <2>4 DEF CephOk
  <2>6. CephOk(n)
    <3>1. n.trim_limit <= n.max_pos
      BY <1>2, <2>3, <2>4, <2>5
    <3>2. ASSUME NEW q \in DOMAIN n.omap
          PROVE  /\ q <= n.max_pos
                 /\ q <= n.trim_limit \/ n.omap[q].invalid
                      \/ \E d \in Data : Holds(n.stream, n.omap[q], d)
      <4>1. q \in DOMAIN o.omap /\ q \in Nat
        BY <1>2, <2>3, OmapFacts, Numbers
      <4>2. ~o.empty /\ q <= m
        BY <2>4, <4>1 DEF CephOk
      <4>3. q <= lim \/ o.omap[q].invalid \/ \E d \in Data : Holds(o.stream, o.omap[q], d)
        BY <2>4, <4>1 DEF CephOk
      <4>4. q <= lim => q <= n.trim_limit
        BY <1>2, <2>3, <2>4, <4>1
      <4> QED BY <2>3, <2>4, <2>5, <4>1, <4>2, <4>3, <4>4
    <3>3. Len(n.stream) <= NumData * Cardinality(Used(n))
      <4>1. Used(o) \subseteq Used(n)
        <5>1. \A q \in Positions : q <= o.trim_limit => q <= n.trim_limit
          BY <1>2, <2>3, Numbers
        <5> QED BY <2>3, <5>1 DEF Used
      <4>2. PICK a \in Nat, b \in Nat :
              a = NumData * Cardinality(Used(o)) /\ b = NumData * Cardinality(Used(n)) /\ a <= b
        BY <4>1, UsedGrows
      <4>3. Len(o.stream) <= a
        BY <4>2 DEF CephOk
      <4> QED BY <1>2, <2>3, <4>2, <4>3
    <3> QED BY <2>3, <3>1, <3>2, <3>3 DEF CephOk
  <2>7. ASSUME NEW q \in Positions
        PROVE  CephCellOf(n, q) = IF q <= p THEN -1 ELSE CephCellOf(o, q)
    <3>1. q \in Nat
      BY Numbers
    <3>2. C!EntryBytes(n, q) = C!EntryBytes(o, q)
      BY <2>3 DEF C!EntryBytes
    <3>3. q <= n.trim_limit <=> q <= p \/ q <= o.trim_limit
      BY <1>2, <2>3, <3>1
    <3> QED BY <2>3, <3>2, <3>3 DEF CephCellOf
  <2>8. C!entry_max_position(n) = Raised(C!entry_max_position(o), p)
    <3>1. C!entry_max_position(n) = k + 1
      BY <2>3, <2>4, <2>6, CephTopIs
    <3>2. CASE o.empty
      BY <1>2, <2>3, <2>4, <3>1, <3>2, CephTopIs DEF Raised
    <3>3. CASE ~o.empty
      <4>1. C!entry_max_position(o) = m + 1
        BY <2>4, <3>3, CephTopIs
      <4>2. k = IF p > m THEN p ELSE m
        BY <2>3, <2>4, <3>3
      <4>3. k + 1 = IF m + 1 <= p THEN p + 1 ELSE m + 1
        BY <1>2, <4>2
      <4> QED BY <3>1, <4>1, <4>3 DEF Raised
    <3> QED BY <3>2, <3>3
  <2>9. CephAbs(n) = Obj(CephAbs(o).epoch,
                         [q \in Positions |-> IF q <= p THEN -1 ELSE CephAbs(o).cells[q]],
                         Raised(CephAbs(o).top, p))
    BY <2>3, <2>7, <2>8 DEF CephAbs, Obj
  <2>10. o.trim_limit <= n.trim_limit /\ p <= n.trim_limit
    BY <1>2, <2>3
  <2>11. CephLimited(o, p, r)
    BY <2>2, <2>3, <2>6, <2>10 DEF CephLimited
  <2> QED BY <1>4, <2>2, <2>9, <2>11, CephRefused DEF TrimsTo
<1> QED BY <1>3, <1>4

\* cls_zlog entry_seal does what ObjectSpec promises.
LEMMA CephSeal ==
    ASSUME NEW o, CephOk(o), NEW e \in Epochs, NEW size \in OmapMaxSizes,
           NEW r, r = C!entry_seal(o, e, size)
    PROVE  /\ CephOk(r.obj) /\ Seals(CephAbs(o), e, CephAbs(r.obj), r.ret)
           /\ r.obj.trim_limit = o.trim_limit /\ r.obj.omap = o.omap /\ r.obj.stream = o.stream
<1>1. e \in Nat /\ size \in Int /\ o \in CephObject /\ CephAbs(o).epoch = o.epoch
  BY Numbers, ObjectsAssumption DEF CephOk, CephAbs, Obj
<1>2. CASE e = 0
  BY <1>1, <1>2 DEF C!entry_seal, C!Reply, Seals
<1>3. CASE e # 0 /\ e <= o.epoch
  BY <1>1, <1>3 DEF C!entry_seal, C!Reply, Seals
<1>4. CASE e # 0 /\ ~(e <= o.epoch)
  <2>1. PICK n : n = [o EXCEPT !.omap_max_size = size, !.epoch = e]
    OBVIOUS
  <2>2. r.ret = "OK" /\ r.obj = n
    BY <1>1, <1>4, <2>1 DEF C!entry_seal, C!Reply
  <2>3. n \in CephObject
    BY <1>1, <2>1 DEF CephObject
  <2>4. /\ n.epoch = e /\ n.max_pos = o.max_pos /\ n.trim_limit = o.trim_limit
        /\ n.omap = o.omap /\ n.stream = o.stream
    BY <1>1, <2>1 DEF CephObject
  <2>5. n.empty <=> o.empty
    BY <1>1, <2>1 DEF CephObject
  <2>6. Used(n) = Used(o)
    BY <2>4 DEF Used
  <2>7. CephOk(n)
    BY <2>3, <2>4, <2>5, <2>6 DEF CephOk
  <2>8. C!entry_max_position(n) = C!entry_max_position(o)
    BY <2>4, <2>5 DEF C!entry_max_position
  <2>9. \A q \in Positions : CephCellOf(n, q) = CephCellOf(o, q)
    BY <2>4 DEF CephCellOf, C!EntryBytes
  <2>10. CephAbs(n) = Obj(e, CephAbs(o).cells, CephAbs(o).top)
    BY <2>4, <2>8, <2>9 DEF CephAbs, Obj
  <2> QED BY <1>1, <1>4, <2>2, <2>4, <2>7, <2>10 DEF Seals
<1> QED BY <1>2, <1>3, <1>4

\* cls_zlog entry_read answers what ObjectSpec promises.
LEMMA CephRead ==
    ASSUME NEW o, CephOk(o), NEW e \in Epochs, NEW p \in Positions,
           NEW ret, ret = C!entry_read(o, e, p),
           NEW val, val = IF ret = "OK" THEN Decoded(C!EntryBytes(o, p)) ELSE 0
    PROVE  \/ Turned(CephAbs(o), e, CephAbs(o), ret) /\ val = 0
           \/ Reads(CephAbs(o), e, p, ret, val)
<1>1. CephAbs(o).cells[p] = CephCellOf(o, p)
  BY DEF CephAbs, Obj
<1>2. CASE C!Guard(o, e) # "OK"
  <2>1. ret = C!Guard(o, e)
    BY <1>2 DEF C!entry_read
  <2> QED BY <1>2, <2>1, CephRefused
<1>3. CASE C!Guard(o, e) = "OK" /\ p <= o.trim_limit
  <2>1. ret = "ENODATA" /\ CephCellOf(o, p) = -1
    BY <1>3, CephCellIs DEF C!entry_read, C!position_trimmed
  <2> QED BY <1>1, <1>3, <2>1, CephRefused DEF Reads
<1>4. CASE C!Guard(o, e) = "OK" /\ ~(p <= o.trim_limit) /\ p \notin DOMAIN o.omap
  <2>1. ret = "ERANGE" /\ CephCellOf(o, p) = 0
    BY <1>4, CephCellIs DEF C!entry_read, C!position_trimmed, C!exists
  <2> QED BY <1>1, <1>4, <2>1, CephRefused DEF Reads
<1>5. CASE C!Guard(o, e) = "OK" /\ ~(p <= o.trim_limit) /\ p \in DOMAIN o.omap /\ o.omap[p].invalid
  <2>1. ret = "ENODATA" /\ CephCellOf(o, p) = -1
    BY <1>5, CephCellIs DEF C!entry_read, C!position_trimmed, C!exists, C!invalid
  <2> QED BY <1>1, <1>5, <2>1, CephRefused DEF Reads
<1>6. CASE C!Guard(o, e) = "OK" /\ ~(p <= o.trim_limit) /\ p \in DOMAIN o.omap /\ ~o.omap[p].invalid
  <2>1. ret = "OK"
    BY <1>6 DEF C!entry_read, C!position_trimmed, C!exists, C!invalid
  <2>2. CephCellOf(o, p) = Decoded(C!EntryBytes(o, p)) /\ CephCellOf(o, p) \in Data
    BY <1>6, CephCellIs DEF CephCellOf
  <2> QED BY <1>1, <1>6, <2>1, <2>2, CephRefused, Numbers DEF Reads
<1> QED BY <1>2, <1>3, <1>4, <1>5, <1>6

\* Once the limit covers the whole object, entries and stream can go unseen.
Covered(limit) == NumPositions - 1 <= limit

\* Removing entries and bytes of a covered object is invisible.
LEMMA CephReclaims ==
    ASSUME NEW o, CephOk(o), Covered(o.trim_limit), NEW n \in CephObject,
           n.epoch = o.epoch, n.max_pos = o.max_pos, n.trim_limit = o.trim_limit,
           n.empty <=> o.empty, DOMAIN n.omap \subseteq DOMAIN o.omap,
           Len(n.stream) <= Len(o.stream)
    PROVE  CephOk(n) /\ CephAbs(n) = CephAbs(o)
<1>1. o \in CephObject
  BY DEF CephOk
<1>2. /\ o.trim_limit \in Nat \cup {-1} /\ Len(o.stream) \in Nat /\ Len(n.stream) \in Nat
      /\ o.omap \in Omaps
  BY <1>1, CephFields
<1>3. \A p \in Positions : p <= o.trim_limit
  BY <1>2, ObjectsAssumption DEF Covered, Positions
<1>4. Used(n) = Used(o)
  BY <1>3 DEF Used
<1>5. DOMAIN n.omap \subseteq Positions
  BY <1>2, OmapFacts
<1>6. Len(n.stream) <= NumData * Cardinality(Used(n))
  <2>1. PICK a \in Nat : a = NumData * Cardinality(Used(o))
    BY UsedGrows
  <2>2. Len(o.stream) <= a
    BY <2>1 DEF CephOk
  <2> QED BY <1>2, <1>4, <2>1, <2>2
<1>7. CephOk(n)
  BY <1>3, <1>5, <1>6 DEF CephOk
<1>8. \A p \in Positions : CephCellOf(n, p) = CephCellOf(o, p)
  BY <1>3 DEF CephCellOf
<1>9. C!entry_max_position(n) = C!entry_max_position(o)
  BY DEF C!entry_max_position
<1> QED BY <1>7, <1>8, <1>9 DEF CephAbs

\* The writer's position in CephBackend::Trim
Reclaimer ==
    [step : {"no", "list", "remove", "truncate", "failed"}, pos : Limits, after : Int, key : Int]

\* Whoever reclaims space has set a limit that covers the object.
CephInv ==
    /\ CephOk(rados)
    /\ gc \in [Clients -> Reclaimer]
    /\ \A c \in Clients : gc[c].step # "no" => Covered(gc[c].pos) /\ gc[c].pos <= rados.trim_limit

Moved(x, t, k) == [x EXCEPT !.step = t, !.key = k, !.after = k]

\* What a Trim remembers of the key it found
LEMMA ReclaimerMoves ==
    ASSUME NEW x \in Reclaimer, NEW t \in {"failed", "remove"}, NEW k \in Nat,
           NEW g, g = Moved(x, t, k)
    PROVE  g \in Reclaimer /\ g.pos = x.pos /\ g.step = t /\ g.key = k /\ g.after = k
<1>1. x.pos \in Limits /\ DOMAIN x = {"step", "pos", "after", "key"}
  BY DEF Reclaimer
<1>2. /\ DOMAIN g = {"step", "pos", "after", "key"}
      /\ g["step"] = t /\ g["pos"] = x.pos /\ g["after"] = k /\ g["key"] = k
  BY <1>1 DEF Moved
<1>3. g = [step |-> t, pos |-> x.pos, after |-> k, key |-> k]
  BY <1>1, <1>2 DEF Moved
<1>4. g \in Reclaimer
  BY <1>1, <1>3 DEF Reclaimer
<1> QED BY <1>3, <1>4

\* The limit covers the object while somebody reclaims space.
LEMMA CephCovered ==
    ASSUME CephInv, NEW c \in Clients, gc[c].step # "no"
    PROVE  Covered(rados.trim_limit)
<1>1. gc[c] \in Reclaimer /\ rados \in CephObject
  BY DEF CephInv, CephOk
<1>2. gc[c].pos \in Nat /\ rados.trim_limit \in Nat \cup {-1}
  BY <1>1, CephFields, Numbers DEF Reclaimer
<1> QED BY <1>2, ObjectsAssumption DEF CephInv, Covered

\* A covered object takes no more writes, fills or trims of a position.
LEMMA CephClosed ==
    ASSUME NEW o, CephOk(o), Covered(o.trim_limit), NEW e \in Epochs, NEW p \in Positions,
           NEW bytes, NEW r,
           \/ r = C!entry_write(o, e, p, bytes)
           \/ r = C!entry_invalidate(o, e, p, FALSE, FALSE)
           \/ r = C!entry_invalidate(o, e, p, TRUE, FALSE)
    PROVE  r.obj = o
<1>1. p <= o.trim_limit
  <2>1. o \in CephObject
    BY DEF CephOk
  <2>2. o.trim_limit \in Nat \cup {-1}
    BY <2>1, CephFields
  <2> QED BY <2>2, ObjectsAssumption DEF Covered, Positions
<1>2. CASE r = C!entry_write(o, e, p, bytes)
  BY <1>1, <1>2 DEF C!entry_write, C!position_trimmed, C!Reply
<1>3. CASE r = C!entry_invalidate(o, e, p, FALSE, FALSE)
  BY <1>1, <1>3 DEF C!entry_invalidate, C!position_trimmed, C!Reply
<1>4. CASE r = C!entry_invalidate(o, e, p, TRUE, FALSE)
  BY <1>1, <1>4 DEF C!entry_invalidate, C!position_trimmed, C!Reply
<1> QED BY <1>2, <1>3, <1>4

\* A set of positions has a smallest one.
LEMMA SmallestKey ==
    ASSUME NEW S \in SUBSET Positions, S # {}
    PROVE  Min(S) \in S /\ Min(S) \in Nat /\ \A p \in S : Min(S) <= p
<1>1. S \subseteq Nat
  BY Numbers
<1>2. PICK k \in S : \A y \in S : ~ (<<y, k>> \in OpToRel(<, Nat))
  BY <1>1, NatLessThanWellFounded, WFMin
<1>3. ASSUME NEW y \in S PROVE k <= y
  <2>1. y \in Nat /\ k \in Nat
    BY <1>1
  <2>2. ASSUME y < k PROVE FALSE
    <3>1. <<y, k>> \in OpToRel(<, Nat)
      BY <2>1, <2>2 DEF OpToRel
    <3> QED BY <1>2, <3>1
  <2> QED BY <2>1, <2>2
<1>4. \E x \in S : \A p \in S : x <= p
  BY <1>3
<1> QED BY <1>1, <1>4 DEF Min

\* A promised call that moves no limit under somebody who reclaims space
LEMMA CephCall ==
    ASSUME CephInv, CephOk(rados'), Promised(CephAbs(rados), CephAbs(rados'), call', ans'.ceph), gc' = gc,
           \A c \in Clients : gc[c].step # "no" => rados'.trim_limit = rados.trim_limit
    PROVE  CephInv' /\ CephSpec!Next
<1>1. PICK a, b, q, y : a = CephObj /\ b = CephObj' /\ q = call' /\ y = ans'.ceph
  OBVIOUS
<1>2. Promised(a, b, q, y)
  BY <1>1, CephAbsIs
<1>3. CephSpec!Next
  BY <1>1, <1>2, CephPromised
<1>4. CephInv'
  BY Zenon DEF CephInv
<1> QED BY <1>3, <1>4

\* The calls of the storage interface keep the object in Ceph sound and are promised.
LEMMA CephCalls ==
    ASSUME OffsetsFit, CephInv,
           \/ MaxPos
           \/ \E e \in Epochs, size \in OmapMaxSizes : Seal(e, size)
           \/ \E e \in Epochs, p \in Positions :
                \/ Read(e, p) \/ Fill(e, p) \/ TrimOne(e, p) \/ BadTrim(e, p)
                \/ \E d \in Data : Write(e, p, d)
    PROVE  CephInv' /\ CephSpec!Next
<1> DEFINE x == ans'.ceph
<1>1. CephOk(rados)
  BY DEF CephInv
<1>2. ASSUME NEW c \in Clients, gc[c].step # "no", NEW e \in Epochs, NEW p \in Positions,
             NEW bytes, NEW r,
             \/ r = C!entry_write(rados, e, p, bytes)
             \/ r = C!entry_invalidate(rados, e, p, FALSE, FALSE)
             \/ r = C!entry_invalidate(rados, e, p, TRUE, FALSE)
      PROVE  r.obj = rados
  <2>1. Covered(rados.trim_limit)
    BY <1>2, CephCovered
  <2> QED BY <1>1, <1>2, <2>1, CephClosed
<1>3. CASE MaxPos
  <2>1. /\ rados' = rados /\ gc' = gc
        /\ call' = Request("maxpos", 0, 0, 0, FALSE, FALSE)
        /\ x = Value(IF rados.epoch = 0 THEN "ENOENT" ELSE "OK",
                     C!entry_max_position(rados))
    BY <1>3 DEF MaxPos, Asks, Answers
  <2>2. CephAbs(rados).epoch = rados.epoch /\ CephAbs(rados).top = C!entry_max_position(rados)
    BY DEF CephAbs, Obj
  <2>3. Promised(CephAbs(rados), CephAbs(rados'), call', x)
    BY <2>1, <2>2 DEF Promised, Refusable, Request, Value
  <2> QED BY <1>1, <2>1, <2>3, CephCall
<1>4. ASSUME NEW e \in Epochs, NEW size \in OmapMaxSizes, Seal(e, size)
      PROVE  CephInv' /\ CephSpec!Next
  <2>1. PICK r : r = C!entry_seal(rados, e, size)
    OBVIOUS
  <2>2. /\ call' = Request("seal", e, 0, 0, FALSE, FALSE)
        /\ rados' = r.obj /\ x = Value(r.ret, 0) /\ gc' = gc
    BY <1>4, <2>1 DEF Seal, Asks, Call, Answers
  <2>3. /\ CephOk(r.obj) /\ Seals(CephAbs(rados), e, CephAbs(r.obj), r.ret)
        /\ r.obj.trim_limit = rados.trim_limit
    BY <1>1, <2>1, CephSeal
  <2>4. Promised(CephAbs(rados), CephAbs(rados'), call', x)
    BY <2>2, <2>3 DEF Promised, Refusable, Request, Value
  <2> QED BY <2>2, <2>3, <2>4, CephCall
<1>5. ASSUME NEW e \in Epochs, NEW p \in Positions, Read(e, p)
      PROVE  CephInv' /\ CephSpec!Next
  <2>1. PICK ret : ret = C!entry_read(rados, e, p)
    OBVIOUS
  <2>2. PICK val : val = IF ret = "OK" THEN Decoded(C!EntryBytes(rados, p)) ELSE 0
    OBVIOUS
  <2>3. /\ rados' = rados /\ gc' = gc
        /\ call' = Request("read", e, p, 0, FALSE, FALSE)
        /\ x = Value(ret, IF ret = "OK" THEN Decoded(C!EntryBytes(rados, p)) ELSE 0)
    BY <1>5, <2>1 DEF Read, Asks, Answers
  <2>4. \/ Turned(CephAbs(rados), e, CephAbs(rados), ret) /\ val = 0
        \/ Reads(CephAbs(rados), e, p, ret, val)
    BY <1>1, <2>1, <2>2, CephRead
  <2>5. x.ret = ret /\ x.val = val
    BY <2>2, <2>3 DEF Value
  <2>6. Promised(CephAbs(rados), CephAbs(rados'), call', x)
    <3> HIDE DEF x
    <3> QED BY <2>3, <2>4, <2>5 DEF Promised, Refusable, Request
  <2> QED BY <1>1, <2>3, <2>6, CephCall
<1>6. ASSUME NEW e \in Epochs, NEW p \in Positions, Fill(e, p)
      PROVE  CephInv' /\ CephSpec!Next
  <2>1. PICK r : r = C!entry_invalidate(rados, e, p, FALSE, FALSE)
    OBVIOUS
  <2>2. /\ call' = Request("fill", e, p, 0, FALSE, FALSE)
        /\ rados' = r.obj /\ x = Value(r.ret, 0) /\ gc' = gc
    BY <1>6, <2>1 DEF Fill, Asks, Call, Answers
  <2>3. /\ CephOk(r.obj)
        /\ \/ Turned(CephAbs(rados), e, CephAbs(r.obj), r.ret)
           \/ Fills(CephAbs(rados), e, p, CephAbs(r.obj), r.ret)
    BY <1>1, <2>1, CephFill
  <2>4. Promised(CephAbs(rados), CephAbs(rados'), call', x)
    BY <2>2, <2>3 DEF Promised, Refusable, Request, Value
  <2> QED BY <1>2, <2>1, <2>2, <2>3, <2>4, CephCall
<1>7. ASSUME NEW e \in Epochs, NEW p \in Positions, TrimOne(e, p)
      PROVE  CephInv' /\ CephSpec!Next
  <2>1. PICK r : r = C!entry_invalidate(rados, e, p, TRUE, FALSE)
    OBVIOUS
  <2>2. /\ call' = Request("trim", e, p, 0, FALSE, FALSE)
        /\ rados' = r.obj /\ x = Value(r.ret, 0) /\ gc' = gc
    BY <1>7, <2>1 DEF TrimOne, Asks, Call, Answers
  <2>3. /\ CephOk(r.obj)
        /\ \/ Turned(CephAbs(rados), e, CephAbs(r.obj), r.ret)
           \/ Trims(CephAbs(rados), e, p, CephAbs(r.obj), r.ret)
    BY <1>1, <2>1, CephTrim
  <2>4. Promised(CephAbs(rados), CephAbs(rados'), call', x)
    BY <2>2, <2>3 DEF Promised, Refusable, Request, Value
  <2> QED BY <1>2, <2>1, <2>2, <2>3, <2>4, CephCall
<1>8. ASSUME NEW e \in Epochs, NEW p \in Positions, BadTrim(e, p)
      PROVE  CephInv' /\ CephSpec!Next
  <2>1. /\ call' = Request("trim", e, p, 0, FALSE, TRUE)
        /\ rados' = rados /\ x = Value("EINVAL", 0) /\ gc' = gc
    BY <1>8 DEF BadTrim, Asks, Call, Answers, C!Reply
  <2>2. Promised(CephAbs(rados), CephAbs(rados'), call', x)
    BY <2>1 DEF Promised, Refusable, Request, Value
  <2> QED BY <1>1, <2>1, <2>2, CephCall
<1>9. ASSUME NEW e \in Epochs, NEW p \in Positions, NEW d \in Data, Write(e, p, d)
      PROVE  CephInv' /\ CephSpec!Next
  <2>1. PICK r : r = C!entry_write(rados, e, p, Bytes(d))
    OBVIOUS
  <2>2. /\ call' = Request("write", e, p, d, FALSE, FALSE)
        /\ rados' = r.obj /\ x = Value(r.ret, 0) /\ gc' = gc
    BY <1>9, <2>1 DEF Write, Asks, Call, Answers
  <2>3. /\ CephOk(r.obj)
        /\ \/ Turned(CephAbs(rados), e, CephAbs(r.obj), r.ret)
           \/ Writes(CephAbs(rados), e, p, d, CephAbs(r.obj), r.ret)
    BY <1>1, <2>1, CephWrite
  <2>4. Promised(CephAbs(rados), CephAbs(rados'), call', x)
    BY <2>2, <2>3 DEF Promised, Refusable, Request, Value
  <2> QED BY <1>2, <2>1, <2>2, <2>3, <2>4, CephCall
<1> QED BY <1>3, <1>4, <1>5, <1>6, <1>7, <1>8, <1>9

\* A range trim in Ceph: the caller may start to reclaim space.
LEMMA CephTrimStep ==
    ASSUME LimitsFit, CephInv, NEW c \in Clients, NEW e \in Epochs, NEW p \in Limits, NEW full \in BOOLEAN,
           Trim(c, e, p, full)
    PROVE  CephInv' /\ CephSpec!Next
<1> DEFINE x == ans'.ceph
<1>1. CephOk(rados) /\ rados \in CephObject /\ gc \in [Clients -> Reclaimer]
  BY DEF CephInv, CephOk
<1>2. PICK r : r = C!entry_invalidate(rados, e, p, TRUE, TRUE)
  OBVIOUS
<1>3. PICK g : g = IF GoesOn(r.ret, full) THEN [NotTrimming EXCEPT !.step = "list", !.pos = p] ELSE gc[c]
  OBVIOUS
<1>4. /\ call' = Request("trim", e, p, 0, TRUE, full)
      /\ rados' = r.obj /\ x = Value(r.ret, 0)
      /\ full => Covered(p)
      /\ gc' = [gc EXCEPT ![c] = g]
  <2>1. /\ call' = Request("trim", e, p, 0, TRUE, full)
        /\ rados' = r.obj /\ x = Value(r.ret, 0)
    BY <1>2 DEF Trim, Asks, Call, Answers
  <2>2. full => p >= NumPositions - 1
    BY DEF Trim
  <2>3. gc' = [gc EXCEPT ![c] = g]
    BY <1>2, <1>3 DEF Trim
  <2> QED BY <2>1, <2>2, <2>3, ObjectsAssumption, Numbers DEF Covered
<1>5. /\ CephOk(r.obj) /\ rados.trim_limit <= r.obj.trim_limit
      /\ r.ret = "OK" => p <= r.obj.trim_limit
      /\ \/ Turned(CephAbs(rados), e, CephAbs(r.obj), r.ret)
         \/ TrimsTo(CephAbs(rados), e, p, CephAbs(r.obj), r.ret)
  BY <1>1, <1>2, CephTrimLimit DEF CephLimited
<1>6. CephSpec!Next
  <2>1. Promised(CephAbs(rados), CephAbs(rados'), call', x)
    BY <1>4, <1>5 DEF Promised, Refusable, Request, Value
  <2>2. PICK a, b, q, y : a = CephObj /\ b = CephObj' /\ q = call' /\ y = ans'.ceph
    OBVIOUS
  <2>3. Promised(a, b, q, y)
    BY <2>1, <2>2, CephAbsIs
  <2> QED BY <2>2, <2>3, CephPromised
<1>7. /\ g \in Reclaimer
      /\ g.step # "no" => Covered(g.pos) /\ g.pos <= rados'.trim_limit
  <2>1. CASE GoesOn(r.ret, full)
    <3>1. g = [step |-> "list", pos |-> p, after |-> -1, key |-> 0]
      BY <1>3, <2>1 DEF NotTrimming
    <3>2. g \in Reclaimer /\ g.pos = p
      BY <3>1 DEF Reclaimer
    <3> QED BY <1>4, <1>5, <2>1, <3>2 DEF GoesOn
  <2>2. CASE ~GoesOn(r.ret, full)
    <3>1. g = gc[c] /\ g \in Reclaimer /\ gc[c].step = "no"
      BY <1>1, <1>3, <2>2 DEF Trim, Asks, Ready
    <3> QED BY <3>1
  <2> QED BY <2>1, <2>2
<1>8. ASSUME NEW d \in Clients, d # c, gc[d].step # "no"
      PROVE  gc[d].pos <= rados'.trim_limit
  <2>1. gc[d] \in Reclaimer /\ gc[d].pos <= rados.trim_limit /\ r.obj \in CephObject
    BY <1>1, <1>5, <1>8 DEF CephInv, CephOk
  <2>2. PICK i \in Int, j \in Int, k \in Int :
          i = gc[d].pos /\ j = rados.trim_limit /\ k = r.obj.trim_limit
    <3>1. gc[d].pos \in Limits
      BY <2>1 DEF Reclaimer
    <3>2. rados.trim_limit \in Nat \cup {-1} /\ r.obj.trim_limit \in Nat \cup {-1}
      BY <1>1, <2>1, CephFields
    <3>3. gc[d].pos \in Nat
      BY <3>1, Numbers, Zenon
    <3>4. \A i : i \in Nat \/ i \in Nat \cup {-1} => i \in Int
      OBVIOUS
    <3> QED BY <3>2, <3>3, <3>4, Zenon
  <2>3. i <= j /\ j <= k
    BY <1>5, <2>1, <2>2
  <2>4. i <= k
    BY <2>3
  <2> QED BY <1>4, <2>2, <2>4, Zenon
<1>9. CephInv'
  <2>1. CephOk(rados') /\ gc' \in [Clients -> Reclaimer]
    BY <1>1, <1>4, <1>5, <1>7
  <2>2. \A d \in Clients : gc'[d] = IF d = c THEN g ELSE gc[d]
    BY <1>1, <1>4
  <2>3. \A d \in Clients : gc'[d].step # "no" => Covered(gc'[d].pos) /\ gc'[d].pos <= rados'.trim_limit
    BY <1>7, <1>8, <2>2, Zenon DEF CephInv
  <2> QED BY <2>1, <2>3 DEF CephInv
<1> QED BY <1>6, <1>9

\* Steps of CephBackend::Trim after the class call change nothing that a
\* client can see: the limit already covers what they remove.
LEMMA CephReclaimStep ==
    ASSUME CephInv, NEW c \in Clients,
           TrimList(c) \/ TrimRemove(c) \/ TrimTruncate(c) \/ Crash(c)
    PROVE  CephInv' /\ CephAbs(rados') = CephAbs(rados) /\ ans' = ans /\ call' = call
<1>1. CephOk(rados) /\ rados \in CephObject /\ gc \in [Clients -> Reclaimer] /\ gc[c] \in Reclaimer
  BY DEF CephInv, CephOk
<1>2. gc[c].step # "no" /\ Covered(rados.trim_limit)
  BY CephCovered DEF TrimList, TrimRemove, TrimTruncate, Crash, Ready
<1>3. ASSUME NEW g \in Reclaimer, g.step # "no" => g.pos = gc[c].pos, gc' = [gc EXCEPT ![c] = g],
             CephOk(rados'), rados'.trim_limit = rados.trim_limit
      PROVE  CephInv'
  <2>1. gc' \in [Clients -> Reclaimer]
    BY <1>1, <1>3
  <2>2. \A d \in Clients : gc'[d] = IF d = c THEN g ELSE gc[d]
    BY <1>1, <1>3
  <2>3. \A d \in Clients : gc'[d].step # "no" => Covered(gc'[d].pos) /\ gc'[d].pos <= rados'.trim_limit
    BY <1>2, <1>3, <2>2, Zenon DEF CephInv
  <2> QED BY <1>3, <2>1, <2>3 DEF CephInv
<1>4. CASE TrimList(c)
  <2>1. PICK S : S = {p \in DOMAIN rados.omap : p > gc[c].after}
    OBVIOUS
  <2>2. S \in SUBSET Positions
    BY <1>1, <2>1, CephFields, OmapFacts
  <2>3. PICK g : g = IF S = {} THEN [gc[c] EXCEPT !.step = "truncate"]
                     ELSE [gc[c] EXCEPT !.step = IF Min(S) > gc[c].pos THEN "failed" ELSE "remove",
                                        !.key = Min(S), !.after = Min(S)]
    OBVIOUS
  <2>4. gc' = [gc EXCEPT ![c] = g] /\ rados' = rados /\ ans' = ans /\ call' = call
    BY <1>4, <2>1, <2>3 DEF TrimList, After
  <2>5. g \in Reclaimer /\ g.pos = gc[c].pos
    <3>1. CASE S = {}
      <4>1. g = [gc[c] EXCEPT !.step = "truncate"]
        BY <2>3, <3>1
      <4> QED BY <1>1, <4>1 DEF Reclaimer
    <3>2. CASE S # {}
      <4>1. PICK k \in Nat : k = Min(S)
        BY <2>2, <3>2, SmallestKey
      <4>2. PICK t \in {"failed", "remove"} : t = IF k > gc[c].pos THEN "failed" ELSE "remove"
        OBVIOUS
      <4>3. g = [gc[c] EXCEPT !.step = t, !.key = k, !.after = k]
        BY <2>3, <3>2, <4>1, <4>2
      <4>4. PICK y \in Reclaimer : y = gc[c]
        BY <1>1
      <4>5. g = Moved(y, t, k)
        BY <4>3, <4>4 DEF Moved
      <4>6. g \in Reclaimer /\ g.pos = y.pos
        BY <4>5, ReclaimerMoves
      <4> QED BY <4>4, <4>6
    <3> QED BY <3>1, <3>2
  <2>6. CephInv'
    BY <1>1, <1>3, <2>4, <2>5
  <2> QED BY <2>4, <2>6
<1>5. CASE TrimRemove(c)
  <2>1. PICK m : m = [p \in DOMAIN rados.omap \ {gc[c].key} |-> rados.omap[p]]
    OBVIOUS
  <2>2. PICK g : g = [gc[c] EXCEPT !.step = "list"]
    OBVIOUS
  <2>3. rados' = [rados EXCEPT !.omap = m] /\ gc' = [gc EXCEPT ![c] = g] /\ ans' = ans /\ call' = call
    BY <1>5, <2>1, <2>2 DEF TrimRemove, After
  <2>4. g \in Reclaimer /\ g.pos = gc[c].pos
    BY <1>1, <2>2 DEF Reclaimer
  <2>5. m \in Omaps /\ DOMAIN m \subseteq DOMAIN rados.omap
    <3>1. rados.omap \in Omaps
      BY <1>1, CephFields
    <3>2. DOMAIN m \subseteq DOMAIN rados.omap /\ DOMAIN m \in SUBSET Positions
      BY <2>1, <3>1, OmapFacts
    <3>3. m \in [DOMAIN m -> CephEntry]
      BY <2>1, <3>1, OmapFacts
    <3> QED BY <3>2, <3>3 DEF Omaps
  <2>6. rados' \in CephObject
    BY <1>1, <2>3, <2>5 DEF CephObject
  <2>7. /\ rados'.epoch = rados.epoch /\ rados'.max_pos = rados.max_pos
        /\ rados'.trim_limit = rados.trim_limit /\ rados'.stream = rados.stream /\ rados'.omap = m
    BY <1>1, <2>3 DEF CephObject
  <2>8. rados'.empty <=> rados.empty
    BY <1>1, <2>3 DEF CephObject
  <2>9. Len(rados'.stream) <= Len(rados.stream)
    BY <1>1, <2>7, CephFields
  <2>10. PICK o, n : o = rados /\ n = rados'
    OBVIOUS
  <2>11. CephOk(n) /\ CephAbs(n) = CephAbs(o)
    BY <1>1, <1>2, <2>5, <2>6, <2>7, <2>8, <2>9, <2>10, CephReclaims
  <2>12. CephInv'
    BY <1>3, <2>3, <2>4, <2>7, <2>10, <2>11
  <2> QED BY <2>3, <2>10, <2>11, <2>12
<1>6. CASE TrimTruncate(c)
  <2>1. rados' = [rados EXCEPT !.stream = <<>>] /\ gc' = [gc EXCEPT ![c] = NotTrimming] /\ ans' = ans /\ call' = call
    BY <1>6 DEF TrimTruncate, After
  <2>2. NotTrimming \in Reclaimer /\ NotTrimming.step = "no"
    BY Numbers, ObjectsAssumption DEF NotTrimming, Reclaimer, Limits
  <2>3. <<>> \in Seq(Data) /\ Len(<<>>) = 0
    BY EmptySeq
  <2>4. rados' \in CephObject
    BY <1>1, <2>1, <2>3 DEF CephObject
  <2>5. /\ rados'.epoch = rados.epoch /\ rados'.max_pos = rados.max_pos
        /\ rados'.trim_limit = rados.trim_limit /\ rados'.stream = <<>> /\ rados'.omap = rados.omap
    BY <1>1, <2>1 DEF CephObject
  <2>6. rados'.empty <=> rados.empty
    BY <1>1, <2>1 DEF CephObject
  <2>7. Len(rados'.stream) <= Len(rados.stream)
    BY <1>1, <2>3, <2>5, CephFields
  <2>8. PICK o, n : o = rados /\ n = rados'
    OBVIOUS
  <2>9. CephOk(n) /\ CephAbs(n) = CephAbs(o)
    BY <1>1, <1>2, <2>4, <2>5, <2>6, <2>7, <2>8, CephReclaims
  <2>10. CephInv'
    BY <1>3, <2>1, <2>2, <2>5, <2>8, <2>9
  <2> QED BY <2>1, <2>8, <2>9, <2>10
<1>7. CASE Crash(c)
  <2>1. rados' = rados /\ gc' = [gc EXCEPT ![c] = NotTrimming] /\ ans' = ans /\ call' = call
    BY <1>7 DEF Crash, After
  <2>2. NotTrimming \in Reclaimer /\ NotTrimming.step = "no"
    BY Numbers, ObjectsAssumption DEF NotTrimming, Reclaimer, Limits
  <2>3. CephInv'
    BY <1>1, <1>3, <2>1, <2>2
  <2> QED BY <2>1, <2>3
<1> QED BY <1>4, <1>5, <1>6, <1>7

\* Every step keeps the object in Ceph sound and is promised, or changes nothing of it.
LEMMA CephStep ==
    ASSUME LimitsFit, OffsetsFit, CephInv, [Next]_vars
    PROVE  CephInv' /\ (CephSpec!Next \/ UNCHANGED CephSpec!vars)
<1>1. ASSUME NEW c \in Clients, TrimList(c) \/ TrimRemove(c) \/ TrimTruncate(c) \/ Crash(c)
      PROVE  CephInv' /\ UNCHANGED CephSpec!vars
  <2>1. CephInv' /\ CephAbs(rados') = CephAbs(rados) /\ ans' = ans /\ call' = call
    BY <1>1, CephReclaimStep
  <2>2. CephObj' = CephObj
    BY <2>1, CephAbsIs
  <2>3. rados'.epoch = rados.epoch /\ CephCells' = CephCells /\ CephTop' = CephTop
    BY <2>2 DEF CephObj, Obj
  <2> QED BY <2>1, <2>3 DEF CephSpec!vars
<1>2. CASE UNCHANGED vars
  <2>1. rados' = rados /\ gc' = gc /\ ans' = ans /\ call' = call
    BY <1>2 DEF vars
  <2>2. CephInv'
    BY <2>1 DEF CephInv
  <2> QED BY <2>1, <2>2 DEF CephSpec!vars, CephCells, CephCell, CephTop
<1> QED BY <1>1, <1>2, CephCalls, CephTrimStep DEF Next

\* The initial state of the object in Ceph is sound and empty.
LEMMA CephInit ==
    ASSUME Init PROVE CephInv /\ CephSpec!Init
<1>1. /\ rados = [epoch |-> 0, empty |-> TRUE, max_pos |-> 0, omap_max_size |-> -1,
                  trim_limit |-> -1, omap |-> <<>>, stream |-> <<>>]
      /\ ans.ceph = [ret |-> "OK", val |-> 0]
      /\ call = Request("none", 0, 0, 0, FALSE, FALSE)
  BY DEF Init, C!Absent, C!NoLimit
<1>2. <<>> \in Seq(Data) /\ Len(<<>>) = 0 /\ DOMAIN <<>> = {} /\ <<>> \in Omaps
  <2>1. <<>> \in [{} -> CephEntry] /\ {} \in SUBSET Positions
    OBVIOUS
  <2> QED BY <2>1, EmptySeq DEF Omaps
<1>3. rados \in CephObject
  BY <1>1, <1>2, ObjectsAssumption DEF CephObject, Epochs
<1>4. PICK a \in Nat : a = NumData * Cardinality(Used(rados))
  BY UsedGrows
<1>5. CephOk(rados)
  BY <1>1, <1>2, <1>3, <1>4 DEF CephOk
<1>6. gc \in [Clients -> Reclaimer] /\ \A c \in Clients : gc[c].step = "no"
  BY ObjectsAssumption DEF Init, NotTrimming, Reclaimer, Limits
<1>7. \A p \in Positions : CephCell(p) = 0
  <2>1. \A p \in Positions : ~(p <= -1)
    BY Numbers
  <2> QED BY <1>1, <1>2, <2>1 DEF CephCell, C!position_trimmed, C!exists
<1>8. CephTop = 0
  BY <1>1 DEF CephTop, C!entry_max_position
<1>9. CephSpec!Init
  BY <1>1, <1>7, <1>8 DEF CephSpec!Init, CephSpec!Empty, CephCells, Request
<1> QED BY <1>5, <1>6, <1>9 DEF CephInv

\* So does the Ceph backend (cls_zlog.cc, ceph.cc), as long as trim limits fit
\* into the int64_t of the header and the stream of an object stays below the
\* 2^32 bytes that LogEntry::offset_ can address: entries are read back from the
\* stream or the omap as written, and reclaiming the space of a trimmed object is
\* invisible, also when a client crashes half way or two clients are at it while
\* others write.
THEOREM CephCorrect == LimitsFit /\ OffsetsFit => (Spec => CephImplements)
<1> SUFFICES ASSUME LimitsFit, OffsetsFit PROVE Spec => CephImplements
  OBVIOUS
<1>1. Init => CephInv /\ CephSpec!Init
  BY CephInit
<1>2. CephInv /\ [Next]_vars => CephInv' /\ [CephSpec!Next]_(CephSpec!vars)
  BY CephStep
<1> QED BY <1>1, <1>2, PTL DEF Spec, CephImplements, CephSpec!Spec

-----------------------------------------------------------------------------
(* What a full trim leaves behind *)

\* The limit covers the object and its entries are gone, in each backend.
RamGone(o) == Covered(o.trim_limit) /\ \A p \in Positions : o.entries[p] = 0

LmdbGone(m) ==
    /\ L!ObjKey \in DOMAIN m /\ Covered(m[L!ObjKey].trim_limit)
    /\ L!GetAll(m, "entry") = {}

CephGone(o) == Covered(o.trim_limit) /\ DOMAIN o.omap = {} /\ o.stream = <<>>

\* An object in the RAM backend that is covered takes no more entries.
LEMMA RamClosed ==
    ASSUME NEW o, RamOk(o), Covered(o.trim_limit), NEW e \in Epochs, NEW p \in Positions,
           NEW d, NEW r,
           \/ r = R!Write(o, e, p, d)
           \/ r = R!Fill(o, e, p)
           \/ r = R!Trim(o, e, p)
    PROVE  r.obj = o
<1>1. o.trim_limit \in Nat \cup {-1}
  BY Numbers DEF RamOk, RamObject
<1>2. R!Trimmed(o, p)
  BY <1>1, ObjectsAssumption DEF R!Trimmed, Covered, Positions
<1>3. CASE r = R!Write(o, e, p, d)
  BY <1>2, <1>3 DEF R!Write, R!Result
<1>4. CASE r = R!Fill(o, e, p)
  BY <1>2, <1>4 DEF R!Fill, R!Result
<1>5. CASE r = R!Trim(o, e, p)
  BY <1>2, <1>5 DEF R!Trim, R!Result
<1> QED BY <1>3, <1>4, <1>5

\* A full trim empties it, and a range trim keeps it empty.
LEMMA RamEmptied ==
    ASSUME NEW o, RamOk(o), NEW e \in Epochs, NEW p \in Limits, NEW full \in BOOLEAN,
           full => Covered(p), NEW r, r = R!TrimLimit(o, e, p, full)
    PROVE  /\ RamGone(o) => RamGone(r.obj)
           /\ r.ret = "OK" /\ full => RamGone(r.obj)
<1>1. o \in RamObject /\ p \in Nat
  BY Numbers DEF RamOk
<1>2. o.trim_limit \in Nat \cup {-1}
  BY <1>1, Numbers DEF RamObject
<1>3. CASE R!CheckEpoch(o, e) # "OK"
  <2>1. r.obj = o /\ r.ret = R!CheckEpoch(o, e)
    BY <1>3 DEF R!TrimLimit, R!Result
  <2> QED BY <1>3, <2>1
<1>4. CASE R!CheckEpoch(o, e) = "OK"
  <2>1. PICK lim : lim = IF o.trim_limit < p THEN p ELSE o.trim_limit
    OBVIOUS
  <2>2. /\ Covered(o.trim_limit) => Covered(lim)
        /\ Covered(p) => Covered(lim)
    BY <1>1, <1>2, <2>1, ObjectsAssumption DEF Covered
  <2>3. CASE full
    <3>1. r.obj = [o EXCEPT !.trim_limit = lim, !.entries = R!Absent.entries]
      BY <1>4, <2>1, <2>3 DEF R!TrimLimit, R!Result, R!Larger
    <3>2. r.obj.trim_limit = lim /\ r.obj.entries = R!Absent.entries
      BY <1>1, <3>1 DEF RamObject
    <3>3. \A q \in Positions : R!Absent.entries[q] = 0
      BY RamPositions DEF R!Absent, R!NoEntry
    <3> QED BY <2>2, <2>3, <3>2, <3>3 DEF RamGone
  <2>4. CASE ~full
    <3>1. r.obj = [o EXCEPT !.trim_limit = lim, !.entries = @]
      BY <1>4, <2>1, <2>4 DEF R!TrimLimit, R!Result, R!Larger
    <3>2. r.obj.trim_limit = lim /\ r.obj.entries = o.entries
      BY <1>1, <3>1 DEF RamObject
    <3> QED BY <2>2, <2>4, <3>2 DEF RamGone
  <2> QED BY <2>3, <2>4
<1> QED BY <1>3, <1>4

\* Nothing fills it again.
LEMMA RamStaysGone ==
    ASSUME RamInv, RamGone(ram), [Next]_vars
    PROVE  RamGone(ram')
<1>1. RamOk(ram) /\ Covered(ram.trim_limit)
  BY DEF RamInv, RamGone
<1>2. ASSUME NEW e \in Epochs, NEW p \in Positions, NEW d, NEW r,
             \/ r = R!Write(ram, e, p, d)
             \/ r = R!Fill(ram, e, p)
             \/ r = R!Trim(ram, e, p)
      PROVE  RamArgs(e, r).obj = ram
  <2>1. r.obj = ram
    BY <1>1, <1>2, RamClosed
  <2> QED BY <2>1 DEF RamArgs, R!Result
<1>3. ASSUME NEW e \in Epochs, NEW p \in Positions, Fill(e, p) PROVE ram' = ram
  BY <1>2, <1>3 DEF Fill, Call
<1>4. ASSUME NEW e \in Epochs, NEW p \in Positions, TrimOne(e, p) PROVE ram' = ram
  BY <1>2, <1>4 DEF TrimOne, Call
<1>5. ASSUME NEW e \in Epochs, NEW p \in Positions, NEW d \in Data, Write(e, p, d)
      PROVE  ram' = ram
  BY <1>2, <1>5 DEF Write, Call
<1>6. ASSUME NEW e \in Epochs, NEW p \in Positions, Read(e, p) \/ BadTrim(e, p) \/ MaxPos
      PROVE  ram' = ram
  BY <1>6 DEF Read, BadTrim, MaxPos, Call, R!Result
<1>7. ASSUME NEW c \in Clients, TrimList(c) \/ TrimRemove(c) \/ TrimTruncate(c) \/ Crash(c)
      PROVE  ram' = ram
  BY <1>7 DEF TrimList, TrimRemove, TrimTruncate, Crash
<1>8. ASSUME NEW e \in Epochs, NEW size \in OmapMaxSizes, Seal(e, size)
      PROVE  RamGone(ram')
  <2>1. ram' = ram \/ ram' = [ram EXCEPT !.epoch = e]
    BY <1>8 DEF Seal, Call, RamArgs, R!Seal, R!Result
  <2>2. ram \in RamObject
    BY <1>1 DEF RamOk
  <2>3. ram'.trim_limit = ram.trim_limit /\ ram'.entries = ram.entries
    BY <2>1, <2>2 DEF RamObject
  <2> QED BY <2>3 DEF RamGone
<1>9. ASSUME NEW c \in Clients, NEW e \in Epochs, NEW p \in Limits, NEW full \in BOOLEAN,
             Trim(c, e, p, full)
      PROVE  RamGone(ram')
  <2>1. PICK r : r = R!TrimLimit(ram, e, p, full)
    OBVIOUS
  <2>2. ram' = r.obj \/ ram' = ram
    BY <1>9, <2>1 DEF Trim, Call, RamArgs, R!Result
  <2>3. full => Covered(p)
    BY <1>9, ObjectsAssumption, Numbers DEF Trim, Covered
  <2>4. RamGone(r.obj)
    BY <1>1, <2>1, <2>3, RamEmptied
  <2> QED BY <2>2, <2>4
<1>10. CASE UNCHANGED vars
  BY <1>10 DEF vars
<1> QED BY <1>3, <1>4, <1>5, <1>6, <1>7, <1>8, <1>9, <1>10, Numbers DEF Next

\* The same for LMDB: a covered object takes no more entries.
LEMMA LmdbClosed ==
    ASSUME NEW m, LmdbOk(m), LmdbGone(m), NEW e \in Epochs, NEW p \in Positions, NEW d, NEW r,
           \/ r = L!Write(m, e, p, d)
           \/ r = L!Fill(m, e, p)
           \/ r = L!Trim(m, e, p, FALSE, FALSE)
           \/ r = L!Trim(m, e, p, FALSE, TRUE)
    PROVE  r.db = m
<1>1. L!ObjKey \in DOMAIN m /\ Covered(m[L!ObjKey].trim_limit)
  BY DEF LmdbGone
<1>2. m[L!ObjKey].trim_limit \in Nat \cup {-1}
  BY <1>1, LmdbTopIs
<1>3. L!Trimmed(m, p)
  BY <1>1, <1>2, ObjectsAssumption DEF L!Trimmed, Covered, Positions
<1>4. CASE r = L!Write(m, e, p, d)
  BY <1>3, <1>4 DEF L!Write, L!Abort
<1>5. CASE r = L!Fill(m, e, p)
  BY <1>3, <1>5 DEF L!Fill, L!Abort
<1>6. CASE r = L!Trim(m, e, p, FALSE, FALSE)
  BY <1>3, <1>6 DEF L!Trim, L!Abort, L!Commit
<1>7. CASE r = L!Trim(m, e, p, FALSE, TRUE)
  BY <1>7 DEF L!Trim, L!Abort
<1> QED BY <1>4, <1>5, <1>6, <1>7

\* A full trim empties it, and a range trim keeps it empty.
LEMMA LmdbEmptied ==
    ASSUME LimitsFit, NEW m, LmdbOk(m), NEW e \in Epochs, NEW p \in Limits, NEW full \in BOOLEAN,
           full => p >= NumPositions - 1, NEW r, r = L!Trim(m, e, p, TRUE, full)
    PROVE  /\ LmdbGone(m) => LmdbGone(r.db)
           /\ r.ret = "OK" /\ full => LmdbGone(r.db)
<1>1. CASE L!CheckEpoch(m, e) # "OK"
  <2>1. r.ret = L!CheckEpoch(m, e) /\ r.db = m
    BY <1>1 DEF L!Trim, L!Abort
  <2> QED BY <1>1, <2>1
<1>2. CASE L!CheckEpoch(m, e) = "OK"
  <2>1. /\ L!ObjKey \in DOMAIN m /\ WithLimit(m, p, r.db)
        /\ L!GetAll(r.db, "entry") \subseteq L!GetAll(m, "entry")
    BY <1>2, LmdbRange
  <2>2. p \in Nat /\ m[L!ObjKey].trim_limit \in Nat \cup {-1}
    BY <2>1, LmdbTopIs, Numbers
  <2>3. /\ L!ObjKey \in DOMAIN r.db
        /\ r.db[L!ObjKey].trim_limit =
             IF p < m[L!ObjKey].trim_limit THEN m[L!ObjKey].trim_limit ELSE p
    BY <2>1 DEF WithLimit
  <2>4. PICK i, j : i = m[L!ObjKey].trim_limit /\ j = r.db[L!ObjKey].trim_limit
    BY <2>2, Zenon
  <2>5. j \in Int /\ i <= j /\ p <= j
    BY <2>2, <2>3, <2>4
  <2>6. (Covered(i) => Covered(j)) /\ (Covered(p) => Covered(j))
    <3>1. i \in Int /\ NumPositions - 1 \in Int
      BY <2>2, <2>4, ObjectsAssumption
    <3> QED BY <2>2, <2>5, <3>1 DEF Covered
  <2>7. full => Covered(p)
    BY <2>2, ObjectsAssumption DEF Covered
  <2>8. full /\ r.ret = "OK" => L!GetAll(r.db, "entry") = {}
    <3>1. full => r = L!Trim(m, e, p, TRUE, TRUE)
      OBVIOUS
    <3> QED BY <3>1, LmdbFull
  <2> QED BY <2>1, <2>3, <2>4, <2>6, <2>7, <2>8 DEF LmdbGone
<1> QED BY <1>1, <1>2

\* Nothing fills it again.
LEMMA LmdbStaysGone ==
    ASSUME LimitsFit, LmdbInv, LmdbGone(db), [Next]_vars
    PROVE  LmdbGone(db')
<1>1. LmdbOk(db)
  BY DEF LmdbInv
<1>2. ASSUME NEW e \in Epochs, NEW p \in Positions, NEW d, NEW r,
             \/ r = L!Write(db, e, p, d)
             \/ r = L!Fill(db, e, p)
             \/ r = L!Trim(db, e, p, FALSE, FALSE)
             \/ r = L!Trim(db, e, p, FALSE, TRUE)
      PROVE  r.db = db
  BY <1>1, <1>2, LmdbClosed
<1>3. ASSUME NEW e \in Epochs, NEW p \in Positions, Fill(e, p) PROVE db' = db
  BY <1>2, <1>3 DEF Fill, Call
<1>4. ASSUME NEW e \in Epochs, NEW p \in Positions, TrimOne(e, p) PROVE db' = db
  BY <1>2, <1>4 DEF TrimOne, Call
<1>5. ASSUME NEW e \in Epochs, NEW p \in Positions, NEW d \in Data, Write(e, p, d)
      PROVE  db' = db
  BY <1>2, <1>5 DEF Write, Call
<1>6. ASSUME NEW e \in Epochs, NEW p \in Positions, BadTrim(e, p) PROVE db' = db
  BY <1>2, <1>6 DEF BadTrim, Call
<1>7. ASSUME NEW e \in Epochs, NEW p \in Positions, Read(e, p) \/ MaxPos PROVE db' = db
  BY <1>7 DEF Read, MaxPos
<1>8. ASSUME NEW c \in Clients, TrimList(c) \/ TrimRemove(c) \/ TrimTruncate(c) \/ Crash(c)
      PROVE  db' = db
  BY <1>8 DEF TrimList, TrimRemove, TrimTruncate, Crash
<1>9. ASSUME NEW e \in Epochs, NEW size \in OmapMaxSizes, Seal(e, size)
      PROVE  LmdbGone(db')
  <2>1. PICK r : r = L!Seal(db, e)
    OBVIOUS
  <2>2. db' = r.db
    BY <1>9, <2>1 DEF Seal, Call
  <2>3. PICK m : m = db
    OBVIOUS
  <2>4. r.db = m \/ r.db = L!With(m, L!ObjKey, L!LogObject(e, m[L!ObjKey].trim_limit))
    BY <2>1, <2>3 DEF L!Seal, L!Abort, L!Commit, L!Put, L!Present, LmdbGone
  <2>5. /\ DOMAIN r.db = DOMAIN m
        /\ r.db[L!ObjKey].trim_limit = m[L!ObjKey].trim_limit
    BY <2>3, <2>4 DEF L!With, L!LogObject, LmdbGone
  <2> QED BY <2>2, <2>3, <2>5 DEF LmdbGone, L!GetAll
<1>10. ASSUME NEW c \in Clients, NEW e \in Epochs, NEW p \in Limits, NEW full \in BOOLEAN,
              Trim(c, e, p, full)
       PROVE  LmdbGone(db')
  <2>1. PICK r : r = L!Trim(db, e, p, TRUE, full)
    OBVIOUS
  <2>2. db' = r.db /\ (full => p >= NumPositions - 1)
    BY <1>10, <2>1 DEF Trim, Call
  <2> QED BY <1>1, <2>1, <2>2, LmdbEmptied
<1>11. CASE UNCHANGED vars
  BY <1>11 DEF vars
<1> QED BY <1>3, <1>4, <1>5, <1>6, <1>7, <1>8, <1>9, <1>10, <1>11, Numbers DEF Next

\* And for Ceph: under a limit that covers the object entries and stream only go.
LEMMA CephShrinks ==
    ASSUME LimitsFit, CephInv, Covered(rados.trim_limit), [Next]_vars
    PROVE  /\ Covered(rados'.trim_limit) /\ DOMAIN rados'.omap \subseteq DOMAIN rados.omap
           /\ rados'.stream = rados.stream \/ rados'.stream = <<>>
<1>1. CephOk(rados) /\ rados \in CephObject
  BY DEF CephInv, CephOk
<1>2. ASSUME NEW e \in Epochs, NEW p \in Positions, NEW bytes, NEW r,
             \/ r = C!entry_write(rados, e, p, bytes)
             \/ r = C!entry_invalidate(rados, e, p, FALSE, FALSE)
             \/ r = C!entry_invalidate(rados, e, p, TRUE, FALSE)
      PROVE  r.obj = rados
  BY <1>1, <1>2, CephClosed
<1>3. ASSUME NEW e \in Epochs, NEW p \in Positions, Fill(e, p) PROVE rados' = rados
  <2>1. PICK r : r = C!entry_invalidate(rados, e, p, FALSE, FALSE)
    OBVIOUS
  <2> QED BY <1>2, <1>3, <2>1 DEF Fill, Call
<1>4. ASSUME NEW e \in Epochs, NEW p \in Positions, TrimOne(e, p) PROVE rados' = rados
  <2>1. PICK r : r = C!entry_invalidate(rados, e, p, TRUE, FALSE)
    OBVIOUS
  <2> QED BY <1>2, <1>4, <2>1 DEF TrimOne, Call
<1>5. ASSUME NEW e \in Epochs, NEW p \in Positions, NEW d \in Data, Write(e, p, d)
      PROVE  rados' = rados
  <2>1. PICK r : r = C!entry_write(rados, e, p, Bytes(d))
    OBVIOUS
  <2> QED BY <1>2, <1>5, <2>1 DEF Write, Call
<1>6. ASSUME NEW e \in Epochs, NEW p \in Positions, Read(e, p) \/ BadTrim(e, p) \/ MaxPos
      PROVE  rados' = rados
  BY <1>6 DEF Read, BadTrim, MaxPos, Call, C!Reply
<1>7. ASSUME NEW c \in Clients, TrimList(c) \/ Crash(c) PROVE rados' = rados
  BY <1>7 DEF TrimList, Crash
<1>8. ASSUME NEW c \in Clients, TrimRemove(c)
      PROVE  /\ rados'.trim_limit = rados.trim_limit /\ rados'.stream = rados.stream
             /\ DOMAIN rados'.omap \subseteq DOMAIN rados.omap
  <2>1. PICK m : m = [p \in DOMAIN rados.omap \ {gc[c].key} |-> rados.omap[p]]
    OBVIOUS
  <2>2. rados' = [rados EXCEPT !.omap = m]
    BY <1>8, <2>1 DEF TrimRemove
  <2>3. rados'.trim_limit = rados.trim_limit /\ rados'.stream = rados.stream /\ rados'.omap = m
    BY <1>1, <2>2 DEF CephObject
  <2> QED BY <2>1, <2>3
<1>9. ASSUME NEW c \in Clients, TrimTruncate(c)
      PROVE  /\ rados'.trim_limit = rados.trim_limit /\ rados'.stream = <<>>
             /\ rados'.omap = rados.omap
  <2>1. rados' = [rados EXCEPT !.stream = <<>>]
    BY <1>9 DEF TrimTruncate
  <2> QED BY <1>1, <2>1 DEF CephObject
<1>10. ASSUME NEW e \in Epochs, NEW size \in OmapMaxSizes, Seal(e, size)
       PROVE  /\ rados'.trim_limit = rados.trim_limit /\ rados'.omap = rados.omap
              /\ rados'.stream = rados.stream
  <2>1. PICK r : r = C!entry_seal(rados, e, size)
    OBVIOUS
  <2>2. rados' = r.obj
    BY <1>10, <2>1 DEF Seal, Call
  <2> QED BY <1>1, <2>1, <2>2, CephSeal
<1>11. ASSUME NEW c \in Clients, NEW e \in Epochs, NEW p \in Limits, NEW full \in BOOLEAN,
              Trim(c, e, p, full)
       PROVE  /\ Covered(rados'.trim_limit) /\ rados'.omap = rados.omap
              /\ rados'.stream = rados.stream
  <2>1. PICK r : r = C!entry_invalidate(rados, e, p, TRUE, TRUE)
    OBVIOUS
  <2>2. rados' = r.obj
    BY <1>11, <2>1 DEF Trim, Call
  <2>3. /\ CephOk(r.obj) /\ rados.trim_limit <= r.obj.trim_limit
        /\ r.obj.omap = rados.omap /\ r.obj.stream = rados.stream
    <3>1. CephLimited(rados, p, r)
      BY <1>1, <2>1, CephTrimLimit
    <3> QED BY <3>1 DEF CephLimited
  <2>4. PICK j \in Int, k \in Int : j = rados.trim_limit /\ k = r.obj.trim_limit
    <3>1. r.obj \in CephObject
      BY <2>3 DEF CephOk
    <3>2. rados.trim_limit \in Nat \cup {-1} /\ r.obj.trim_limit \in Nat \cup {-1}
      BY <1>1, <3>1, CephFields
    <3>3. \A i : i \in Nat \cup {-1} => i \in Int
      OBVIOUS
    <3> QED BY <3>2, <3>3, Zenon
  <2>5. j <= k /\ Covered(j)
    BY <2>3, <2>4
  <2>6. Covered(k)
    BY <2>5, ObjectsAssumption DEF Covered
  <2> QED BY <2>2, <2>3, <2>4, <2>6
<1>12. CASE UNCHANGED vars
  BY <1>12 DEF vars
<1> QED BY <1>3, <1>4, <1>5, <1>6, <1>7, <1>8, <1>9, <1>10, <1>11, <1>12, Numbers DEF Next

\* Stat of the RAM backend, with the function that MapThenSumSet chooses
EntrySize(p) == IF ram.entries[p] \in Data THEN Len(Bytes(ram.entries[p])) ELSE 0

First(s) == CHOOSE p \in s : TRUE

Sums(f) ==
    f = [s \in SUBSET Positions |-> IF s = {} THEN 0 ELSE EntrySize(First(s)) + f[s \ {First(s)}]]

\* The bytes of no entries add up to nothing.
LEMMA RamStatZero ==
    ASSUME \A p \in Positions : ram.entries[p] = 0
    PROVE  RamStat = 0
<1>1. PICK f : f = CHOOSE g : Sums(g)
  OBVIOUS
<1>2. RamStat = f[Positions]
  BY <1>1 DEF RamStat, MapThenSumSet, MapThenFoldSet, Sums, EntrySize, First
<1>3. \A p \in Positions : EntrySize(p) = 0
  BY Numbers DEF EntrySize
<1>4. \A s \in SUBSET Positions : s # {} => First(s) \in s
  BY DEF First
<1>5. PICK z : z = [s \in SUBSET Positions |-> 0]
  OBVIOUS
<1>6. Sums(z)
  <2>1. \A s \in SUBSET Positions :
          (IF s = {} THEN 0 ELSE EntrySize(First(s)) + z[s \ {First(s)}]) = 0
    BY <1>3, <1>4, <1>5
  <2> QED BY <1>5, <2>1 DEF Sums
<1>7. Sums(f)
  BY <1>1, <1>6
<1>8. \A s \in SUBSET Positions :
        f[s] = IF s = {} THEN 0 ELSE EntrySize(First(s)) + f[s \ {First(s)}]
  BY <1>7 DEF Sums
<1>9. ASSUME NEW s \in SUBSET Positions PROVE IsFiniteSet(s) /\ Cardinality(s) \in Nat
  <2>1. IsFiniteSet(Positions)
    BY FS_Interval, ObjectsAssumption DEF Positions
  <2> QED BY <2>1, FS_Subset, FS_CardinalityType
<1>10. PICK N : N = {Cardinality(s) : s \in {t \in SUBSET Positions : f[t] # 0}}
  OBVIOUS
<1>11. N \subseteq Nat
  BY <1>9, <1>10
<1>12. N = {}
  <2> SUFFICES ASSUME N # {} PROVE FALSE
    OBVIOUS
  <2>1. PICK k \in N : \A y \in N : ~ (<<y, k>> \in OpToRel(<, Nat))
    BY <1>11, NatLessThanWellFounded, WFMin
  <2>2. PICK s \in SUBSET Positions : f[s] # 0 /\ Cardinality(s) = k
    BY <1>10, <2>1
  <2>3. s # {} /\ First(s) \in s /\ First(s) \in Positions
    BY <1>4, <1>8, <2>2
  <2>4. PICK t \in SUBSET Positions : t = s \ {First(s)}
    OBVIOUS
  <2>5. f[s] = f[t] + 0 \/ f[s] = 0 + f[t]
    BY <1>3, <1>8, <2>3, <2>4
  <2>6. f[t] # 0
    BY <2>2, <2>5
  <2>7. Cardinality(t) \in N
    BY <1>10, <2>6
  <2>8. Cardinality(t) \in Nat /\ k \in Nat /\ Cardinality(t) = k - 1
    BY <1>9, <2>2, <2>3, <2>4, FS_RemoveElement
  <2>9. Cardinality(t) < k
    BY <2>8
  <2>10. <<Cardinality(t), k>> \in OpToRel(<, Nat)
    BY <2>8, <2>9 DEF OpToRel
  <2> QED BY <2>1, <2>7, <2>10
<1>13. f[Positions] = 0
  BY <1>10, <1>12
<1> QED BY <1>2, <1>13

\* Without omap values and stream there is nothing to report either.
LEMMA CephStatZero ==
    ASSUME DOMAIN rados.omap = {}, rados.stream = <<>>
    PROVE  CephStat = 0
<1> DEFINE Adds(f) ==
      f = [s \in SUBSET DOMAIN rados.omap |->
             IF s = {} THEN 0
             ELSE 20 + Len(rados.omap[First(s)].data) + f[s \ {First(s)}]]
<1>1. PICK f : f = CHOOSE g : Adds(g)
  OBVIOUS
<1>2. CephStat = Len(rados.stream) + f[DOMAIN rados.omap]
  BY <1>1, Zenon DEF CephStat, MapThenSumSet, MapThenFoldSet, First
<1>3. PICK z : z = [s \in SUBSET DOMAIN rados.omap |-> 0]
  OBVIOUS
<1>4. Adds(z)
  <2>1. \A s \in SUBSET DOMAIN rados.omap : s = {}
    OBVIOUS
  <2> QED BY <1>3, <2>1
<1>5. Adds(f)
  BY <1>1, <1>4
<1>6. f[DOMAIN rados.omap] = 0
  BY <1>5
<1>7. Len(rados.stream) = 0
  BY EmptySeq
<1> QED BY <1>2, <1>6, <1>7

\* The three backends have been sealed with the same epoch.
EpochsAgree == ram.epoch = rados.epoch /\ LmdbEpoch = rados.epoch

\* In ObjectSpec only a seal changes the epoch.
LEMMA OnlySeals ==
    /\ (RamSpec!Next /\ call'.op # "seal") \/ UNCHANGED RamSpec!vars => ram'.epoch = ram.epoch
    /\ (LmdbSpec!Next /\ call'.op # "seal") \/ UNCHANGED LmdbSpec!vars => LmdbEpoch' = LmdbEpoch
    /\ (CephSpec!Next /\ call'.op # "seal") \/ UNCHANGED CephSpec!vars => rados'.epoch = rados.epoch
<1>1. (RamSpec!Next /\ call'.op # "seal") \/ UNCHANGED RamSpec!vars => ram'.epoch = ram.epoch
  BY Zenon DEF RamSpec!Next, RamSpec!vars, RamSpec!Called, RamSpec!MaxPos, RamSpec!Refuse, RamSpec!Read,
     RamSpec!Write, RamSpec!Fill, RamSpec!Trim, RamSpec!TrimLimit, RamSpec!BadTrim, RamSpec!Put, RamSpec!obj
<1>2. (LmdbSpec!Next /\ call'.op # "seal") \/ UNCHANGED LmdbSpec!vars => LmdbEpoch' = LmdbEpoch
  BY Zenon DEF LmdbSpec!Next, LmdbSpec!vars, LmdbSpec!Called, LmdbSpec!MaxPos, LmdbSpec!Refuse, LmdbSpec!Read,
     LmdbSpec!Write, LmdbSpec!Fill, LmdbSpec!Trim, LmdbSpec!TrimLimit, LmdbSpec!BadTrim, LmdbSpec!Put,
     LmdbSpec!obj
<1>3. (CephSpec!Next /\ call'.op # "seal") \/ UNCHANGED CephSpec!vars => rados'.epoch = rados.epoch
  BY Zenon DEF CephSpec!Next, CephSpec!vars, CephSpec!Called, CephSpec!MaxPos, CephSpec!Refuse, CephSpec!Read,
     CephSpec!Write, CephSpec!Fill, CephSpec!Trim, CephSpec!TrimLimit, CephSpec!BadTrim, CephSpec!Put,
     CephSpec!obj
<1> QED BY <1>1, <1>2, <1>3

\* A call reaches all three backends, and they decide alike whether to take a seal.
LEMMA EpochsStay ==
    ASSUME LimitsFit, OffsetsFit, RamInv, LmdbInv, CephInv, EpochsAgree, [Next]_vars
    PROVE  EpochsAgree'
<1>1. /\ RamSpec!Next \/ UNCHANGED RamSpec!vars
      /\ LmdbSpec!Next \/ UNCHANGED LmdbSpec!vars
      /\ CephSpec!Next \/ UNCHANGED CephSpec!vars
  BY RamStep, LmdbStep, CephStep
<1>2. ASSUME call'.op # "seal" PROVE EpochsAgree'
  <2>1. ram'.epoch = ram.epoch /\ LmdbEpoch' = LmdbEpoch /\ rados'.epoch = rados.epoch
    BY <1>1, <1>2, OnlySeals, Zenon
  <2> QED BY <2>1 DEF EpochsAgree
<1>3. ASSUME NEW op \in {"read", "write", "fill", "trim", "maxpos"}, NEW e, NEW p, NEW d,
             NEW limit, NEW full, Asks(op, e, p, d, limit, full)
      PROVE  EpochsAgree'
  BY <1>2, <1>3 DEF Asks, Request
<1>4. ASSUME NEW e \in Epochs, NEW p \in Positions,
             MaxPos \/ Read(e, p) \/ Fill(e, p) \/ TrimOne(e, p) \/ BadTrim(e, p)
      PROVE  EpochsAgree'
  BY <1>3, <1>4, Zenon DEF MaxPos, Read, Fill, TrimOne, BadTrim
<1>5. ASSUME NEW e \in Epochs, NEW p \in Positions, NEW d \in Data, Write(e, p, d)
      PROVE  EpochsAgree'
  BY <1>3, <1>5, Zenon DEF Write
<1>6. ASSUME NEW c \in Clients, NEW e \in Epochs, NEW p \in Limits, NEW full \in BOOLEAN,
             Trim(c, e, p, full)
      PROVE  EpochsAgree'
  BY <1>3, <1>6, Zenon DEF Trim
<1>7. ASSUME NEW e \in Epochs, NEW size \in OmapMaxSizes, Seal(e, size)
      PROVE  EpochsAgree'
  <2>1. PICK r, l, k : r = R!Seal(ram, e) /\ l = L!Seal(db, e) /\ k = C!entry_seal(rados, e, size)
    OBVIOUS
  <2>2. ram' = RamArgs(e, r).obj /\ db' = l.db /\ rados' = k.obj
    BY <1>7, <2>1 DEF Seal, Call
  <2>3. Seals(LmdbAbs(db), e, LmdbAbs(l.db), l.ret) /\ Seals(CephAbs(rados), e, CephAbs(k.obj), k.ret)
    BY <2>1, LmdbSeal, CephSeal DEF LmdbInv, CephInv
  <2>4. LmdbAbs(db).epoch = LmdbEpoch /\ LmdbAbs(db').epoch = LmdbEpoch'
    BY DEF LmdbAbs, Obj, LmdbEpoch, Stored, L!Present
  <2>5. CephAbs(rados).epoch = rados.epoch /\ CephAbs(rados').epoch = rados'.epoch
    BY DEF CephAbs, Obj
  <2>6. ram \in RamObject /\ e \in Nat
    BY Numbers DEF RamInv, RamOk
  <2>7. CASE e # 0 /\ ~(e <= rados.epoch)
    <3>1. ram' = [ram EXCEPT !.epoch = e]
      BY <2>1, <2>2, <2>7 DEF RamArgs, R!Seal, R!Result, EpochsAgree
    <3>2. ram'.epoch = e
      BY <2>6, <3>1 DEF RamObject
    <3>3. LmdbEpoch' = e
      BY <2>2, <2>3, <2>4, <2>7 DEF Seals, Obj, EpochsAgree
    <3>4. rados'.epoch = e
      BY <2>2, <2>3, <2>5, <2>7 DEF Seals, Obj
    <3> QED BY <3>2, <3>3, <3>4 DEF EpochsAgree
  <2>8. CASE ~(e # 0 /\ ~(e <= rados.epoch))
    <3>1. ram' = ram
      BY <2>1, <2>2, <2>8 DEF RamArgs, R!Seal, R!Result, EpochsAgree
    <3>2. LmdbEpoch' = LmdbEpoch
      BY <2>2, <2>3, <2>4, <2>8 DEF Seals, Obj, EpochsAgree
    <3>3. rados'.epoch = rados.epoch
      BY <2>2, <2>3, <2>5, <2>8 DEF Seals, Obj
    <3> QED BY <3>1, <3>2, <3>3 DEF EpochsAgree
  <2> QED BY <2>7, <2>8
<1>8. ASSUME NEW c \in Clients, TrimList(c) \/ TrimRemove(c) \/ TrimTruncate(c) \/ Crash(c)
      PROVE  EpochsAgree'
  <2>1. ram' = ram /\ db' = db
    BY <1>8 DEF TrimList, TrimRemove, TrimTruncate, Crash
  <2>2. CephAbs(rados') = CephAbs(rados)
    BY <1>8, CephReclaimStep
  <2>3. rados'.epoch = rados.epoch
    BY <2>2 DEF CephAbs, Obj
  <2> QED BY <2>1, <2>3 DEF EpochsAgree, LmdbEpoch, Stored
<1>9. CASE UNCHANGED vars
  BY <1>9 DEF vars, EpochsAgree, LmdbEpoch, Stored
<1> QED BY <1>4, <1>5, <1>6, <1>7, <1>8, <1>9, Numbers DEF Next

\* How far the client that g describes has got with the omap m
Reached(g, m) ==
    /\ g.step # "failed"
    /\ g.step = "list" => \A p \in DOMAIN m : p > g.after
    /\ g.step = "remove" => g.after = g.key /\ \A p \in DOMAIN m : p >= g.key
    /\ g.step = "truncate" => DOMAIN m = {}

Trimming == \E c \in Clients : gc[c].step # "no"

\* From the class call on the object is covered, and empty in the other two
\* backends; in Ceph the entries go in the order of their keys.
GoneInv ==
    /\ RamInv /\ LmdbInv /\ CephInv /\ EpochsAgree
    /\ reclaimed \/ Trimming => RamGone(ram) /\ LmdbGone(db)
    /\ reclaimed => CephGone(rados)
    /\ \A c \in Clients : Reached(gc[c], rados.omap)

\* Removals by others only help.
LEMMA ReachedKept ==
    ASSUME NEW g, NEW m, NEW n, Reached(g, m), DOMAIN n \subseteq DOMAIN m
    PROVE  Reached(g, n)
BY Zenon DEF Reached

\* A client that starts to reclaim space has emptied the object in the other
\* two backends.
LEMMA TrimEmpties ==
    ASSUME LimitsFit, OffsetsFit, GoneInv, NEW c \in Clients, NEW e \in Epochs, NEW p \in Limits,
           NEW full \in BOOLEAN, Trim(c, e, p, full),
           GoesOn(C!entry_invalidate(rados, e, p, TRUE, TRUE).ret, full)
    PROVE  RamGone(ram') /\ LmdbGone(db')
<1>1. RamOk(ram) /\ LmdbOk(db) /\ CephOk(rados) /\ EpochsAgree
  BY DEF GoneInv, RamInv, LmdbInv, CephInv
<1>2. PICK r, l, k : /\ r = R!TrimLimit(ram, e, p, TRUE)
                     /\ l = L!Trim(db, e, p, TRUE, TRUE)
                     /\ k = C!entry_invalidate(rados, e, p, TRUE, TRUE)
  OBVIOUS
<1>3. full = TRUE /\ k.ret = "OK"
  BY <1>2 DEF GoesOn
<1>4. ram' = RamArgs(e, r).obj /\ db' = l.db /\ p >= NumPositions - 1
  BY <1>2, <1>3 DEF Trim, Call
<1>5. C!Guard(rados, e) = "OK"
  <2>1. CASE C!Guard(rados, e) # "OK"
    <3>1. k.ret = C!Guard(rados, e)
      BY <1>2, <2>1 DEF C!entry_invalidate, C!Reply
    <3> QED BY <1>3, <2>1, <3>1
  <2> QED BY <2>1
<1>6. e \in Nat /\ e # 0 /\ rados.epoch # 0 /\ ~(e < rados.epoch)
  BY <1>5, Numbers DEF C!Guard
<1>7. R!CheckEpoch(ram, e) = "OK"
  BY <1>1, <1>6 DEF R!CheckEpoch, EpochsAgree
<1>8. L!CheckEpoch(db, e) = "OK"
  BY <1>1, <1>6 DEF L!CheckEpoch, L!Get, L!Present, EpochsAgree, LmdbEpoch, Stored
<1>9. RamGone(ram')
  <2>1. ram' = r.obj /\ r.ret = "OK"
    BY <1>2, <1>4, <1>6, <1>7 DEF RamArgs, R!TrimLimit, R!Result
  <2>2. Covered(p)
    BY <1>4, ObjectsAssumption, Numbers DEF Covered
  <2> QED BY <1>1, <1>2, <2>1, <2>2, RamEmptied
<1>10. LmdbGone(db')
  <2>1. l.ret = "OK"
    BY <1>2, <1>8 DEF L!Trim, L!Commit
  <2> QED BY <1>1, <1>2, <1>4, <2>1, LmdbEmptied
<1> QED BY <1>9, <1>10

\* Only trims of a whole object reclaim space.
LEMMA OthersReclaimNothing ==
    ASSUME \/ UNCHANGED vars \/ MaxPos
           \/ \E e \in Epochs, size \in OmapMaxSizes : Seal(e, size)
           \/ \E e \in Epochs, p \in Positions :
                \/ Read(e, p) \/ Fill(e, p) \/ TrimOne(e, p) \/ BadTrim(e, p)
                \/ \E x \in Data : Write(e, p, x)
    PROVE  gc' = gc /\ reclaimed' = reclaimed
<1>1. UNCHANGED vars \/ MaxPos => gc' = gc /\ reclaimed' = reclaimed
  BY DEF vars, MaxPos
<1>2. \A e \in Epochs, size \in OmapMaxSizes :
        Seal(e, size) => gc' = gc /\ reclaimed' = reclaimed
  BY DEF Seal, Call
<1>3. ASSUME NEW e \in Epochs, NEW p \in Positions
      PROVE  /\ Read(e, p) => gc' = gc /\ reclaimed' = reclaimed
             /\ Fill(e, p) => gc' = gc /\ reclaimed' = reclaimed
             /\ TrimOne(e, p) => gc' = gc /\ reclaimed' = reclaimed
             /\ BadTrim(e, p) => gc' = gc /\ reclaimed' = reclaimed
             /\ \A x \in Data : Write(e, p, x) => gc' = gc /\ reclaimed' = reclaimed
  <2>1. Read(e, p) => gc' = gc /\ reclaimed' = reclaimed
    BY DEF Read
  <2>2. Fill(e, p) => gc' = gc /\ reclaimed' = reclaimed
    BY DEF Fill, Call
  <2>3. TrimOne(e, p) => gc' = gc /\ reclaimed' = reclaimed
    BY DEF TrimOne, Call
  <2>4. BadTrim(e, p) => gc' = gc /\ reclaimed' = reclaimed
    BY DEF BadTrim, Call
  <2>5. \A x \in Data : Write(e, p, x) => gc' = gc /\ reclaimed' = reclaimed
    BY DEF Write, Call
  <2> QED BY <2>1, <2>2, <2>3, <2>4, <2>5
<1> QED BY <1>1, <1>2, <1>3

\* Every step of a client takes it where its place in Trim says.
LEMMA ReachedStep ==
    ASSUME LimitsFit, OffsetsFit, GoneInv, [Next]_vars, NEW d \in Clients
    PROVE  Reached(gc'[d], rados'.omap)
<1>1. /\ CephOk(rados) /\ rados \in CephObject /\ gc \in [Clients -> Reclaimer]
      /\ \A c \in Clients : gc[c] \in Reclaimer /\ Reached(gc[c], rados.omap)
  BY DEF GoneInv, CephInv, CephOk
<1>2. CephInv /\ DOMAIN rados.omap \in SUBSET Positions
  BY <1>1, CephFields, OmapFacts DEF GoneInv
<1>3. CASE gc'[d] = gc[d] /\ gc[d].step = "no"
  BY <1>3 DEF Reached
<1>4. CASE gc'[d] = gc[d] /\ gc[d].step # "no"
  <2>1. Covered(rados.trim_limit)
    BY <1>2, <1>4, CephCovered
  <2>2. DOMAIN rados'.omap \subseteq DOMAIN rados.omap
    BY <1>2, <2>1, CephShrinks
  <2>3. PICK g, m, n : g = gc[d] /\ m = rados.omap /\ n = rados'.omap
    OBVIOUS
  <2>4. Reached(g, n)
    BY <1>1, <2>2, <2>3, ReachedKept
  <2> QED BY <1>4, <2>3, <2>4
<1>5. ASSUME NEW g, gc' = [gc EXCEPT ![d] = g] PROVE gc'[d] = g
  BY <1>1, <1>5
<1>6. ASSUME NEW e \in Epochs, NEW p \in Limits, NEW full \in BOOLEAN, Trim(d, e, p, full)
      PROVE  Reached(gc'[d], rados'.omap)
  <2>1. PICK r : r = C!entry_invalidate(rados, e, p, TRUE, TRUE)
    OBVIOUS
  <2>2. PICK g : g = IF GoesOn(r.ret, full) THEN [NotTrimming EXCEPT !.step = "list", !.pos = p] ELSE gc[d]
    OBVIOUS
  <2>3. gc' = [gc EXCEPT ![d] = g] /\ rados' = r.obj
    BY <1>6, <2>1, <2>2 DEF Trim, Call
  <2>4. gc'[d] = g
    BY <1>5, <2>3
  <2>5. CASE GoesOn(r.ret, full)
    <3>1. g = [step |-> "list", pos |-> p, after |-> -1, key |-> 0]
      BY <2>2, <2>5 DEF NotTrimming
    <3>2. CephLimited(rados, p, r)
      BY <1>1, <2>1, CephTrimLimit
    <3>3. rados'.omap = rados.omap
      BY <2>3, <3>2 DEF CephLimited
    <3>4. \A q \in Positions : q > -1
      BY Numbers
    <3> QED BY <1>2, <2>4, <3>1, <3>3, <3>4 DEF Reached
  <2>6. CASE ~GoesOn(r.ret, full)
    <3>1. g = gc[d] /\ gc[d].step = "no"
      BY <1>6, <2>2, <2>6 DEF Trim, Ready
    <3> QED BY <1>3, <2>4, <3>1
  <2> QED BY <2>5, <2>6
<1>7. CASE TrimList(d)
  <2>1. PICK S : S = {p \in DOMAIN rados.omap : p > gc[d].after}
    OBVIOUS
  <2>2. S \in SUBSET Positions
    BY <1>2, <2>1
  <2>3. PICK g : g = IF S = {} THEN [gc[d] EXCEPT !.step = "truncate"]
                     ELSE [gc[d] EXCEPT !.step = IF Min(S) > gc[d].pos THEN "failed" ELSE "remove",
                                        !.key = Min(S), !.after = Min(S)]
    OBVIOUS
  <2>4. gc' = [gc EXCEPT ![d] = g] /\ rados' = rados /\ gc[d].step = "list"
    BY <1>7, <2>1, <2>3 DEF TrimList, After
  <2>5. gc'[d] = g
    BY <1>5, <2>4
  <2>6. S = DOMAIN rados.omap
    BY <1>1, <2>1, <2>4 DEF Reached
  <2>7. CASE S = {}
    <3>1. g = [gc[d] EXCEPT !.step = "truncate"]
      BY <2>3, <2>7
    <3>2. g.step = "truncate"
      BY <1>1, <3>1 DEF Reclaimer
    <3> QED BY <2>4, <2>5, <2>6, <2>7, <3>2 DEF Reached
  <2>8. CASE S # {}
    <3>1. PICK k \in Nat : k = Min(S) /\ k \in S /\ \A p \in S : k <= p
      BY <2>2, <2>8, SmallestKey
    <3>2. PICK y \in Reclaimer : y = gc[d]
      BY <1>1
    <3>3. y.pos \in Nat /\ Covered(y.pos)
      <4>1. y.pos \in Limits
        BY <3>2 DEF Reclaimer
      <4> QED BY <1>2, <2>4, <3>2, <4>1, Numbers DEF CephInv
    <3>4. k \in Positions /\ ~(k > y.pos)
      BY <2>2, <3>1, <3>3, ObjectsAssumption DEF Covered, Positions
    <3>5. g = Moved(y, "remove", k)
      BY <2>3, <2>8, <3>1, <3>2, <3>4 DEF Moved
    <3>6. g.step = "remove" /\ g.key = k /\ g.after = k
      BY <3>2, <3>5, ReclaimerMoves
    <3>7. \A p \in DOMAIN rados.omap : p >= k
      BY <2>2, <2>6, <3>1, Numbers
    <3> QED BY <2>4, <2>5, <3>6, <3>7 DEF Reached
  <2> QED BY <2>7, <2>8
<1>8. CASE TrimRemove(d)
  <2>1. PICK m : m = [p \in DOMAIN rados.omap \ {gc[d].key} |-> rados.omap[p]]
    OBVIOUS
  <2>2. PICK g : g = [gc[d] EXCEPT !.step = "list"]
    OBVIOUS
  <2>3. rados' = [rados EXCEPT !.omap = m] /\ gc' = [gc EXCEPT ![d] = g] /\ gc[d].step = "remove"
    BY <1>8, <2>1, <2>2 DEF TrimRemove, After
  <2>4. gc'[d] = g /\ g.step = "list" /\ g.after = gc[d].after
    BY <1>1, <1>5, <2>2, <2>3 DEF Reclaimer
  <2>5. rados'.omap = m
    BY <1>1, <2>3 DEF CephObject
  <2>6. gc[d].key \in Int /\ gc[d].after = gc[d].key /\ \A p \in DOMAIN rados.omap : p >= gc[d].key
    BY <1>1, <2>3 DEF Reached, Reclaimer
  <2>7. \A p \in DOMAIN m : p > gc[d].after
    <3> SUFFICES ASSUME NEW p \in DOMAIN m PROVE p > gc[d].after
      OBVIOUS
    <3>1. p \in DOMAIN rados.omap /\ p # gc[d].key
      BY <2>1
    <3>2. PICK k \in Int : k = gc[d].key
      BY <2>6
    <3>3. p \in Nat /\ p >= k /\ p # k
      BY <1>2, <2>6, <3>1, <3>2, Numbers
    <3>4. p > k
      BY <3>3
    <3> QED BY <2>6, <3>2, <3>4
  <2> QED BY <2>4, <2>5, <2>7 DEF Reached
<1>9. CASE TrimTruncate(d) \/ Crash(d)
  <2>1. gc'[d] = NotTrimming
    BY <1>5, <1>9 DEF TrimTruncate, Crash, After
  <2> QED BY <2>1 DEF NotTrimming, Reached
<1>10. ASSUME NEW c \in Clients, c # d,
              \/ \E e \in Epochs, p \in Limits, full \in BOOLEAN : Trim(c, e, p, full)
              \/ TrimList(c) \/ TrimRemove(c) \/ TrimTruncate(c) \/ Crash(c)
       PROVE  gc'[d] = gc[d]
  BY <1>1, <1>10 DEF Trim, TrimList, TrimRemove, TrimTruncate, Crash, After
<1>11. ASSUME \/ UNCHANGED vars \/ MaxPos
              \/ \E e \in Epochs, size \in OmapMaxSizes : Seal(e, size)
              \/ \E e \in Epochs, p \in Positions :
                   \/ Read(e, p) \/ Fill(e, p) \/ TrimOne(e, p) \/ BadTrim(e, p)
                   \/ \E x \in Data : Write(e, p, x)
       PROVE  gc'[d] = gc[d]
  BY <1>11, OthersReclaimNothing
<1> QED BY <1>3, <1>4, <1>6, <1>7, <1>8, <1>9, <1>10, <1>11 DEF Next

\* Every step keeps the invariant.
LEMMA GoneStep ==
    ASSUME LimitsFit, OffsetsFit, GoneInv, [Next]_vars
    PROVE  GoneInv'
<1>1. RamInv /\ LmdbInv /\ CephInv /\ EpochsAgree
  BY DEF GoneInv
<1>2. RamInv' /\ LmdbInv' /\ CephInv' /\ EpochsAgree'
  BY <1>1, RamStep, LmdbStep, CephStep, EpochsStay
<1>3. \A c \in Clients : Reached(gc'[c], rados'.omap)
  BY ReachedStep
<1>4. gc \in [Clients -> Reclaimer]
  BY <1>1 DEF CephInv
<1>5. ASSUME NEW c \in Clients, TrimList(c) \/ TrimRemove(c) \/ TrimTruncate(c) \/ Crash(c)
      PROVE  Trimming
  BY <1>5 DEF TrimList, TrimRemove, TrimTruncate, Crash, Ready, Trimming
<1>6. ASSUME \/ UNCHANGED vars \/ MaxPos
             \/ \E e \in Epochs, size \in OmapMaxSizes : Seal(e, size)
             \/ \E e \in Epochs, p \in Positions :
                  \/ Read(e, p) \/ Fill(e, p) \/ TrimOne(e, p) \/ BadTrim(e, p)
                  \/ \E x \in Data : Write(e, p, x)
      PROVE  gc' = gc /\ reclaimed' = reclaimed
  BY <1>6, OthersReclaimNothing
<1>7. ASSUME NEW c \in Clients, NEW e \in Epochs, NEW p \in Limits, NEW full \in BOOLEAN,
             Trim(c, e, p, full)
      PROVE  /\ reclaimed' = reclaimed
             /\ ~GoesOn(C!entry_invalidate(rados, e, p, TRUE, TRUE).ret, full) => gc' = gc
  <2>1. reclaimed' = reclaimed
    BY <1>7 DEF Trim, Call
  <2>2. PICK ret : ret = C!entry_invalidate(rados, e, p, TRUE, TRUE).ret
    OBVIOUS
  <2>3. gc' = [gc EXCEPT ![c] = IF GoesOn(ret, full)
                                THEN [NotTrimming EXCEPT !.step = "list", !.pos = p] ELSE @]
    BY <1>7, <2>2 DEF Trim
  <2>4. ~GoesOn(ret, full) => gc' = gc
    BY <1>4, <2>3
  <2> QED BY <2>1, <2>2, <2>4
<1>8. reclaimed' \/ Trimming' => RamGone(ram') /\ LmdbGone(db')
  <2>1. CASE reclaimed \/ Trimming
    <3>1. RamGone(ram) /\ LmdbGone(db)
      BY <2>1 DEF GoneInv
    <3> QED BY <1>1, <3>1, RamStaysGone, LmdbStaysGone
  <2>2. CASE ~reclaimed /\ ~Trimming
    <3>1. ASSUME gc' = gc, reclaimed' = reclaimed PROVE ~reclaimed' /\ ~Trimming'
      BY <2>2, <3>1 DEF Trimming
    <3>2. ASSUME NEW c \in Clients, NEW e \in Epochs, NEW p \in Limits, NEW full \in BOOLEAN,
                 Trim(c, e, p, full)
          PROVE  reclaimed' \/ Trimming' => RamGone(ram') /\ LmdbGone(db')
      <4>1. CASE GoesOn(C!entry_invalidate(rados, e, p, TRUE, TRUE).ret, full)
        BY <3>2, <4>1, TrimEmpties
      <4>2. CASE ~GoesOn(C!entry_invalidate(rados, e, p, TRUE, TRUE).ret, full)
        BY <1>7, <3>1, <3>2, <4>2
      <4> QED BY <4>1, <4>2
    <3> QED BY <1>5, <1>6, <2>2, <3>1, <3>2 DEF Next
  <2> QED BY <2>1, <2>2
<1>9. reclaimed' => CephGone(rados')
  <2>1. CASE reclaimed
    <3>1. CephGone(rados)
      BY <2>1 DEF GoneInv
    <3>2. /\ Covered(rados'.trim_limit) /\ DOMAIN rados'.omap \subseteq DOMAIN rados.omap
          /\ rados'.stream = rados.stream \/ rados'.stream = <<>>
      BY <1>1, <3>1, CephShrinks DEF CephGone
    <3> QED BY <3>1, <3>2 DEF CephGone
  <2>2. ASSUME NEW c \in Clients, TrimTruncate(c) PROVE CephGone(rados')
    <3>1. gc[c].step = "truncate" /\ rados' = [rados EXCEPT !.stream = <<>>]
      BY <2>2 DEF TrimTruncate
    <3>2. Covered(rados.trim_limit)
      BY <1>1, <3>1, CephCovered
    <3>3. DOMAIN rados.omap = {}
      BY <3>1 DEF GoneInv, Reached
    <3>4. rados \in CephObject
      BY <1>1 DEF CephInv, CephOk
    <3>5. rados'.trim_limit = rados.trim_limit /\ rados'.omap = rados.omap /\ rados'.stream = <<>>
      BY <3>1, <3>4 DEF CephObject
    <3> QED BY <3>2, <3>3, <3>5 DEF CephGone
  <2>3. ASSUME NEW c \in Clients, TrimList(c) \/ TrimRemove(c) \/ Crash(c)
        PROVE  reclaimed' = reclaimed
    BY <2>3 DEF TrimList, TrimRemove, Crash
  <2> QED BY <1>6, <1>7, <2>1, <2>2, <2>3 DEF Next
<1> QED BY <1>2, <1>3, <1>8, <1>9 DEF GoneInv, Trimming

\* CephBackend::Trim (ceph.cc) never meets a key beyond its limit (-EIO), and
\* once a full trim has returned the object stays empty: no backend's Stat
\* reports anything, whatever other clients have in flight, how many of them
\* reclaim its space and where they crash.
THEOREM ReclaimedStays == LimitsFit /\ OffsetsFit => (Spec => []ReclaimedForGood)
<1> SUFFICES ASSUME LimitsFit, OffsetsFit PROVE Spec => []ReclaimedForGood
  OBVIOUS
<1>1. Init => GoneInv
  <2> SUFFICES ASSUME Init PROVE GoneInv
    OBVIOUS
  <2>1. RamInv /\ LmdbInv /\ CephInv
    BY RamInit, LmdbInit, CephInit
  <2>2. EpochsAgree
    BY DEF Init, EpochsAgree, LmdbEpoch, Stored, L!Present, R!Absent, C!Absent
  <2>3. ~reclaimed /\ ~Trimming /\ \A c \in Clients : Reached(gc[c], rados.omap)
    BY DEF Init, Trimming, NotTrimming, Reached
  <2> QED BY <2>1, <2>2, <2>3 DEF GoneInv
<1>2. GoneInv /\ [Next]_vars => GoneInv'
  BY GoneStep
<1>3. GoneInv => ReclaimedForGood
  <2> SUFFICES ASSUME GoneInv PROVE ReclaimedForGood
    OBVIOUS
  <2>1. \A c \in Clients : gc[c].step # "failed"
    BY DEF GoneInv, Reached
  <2>2. ASSUME reclaimed PROVE RamStat = 0 /\ L!StatZero(db) /\ CephStat = 0
    <3>1. RamStat = 0
      BY <2>2, RamStatZero DEF GoneInv, RamGone
    <3>2. L!StatZero(db)
      BY <2>2 DEF GoneInv, LmdbGone, L!StatZero
    <3>3. CephStat = 0
      BY <2>2, CephStatZero DEF GoneInv, CephGone
    <3> QED BY <3>1, <3>2, <3>3
  <2> QED BY <2>1, <2>2 DEF ReclaimedForGood
<1> QED BY <1>1, <1>2, <1>3, PTL DEF Spec
==============================================================================
