------------------------------- MODULE Backend -------------------------------
(***************************************************************************)
(* The storage interface of include/zlog/backend.h as the in-memory        *)
(* backend implements it (storage/ram/ram.cc).  Every call holds the       *)
(* backend's lock from its first test to its return, so a call is a        *)
(* function of the state of the one object it touches: it yields a return  *)
(* code and the object's next state.                                       *)
(*                                                                         *)
(* A log object keeps the epoch it was last sealed with, its entries, the  *)
(* largest position ever inserted and an optional trim limit.  Data is an  *)
(* operation number: the properties only ask which append an entry holds.  *)
(* Entries with trimmed or invalidated set are all Junk: no call tells     *)
(* them apart.                                                             *)
(***************************************************************************)
EXTENDS ObjectMap, Sequences

CONSTANT MaxOps   \* bound: log operations started, the source of data values

ASSUME MaxOpsAssumption == MaxOps \in Nat

NoEntry == 0
Junk == -1
Entries == -1 .. MaxOps

NoLimit == -1     \* trim_limit = boost::none

\* LogObject.  Epoch 0 stands for an object that does not exist: calls with
\* epoch 0 are refused with EINVAL, so no existing object has it.
Absent ==
    [epoch |-> 0, entries |-> [p \in Positions |-> NoEntry],
     maxpos |-> 0, trim_limit |-> NoLimit]

LogObject(Epochs) ==
    [epoch : Epochs, entries : [Positions -> Entries],
     maxpos : Positions, trim_limit : Positions \cup {NoLimit}]

Larger(m, n) == IF m < n THEN n ELSE m

\* Seeded fault: the epoch before that of the last seal is still good.
FaultyCheckEpoch(o, epoch) ==
    IF o.epoch = 0 THEN "ENOENT"
    ELSE IF epoch + 1 < o.epoch THEN "ESPIPE" ELSE "OK"

\* CheckEpoch, as every data call uses it (eq = false)
CheckEpoch(o, epoch) ==
    IF o.epoch = 0 THEN "ENOENT"
    ELSE IF epoch < o.epoch THEN "ESPIPE" ELSE "OK"

Insert(o, p, x) ==
    [o EXCEPT !.entries[p] = x, !.maxpos = Larger(o.maxpos, p)]

Trimmed(o, p) == p <= o.trim_limit

Result(ret, o) == [ret |-> ret, obj |-> o]

\* Seeded fault: the entry is looked up before the trim limit is tested.
FaultyRead(o, epoch, p) ==
    IF CheckEpoch(o, epoch) # "OK" THEN CheckEpoch(o, epoch)
    ELSE IF o.entries[p] = NoEntry THEN "ERANGE"
    ELSE IF Trimmed(o, p) \/ o.entries[p] = Junk THEN "ENODATA"
    ELSE "OK"

\* RAMBackend::Read returns no new state; its data is the entry itself.
Read(o, epoch, p) ==
    IF CheckEpoch(o, epoch) # "OK" THEN CheckEpoch(o, epoch)
    ELSE IF Trimmed(o, p) THEN "ENODATA"
    ELSE IF o.entries[p] = NoEntry THEN "ERANGE"
    ELSE IF o.entries[p] = Junk THEN "ENODATA"
    ELSE "OK"

Write(o, epoch, p, d) ==
    IF CheckEpoch(o, epoch) # "OK" THEN Result(CheckEpoch(o, epoch), o)
    ELSE IF Trimmed(o, p) \/ o.entries[p] # NoEntry THEN Result("EROFS", o)
    ELSE Result("OK", Insert(o, p, d))

\* Seeded fault: data is filled over.
FaultyFill(o, epoch, p) ==
    IF CheckEpoch(o, epoch) # "OK" THEN Result(CheckEpoch(o, epoch), o)
    ELSE IF Trimmed(o, p) \/ o.entries[p] = Junk THEN Result("OK", o)
    ELSE Result("OK", Insert(o, p, Junk))

Fill(o, epoch, p) ==
    IF CheckEpoch(o, epoch) # "OK" THEN Result(CheckEpoch(o, epoch), o)
    ELSE IF Trimmed(o, p) \/ o.entries[p] = Junk THEN Result("OK", o)
    ELSE IF o.entries[p] = NoEntry THEN Result("OK", Insert(o, p, Junk))
    ELSE Result("EROFS", o)

\* RAMBackend::Trim with trim_limit = false: one position
Trim(o, epoch, p) ==
    IF CheckEpoch(o, epoch) # "OK" THEN Result(CheckEpoch(o, epoch), o)
    ELSE IF Trimmed(o, p) THEN Result("OK", o)
    ELSE Result("OK", Insert(o, p, Junk))

\* RAMBackend::Trim with trim_limit = true: every position of the object up to
\* p; the space is only reclaimed when the whole object is covered.
TrimLimit(o, epoch, p, full) ==
    IF CheckEpoch(o, epoch) # "OK" THEN Result(CheckEpoch(o, epoch), o)
    ELSE Result("OK",
           [o EXCEPT !.trim_limit = Larger(o.trim_limit, p),
                     !.entries = IF full THEN Absent.entries ELSE @])

\* RAMBackend::Seal creates a missing object, and refuses an epoch that is not
\* larger than the one stored.
Seal(o, epoch) ==
    IF epoch <= o.epoch THEN Result("ESPIPE", o)
    ELSE Result("OK", [o EXCEPT !.epoch = epoch])

\* RAMBackend::MaxPos: the number of positions the object is known to have
\* consumed, 0 when it reports the object empty and max_pos + 1 otherwise.
MaxPosPlus1(o) ==
    IF \A p \in Positions : o.entries[p] = NoEntry
    THEN o.trim_limit + 1
    ELSE Larger(o.maxpos, o.trim_limit) + 1

\* Seeded fault: only epochs that are too large are refused.
FaultyProposeRet(views, epoch) ==
    IF epoch > Len(views) + 1 THEN "EINVAL" ELSE "OK"

\* RAMBackend::ProposeView: a compare-and-set on the head object's epoch.
\* The views are the sequence of accepted proposals; the epoch is its length.
ProposeRet(views, epoch) ==
    IF epoch > Len(views) + 1 THEN "EINVAL"
    ELSE IF epoch # Len(views) + 1 THEN "ESPIPE" ELSE "OK"

ProposeView(views, epoch, v) ==
    IF ProposeRet(views, epoch) = "OK" THEN Append(views, v) ELSE views
==============================================================================
