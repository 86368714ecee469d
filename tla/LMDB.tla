-------------------------------- MODULE LMDB ---------------------------------
(***************************************************************************)
(* The LMDB backend (storage/lmdb/lmdb.cc): one key space, changed by      *)
(* transactions.  LMDB admits one write transaction at a time and gives    *)
(* every reader a snapshot, so a call is a function from the committed key *)
(* space to a return code and the next one; a call that aborts returns the *)
(* key space it was given.                                                 *)
(*                                                                         *)
(* A key is a tuple whose first member tells the kind of record; the key   *)
(* space is a function on the keys that are present.                       *)
(***************************************************************************)
EXTENDS Integers, Sequences, Update

CONSTANT Word   \* 2^64, the positions; a trim limit is kept as an int64_t

ObjKey == <<"obj">>                 \* oid itself: LogObject
MaxPosKey == <<"maxpos">>           \* oid.maxpos: LogMaxPos
LogEntryKey(p) == <<"entry", p>>    \* oid.entry.p: LogEntry and the data
HeadKey(h) == <<"head", h>>         \* zlog.head.uuid: ProjectionObject
ProjectionKey(h, e) == <<"view", h, e>>
LinkKey(n) == <<"link", n>>         \* head.name: LinkObject

NoData == 0
NoLimit == -1

LogObject(epoch, limit) == [epoch |-> epoch, trim_limit |-> limit]
LogEntry(trimmed, invalidated, d) ==
    [trimmed |-> trimmed, invalidated |-> invalidated, data |-> d]

(* Transaction *)
Present(db, k) == k \in DOMAIN db

\* Transaction::Get
Get(db, k) == IF Present(db, k) THEN "OK" ELSE "ENOENT"

\* Transaction::Put; the second form is MDB_NOOVERWRITE
Put(db, k, v) == With(db, k, v)
PutRet(db, k) == IF Present(db, k) THEN "EEXIST" ELSE "OK"

\* Transaction::GetAll with the prefix of one kind of key
GetAll(db, kind) == {k \in DOMAIN db : k[1] = kind}

\* Transaction::Delete of a set of keys
Delete(db, ks) == [k \in DOMAIN db \ ks |-> db[k]]

Commit(db) == [ret |-> "OK", db |-> db]
Abort(ret, db) == [ret |-> ret, db |-> db]

(* Log objects *)
\* Seeded fault: an epoch that was valid once stays valid.
FaultyCheckEpoch(db, epoch) ==
    IF epoch = 0 THEN "EINVAL"
    ELSE IF Get(db, ObjKey) # "OK" THEN "ENOENT" ELSE "OK"

CheckEpoch(db, epoch) ==
    IF epoch = 0 THEN "EINVAL"
    ELSE IF Get(db, ObjKey) # "OK" THEN "ENOENT"
    ELSE IF epoch < db[ObjKey].epoch THEN "ESPIPE" ELSE "OK"

\* A negative limit is no limit.
Trimmed(db, p) == db[ObjKey].trim_limit >= 0 /\ p <= db[ObjKey].trim_limit

\* Read the stored maximum, if any, and write the larger one.
UpdateMaxPos(db, p) ==
    LET pos == IF Present(db, MaxPosKey) THEN db[MaxPosKey].maxpos ELSE 0
    IN  Put(db, MaxPosKey, [maxpos |-> IF pos < p THEN p ELSE pos])

Write(db, epoch, p, d) ==
    LET k == LogEntryKey(p) IN
    IF CheckEpoch(db, epoch) # "OK" THEN Abort(CheckEpoch(db, epoch), db)
    ELSE IF Trimmed(db, p) THEN Abort("EROFS", db)
    ELSE IF PutRet(db, k) = "EEXIST" THEN Abort("EROFS", db)
    ELSE Commit(UpdateMaxPos(Put(db, k, LogEntry(FALSE, FALSE, d)), p))

\* The data read is the entry's.
Read(db, epoch, p) ==
    LET k == LogEntryKey(p) IN
    IF CheckEpoch(db, epoch) # "OK" THEN CheckEpoch(db, epoch)
    ELSE IF Trimmed(db, p) THEN "ENODATA"
    ELSE IF Get(db, k) # "OK" THEN "ERANGE"
    ELSE IF db[k].trimmed \/ db[k].invalidated THEN "ENODATA"
    ELSE "OK"

Fill(db, epoch, p) ==
    LET k == LogEntryKey(p) IN
    IF CheckEpoch(db, epoch) # "OK" THEN Abort(CheckEpoch(db, epoch), db)
    ELSE IF Trimmed(db, p) THEN Abort("OK", db)
    ELSE IF Present(db, k)
         THEN Abort(IF db[k].trimmed \/ db[k].invalidated THEN "OK" ELSE "EROFS", db)
    ELSE Commit(Put(UpdateMaxPos(db, p), k, LogEntry(TRUE, TRUE, NoData)))

ToInt64(n) == IF 2 * n < Word THEN n ELSE n - Word

\* The limit is compared unsigned and stored signed.
AdvanceLimit(db, p) ==
    LET o == db[ObjKey]
        new == IF o.trim_limit >= 0 /\ p < o.trim_limit THEN o.trim_limit ELSE p
    IN  Put(db, ObjKey, LogObject(o.epoch, ToInt64(new)))

\* One position: the entry is cut to its header, whatever it held.
TrimEntry(db, p) ==
    LET k == LogEntryKey(p)
        inv == Present(db, k) /\ db[k].invalidated
    IN  Put(UpdateMaxPos(db, p), k, LogEntry(TRUE, inv, NoData))

Trim(db, epoch, p, limit, full) ==
    IF full /\ ~limit THEN Abort("EINVAL", db)
    ELSE IF CheckEpoch(db, epoch) # "OK" THEN Abort(CheckEpoch(db, epoch), db)
    ELSE LET txn == IF limit THEN AdvanceLimit(db, p) ELSE db IN
         IF full THEN Commit(Delete(txn, GetAll(txn, "entry")))
         ELSE IF Trimmed(txn, p) THEN Commit(txn)
         ELSE Commit(TrimEntry(txn, p))

\* 0 stands for *empty = true, otherwise the position plus one.
MaxPosPlus1(db) ==
    LET limit == db[ObjKey].trim_limit IN
    IF ~Present(db, MaxPosKey) THEN (IF limit >= 0 THEN limit + 1 ELSE 0)
    ELSE IF db[MaxPosKey].maxpos < limit THEN limit + 1
    ELSE db[MaxPosKey].maxpos + 1

Seal(db, epoch) ==
    IF epoch = 0 THEN Abort("EINVAL", db)
    ELSE IF ~Present(db, ObjKey) THEN Commit(Put(db, ObjKey, LogObject(epoch, NoLimit)))
    ELSE IF epoch <= db[ObjKey].epoch THEN Abort("ESPIPE", db)
    ELSE Commit(Put(db, ObjKey, LogObject(epoch, db[ObjKey].trim_limit)))

\* Stat adds up keys and values of all entries: it reports nothing if and only
\* if these are gone.
StatZero(db) == GetAll(db, "entry") = {}

(* Head objects *)
ProjectionObject(epoch, id) == [epoch |-> epoch, unique_id |-> id]

\* Three puts and one commit; a head that exists fails the call for good.
CreateLog(db, n, h, view) ==
    IF PutRet(db, HeadKey(h)) = "EEXIST" THEN Abort("EIO", db)
    ELSE IF PutRet(db, ProjectionKey(h, 1)) = "EEXIST" THEN Abort("EEXIST", db)
    ELSE IF PutRet(db, LinkKey(n)) = "EEXIST" THEN Abort("EEXIST", db)
    ELSE Commit(Put(Put(Put(db, HeadKey(h), ProjectionObject(1, 0)),
                        ProjectionKey(h, 1), view), LinkKey(n), h))

OpenLog(db, n) ==
    IF Get(db, LinkKey(n)) # "OK" THEN Get(db, LinkKey(n))
    ELSE Get(db, HeadKey(db[LinkKey(n)]))

ListLinks(db) == GetAll(db, "link")
ListHeads(db) == GetAll(db, "head")

\* The value that Get returned points into the page that readers see, and the
\* memory map is writable: the counter changes there, before the transaction
\* commits and also if it never does.
IdInPlace(db, h) == [db EXCEPT ![HeadKey(h)].unique_id = @ + 1]

\* The latest view, or max_views views from `epoch' on, stopping at a gap.
ReadViews(db, h, epoch, max_views) ==
    LET head == db[HeadKey(h)]
        key(e) == ProjectionKey(h, e)
        Run(e) == \A f \in epoch .. e : Present(db, key(f))
        Views(ret, vs) == [ret |-> ret, views |-> vs]
    IN  IF ~Present(db, HeadKey(h)) THEN Views("ENOENT", <<>>)
        ELSE IF epoch > head.epoch \/ head.epoch = 0 THEN Views("OK", <<>>)
        ELSE IF epoch = 0 THEN
             IF Present(db, key(head.epoch))
             THEN Views("OK", Single(head.epoch, db[key(head.epoch)])) ELSE Views("EIO", <<>>)
        ELSE Views("OK", [e \in {f \in epoch .. epoch + max_views - 1 : Run(f)} |->
                            db[key(e)]])

\* What ProposeView finds before it writes anything
ProposeRet(db, h, epoch) ==
    IF epoch = 0 THEN "EINVAL"
    ELSE IF Get(db, HeadKey(h)) # "OK" THEN Get(db, HeadKey(h))
    ELSE IF epoch > db[HeadKey(h)].epoch + 1 THEN "EINVAL"
    ELSE IF epoch # db[HeadKey(h)].epoch + 1 THEN "ESPIPE"
    ELSE PutRet(db, ProjectionKey(h, epoch))

\* The new view is put into the transaction, which nobody sees before it
\* commits; the head's epoch is changed in place, which everybody sees.
EpochInPlace(db, h, epoch) == [db EXCEPT ![HeadKey(h)].epoch = epoch]

ProposeCommit(db, h, epoch, view) ==
    Put(EpochInPlace(db, h, epoch), ProjectionKey(h, epoch), view)
==============================================================================
