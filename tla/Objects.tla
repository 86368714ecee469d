------------------------------- MODULE Objects -------------------------------
(***************************************************************************)
(* One log object stored three ways: by the RAM backend (Backend), by LMDB *)
(* (LMDB) and in Ceph (ClsZlog, driven by storage/ceph/ceph.cc).  Clients  *)
(* make the same calls to all three, and each is shown to implement        *)
(* ObjectSpec, so a client cannot tell which one it is talking to.         *)
(*                                                                         *)
(* RAM and LMDB calls are atomic.  So are Ceph's, except for Trim with     *)
(* trim_full: after the object class has set the limit, the client         *)
(* removes the entries one request at a time and then truncates the        *)
(* stream.  None of these requests carries an epoch.  Other clients' calls *)
(* come in between, two clients may be at it, and a client may crash.      *)
(***************************************************************************)
EXTENDS Integers, Sequences, FiniteSetsExt

CONSTANTS
    Clients,
    NumPositions,   \* positions of the object: 0 .. NumPositions - 1
    MaxLimit,       \* bound: largest trim limit
    NumData,        \* data values; value d is d - 1 bytes long
    MaxEpoch,       \* bound: largest epoch
    OmapMaxSizes,   \* CephBackend::omap_max_size_ of the clients, -1 for none
    OffsetMod,      \* 2^32, the offsets of a byte stream
    Word            \* 2^64, the positions

ASSUME ObjectsAssumption ==
    /\ NumPositions \in Nat \ {0}
    /\ MaxLimit \in Nat
    /\ NumData \in Nat
    /\ MaxEpoch \in Nat
    /\ OmapMaxSizes \subseteq Int
    /\ OffsetMod \in Nat \ {0}
    /\ Word \in Nat \ {0}

Positions == 0 .. NumPositions - 1
Limits == 0 .. MaxLimit
Data == 1 .. NumData
Epochs == 0 .. MaxEpoch

VARIABLES
    ram,        \* the object in the RAM backend
    db,         \* the key space of the LMDB backend
    rados,      \* the object in Ceph
    gc,         \* gc[c]: client c's position in CephBackend::Trim
    call,       \* the last call and its arguments
    ans,        \* the three answers to it
    reclaimed   \* history: some full trim has run to its end

vars == <<ram, db, rados, gc, call, ans, reclaimed>>

R == INSTANCE Backend WITH
       Width <- 1, Slots <- NumPositions, MaxStripes <- 1, MaxOps <- NumData
L == INSTANCE LMDB
C == INSTANCE ClsZlog WITH MaxViewReads <- 100

Bytes(d) == [i \in 1 .. d - 1 |-> d]

NotTrimming == [step |-> "no", pos |-> 0, after |-> -1, key |-> 0]

\* A call of op with the arguments it has; the others are 0 and FALSE.
Request(op, e, p, d, limit, full) ==
    [op |-> op, epoch |-> e, pos |-> p, data |-> d, limit |-> limit, full |-> full]

Init ==
    /\ ram = R!Absent
    /\ db = <<>>
    /\ rados = C!Absent
    /\ gc = [c \in Clients |-> NotTrimming]
    /\ call = Request("none", 0, 0, 0, FALSE, FALSE)
    /\ ans = [b \in {"ram", "lmdb", "ceph"} |-> [ret |-> "OK", val |-> 0]]
    /\ reclaimed = FALSE

Asks(op, e, p, d, limit, full) == call' = Request(op, e, p, d, limit, full)

Answers(r, l, c) ==
    ans' = [ram |-> r, lmdb |-> l, ceph |-> c]

Value(ret, val) == [ret |-> ret, val |-> IF ret = "OK" THEN val ELSE 0]

\* The RAM backend's argument checks, before it takes its lock.
RamArgs(e, result) == IF e = 0 THEN R!Result("EINVAL", ram) ELSE result

\* A call that changes the object: r, l and k are what the backends do.
Call(r, l, k) ==
    /\ ram' = r.obj
    /\ db' = l.db
    /\ rados' = k.obj
    /\ Answers(Value(r.ret, 0), Value(l.ret, 0), Value(k.ret, 0))
    /\ UNCHANGED reclaimed

\* Client c is not reclaiming space.
Ready(c) == gc[c].step = "no"

\* Calls that do not depend on the client come from one that is ready.
SomeReady == {c \in Clients : Ready(c)} # {}

\* What a read of a byte string means; a string no writer wrote means nothing.
Decoded(bytes) ==
    IF \E d \in Data : Bytes(d) = bytes
    THEN CHOOSE d \in Data : Bytes(d) = bytes ELSE -2

Read(e, p) ==
    /\ Asks("read", e, p, 0, FALSE, FALSE)
    /\ LET r == IF e = 0 THEN "EINVAL" ELSE R!Read(ram, e, p)
           l == L!Read(db, e, p)
           k == C!entry_read(rados, e, p)
       IN  Answers(Value(r, ram.entries[p]),
                   Value(l, IF l = "OK" THEN db[L!LogEntryKey(p)].data ELSE 0),
                   Value(k, IF k = "OK" THEN Decoded(C!EntryBytes(rados, p)) ELSE 0))
    /\ UNCHANGED <<ram, db, rados, gc, reclaimed>>

Write(e, p, d) ==
    /\ Asks("write", e, p, d, FALSE, FALSE)
    /\ Call(RamArgs(e, R!Write(ram, e, p, d)),
            L!Write(db, e, p, d),
            C!entry_write(rados, e, p, Bytes(d)))
    /\ UNCHANGED gc

Fill(e, p) ==
    /\ Asks("fill", e, p, 0, FALSE, FALSE)
    /\ Call(RamArgs(e, R!Fill(ram, e, p)),
            L!Fill(db, e, p),
            C!entry_invalidate(rados, e, p, FALSE, FALSE))
    /\ UNCHANGED gc

TrimOne(e, p) ==
    /\ Asks("trim", e, p, 0, FALSE, FALSE)
    /\ Call(RamArgs(e, R!Trim(ram, e, p)),
            L!Trim(db, e, p, FALSE, FALSE),
            C!entry_invalidate(rados, e, p, TRUE, FALSE))
    /\ UNCHANGED gc

\* Seeded fault: space is reclaimed after every range trim.
FaultyGoesOn(ret, full) == ret = "OK"

\* CephBackend::Trim returns after the class call, or starts to reclaim space.
GoesOn(ret, full) == full /\ ret = "OK"

\* Trim with trim_limit.  trim_full is set by map_to, when all of the object's
\* positions are covered.
Trim(c, e, p, full) ==
    /\ Ready(c)
    /\ full => p >= NumPositions - 1
    /\ Asks("trim", e, p, 0, TRUE, full)
    /\ LET k == C!entry_invalidate(rados, e, p, TRUE, TRUE)
       IN  /\ Call(RamArgs(e, R!TrimLimit(ram, e, p, full)),
                   L!Trim(db, e, p, TRUE, full), k)
           /\ gc' = [gc EXCEPT ![c] = IF GoesOn(k.ret, full)
                                      THEN [NotTrimming EXCEPT !.step = "list", !.pos = p]
                                      ELSE @]

\* All three refuse trim_full without trim_limit before they do anything.
BadTrim(e, p) ==
    /\ Asks("trim", e, p, 0, FALSE, TRUE)
    /\ Call(R!Result("EINVAL", ram), L!Trim(db, e, p, FALSE, TRUE), C!Reply("EINVAL", rados))
    /\ UNCHANGED gc

\* The client that seals decides where large entries go.
Seal(e, omap_max_size) ==
    /\ Asks("seal", e, 0, 0, FALSE, FALSE)
    /\ Call(RamArgs(e, R!Seal(ram, e)), L!Seal(db, e),
            C!entry_seal(rados, e, omap_max_size))
    /\ UNCHANGED gc

\* RAMBackend::MaxPos, LMDBBackend::MaxPos, CephBackend::MaxPos
MaxPos ==
    /\ Asks("maxpos", 0, 0, 0, FALSE, FALSE)
    /\ Answers(Value(IF ram.epoch = 0 THEN "ENOENT" ELSE "OK", R!MaxPosPlus1(ram)),
               Value(L!Get(db, L!ObjKey),
                     IF L!Present(db, L!ObjKey) THEN L!MaxPosPlus1(db) ELSE 0),
               Value(IF rados.epoch = 0 THEN "ENOENT" ELSE "OK", C!entry_max_position(rados)))
    /\ UNCHANGED <<ram, db, rados, gc, reclaimed>>

(* Reclaiming space in Ceph *)
After(c, g) == gc' = [gc EXCEPT ![c] = g]

\* omap_get_keys(oid, start_after, 1): the first key after the last one seen.
\* A key beyond the position fails the call.
TrimList(c) ==
    /\ gc[c].step = "list"
    /\ LET keys == {p \in DOMAIN rados.omap : p > gc[c].after}
           k == Min(keys)
       IN  After(c, IF keys = {} THEN [gc[c] EXCEPT !.step = "truncate"]
                    ELSE [gc[c] EXCEPT !.step = IF k > gc[c].pos THEN "failed" ELSE "remove",
                                       !.key = k, !.after = k])
    /\ UNCHANGED <<ram, db, rados, call, ans, reclaimed>>

\* omap_rm_keys; a key that somebody else removed is no error.
TrimRemove(c) ==
    /\ gc[c].step = "remove"
    /\ rados' = [rados EXCEPT !.omap =
                   [p \in DOMAIN rados.omap \ {gc[c].key} |-> rados.omap[p]]]
    /\ After(c, [gc[c] EXCEPT !.step = "list"])
    /\ UNCHANGED <<ram, db, call, ans, reclaimed>>

\* Seeded fault: the stream is left alone.
FaultyTrimTruncate(c) ==
    /\ gc[c].step = "truncate"
    /\ reclaimed' = TRUE
    /\ After(c, NotTrimming)
    /\ UNCHANGED <<ram, db, rados, call, ans>>

\* trunc(oid, 0), and Trim returns
TrimTruncate(c) ==
    /\ gc[c].step = "truncate"
    /\ rados' = [rados EXCEPT !.stream = <<>>]
    /\ reclaimed' = TRUE
    /\ After(c, NotTrimming)
    /\ UNCHANGED <<ram, db, call, ans>>

\* A client that crashes while it reclaims space leaves the rest behind.
Crash(c) ==
    /\ ~Ready(c)
    /\ After(c, NotTrimming)
    /\ UNCHANGED <<ram, db, rados, call, ans, reclaimed>>

Next ==
    \/ SomeReady /\ MaxPos
    \/ \E e \in Epochs, size \in OmapMaxSizes : SomeReady /\ Seal(e, size)
    \/ \E e \in Epochs, p \in Positions :
         /\ SomeReady
         /\ \/ Read(e, p)
            \/ Fill(e, p)
            \/ TrimOne(e, p)
            \/ BadTrim(e, p)
            \/ \E d \in Data : Write(e, p, d)
    \/ \E c \in Clients :
         \/ \E e \in Epochs, p \in Limits, full \in BOOLEAN : Trim(c, e, p, full)
         \/ TrimList(c)
         \/ TrimRemove(c)
         \/ TrimTruncate(c)
         \/ Crash(c)

Spec == Init /\ [][Next]_vars

(* Stat, the size of an object that was sealed *)
\* The bytes of the entries; an invalidated entry has none.
RamStat ==
    MapThenSumSet(LAMBDA p : IF ram.entries[p] \in Data THEN Len(Bytes(ram.entries[p])) ELSE 0,
                  Positions)

\* The stream and the omap values, with 20 bytes for the header of an entry
CephStat ==
    Len(rados.stream)
      + MapThenSumSet(LAMBDA p : 20 + Len(rados.omap[p].data), DOMAIN rados.omap)

(* The object each backend stands for *)
RamCell(p) == IF R!Trimmed(ram, p) THEN -1 ELSE ram.entries[p]
RamCells == [p \in Positions |-> RamCell(p)]
RamTop == R!MaxPosPlus1(ram)

LmdbCell(p) ==
    LET k == L!LogEntryKey(p) IN
    IF L!Trimmed(db, p) THEN -1
    ELSE IF ~L!Present(db, k) THEN 0
    ELSE IF db[k].trimmed \/ db[k].invalidated THEN -1 ELSE db[k].data

\* An object that was never sealed is not in the database.
Stored == L!Present(db, L!ObjKey)

LmdbEpoch == IF Stored THEN db[L!ObjKey].epoch ELSE 0
LmdbCells == [p \in Positions |-> IF Stored THEN LmdbCell(p) ELSE 0]
LmdbTop == IF Stored THEN L!MaxPosPlus1(db) ELSE 0

CephCell(p) ==
    IF C!position_trimmed(rados, p) THEN -1
    ELSE IF ~C!exists(rados, p) THEN 0
    ELSE IF C!invalid(rados, p) THEN -1 ELSE Decoded(C!EntryBytes(rados, p))
CephCells == [p \in Positions |-> CephCell(p)]
CephTop == C!entry_max_position(rados)

RamSpec == INSTANCE ObjectSpec WITH
    epoch <- ram.epoch, cells <- RamCells, top <- RamTop, ans <- ans.ram

LmdbSpec == INSTANCE ObjectSpec WITH
    epoch <- LmdbEpoch, cells <- LmdbCells, top <- LmdbTop, ans <- ans.lmdb

CephSpec == INSTANCE ObjectSpec WITH
    epoch <- rados.epoch, cells <- CephCells, top <- CephTop, ans <- ans.ceph

\* The RAM backend implements the object of the storage interface.
RamImplements == RamSpec!Spec

\* So does the LMDB backend, with its limit, maximum and entries under
\* different keys.
LmdbImplements == LmdbSpec!Spec

\* So does Ceph: reclaiming the space of a trimmed object is invisible, also
\* when a client crashes half way or two clients are at it while others write.
CephImplements == CephSpec!Spec

\* A full trim never meets an entry beyond its limit (the -EIO of
\* CephBackend::Trim), and once one has returned the object stays empty: no
\* backend's Stat reports anything, whatever other clients have in flight.
ReclaimedForGood ==
    /\ \A c \in Clients : gc[c].step # "failed"
    /\ reclaimed =>
         RamStat = 0 /\ L!StatZero(db) /\ CephStat = 0
==============================================================================
