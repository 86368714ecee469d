------------------------------- MODULE ClsZlog -------------------------------
(***************************************************************************)
(* The object class that the Ceph backend runs inside the storage daemons  *)
(* (storage/ceph/cls_zlog.{h,cc}).  A method runs alone on its object, and *)
(* the object's changes are applied together or not at all, so a method is *)
(* a function of the object's state.                                       *)
(*                                                                         *)
(* A log object has a header, entries in the omap and a byte stream.  An   *)
(* entry's bytes live in the omap value or, when they are at least as      *)
(* many as the size the last sealer asked for, at the end of the stream.   *)
(***************************************************************************)
EXTENDS Integers, Sequences, Update

CONSTANTS
    OffsetMod,      \* LogEntry::offset_ is 32 bits wide: 2^32
    Word,           \* 2^64, the positions; a trim limit is kept as an int64_t
    MaxViewReads    \* ZLOG_MAX_VIEW_READS

NoLimit == -1

\* An object that was never sealed; max_pos_ is meaningless while empty_.
Absent ==
    [epoch |-> 0, empty |-> TRUE, max_pos |-> 0, omap_max_size |-> -1,
     trim_limit |-> NoLimit, omap |-> <<>>, stream |-> <<>>]

Reply(ret, o) == [ret |-> ret, obj |-> o]

\* LogObjectHeader::read, then epoch_guard
Guard(o, epoch) ==
    IF o.epoch = 0 THEN "ENOENT"
    ELSE IF epoch < 1 THEN "EINVAL"
    ELSE IF epoch < o.epoch THEN "ESPIPE" ELSE "OK"

position_trimmed(o, p) == p <= o.trim_limit

update_max_pos(o, p) ==
    IF o.empty \/ p > o.max_pos
    THEN [o EXCEPT !.max_pos = p, !.empty = FALSE] ELSE o

\* LogObjectHeader::write, then read: the header keeps an int64_t, and a
\* negative one is no limit.
StoredLimit(p) == IF 2 * p < Word THEN p ELSE NoLimit

update_trim_limit(o, p) ==
    IF o.trim_limit = NoLimit \/ p > o.trim_limit
    THEN update_max_pos([o EXCEPT !.trim_limit = StoredLimit(p)], p) ELSE o

\* LogEntry::read, exists and invalid
exists(o, p) == p \in DOMAIN o.omap
invalid(o, p) == o.omap[p].invalid

NewEntry == [invalid |-> FALSE, bytestream |-> FALSE, data |-> <<>>, offset |-> 0, length |-> 0]

\* LogEntry::write
WriteEntry(o, p, entry) == [o EXCEPT !.omap = With(@, p, entry)]

\* Values this long go to the stream; a negative size was never asked for.
ToStream(o, bytes) == o.omap_max_size >= 0 /\ Len(bytes) >= o.omap_max_size

\* cls_cxx_write: the bytes replace those from the offset on.
Overwrite(stream, offset, bytes) ==
    SubSeq(stream, 1, offset) \o bytes
      \o SubSeq(stream, offset + Len(bytes) + 1, Len(stream))

\* LogEntry::set_data: the entry and the stream.  The offset is where the
\* stream ends, cut to 32 bits before the bytes are written.
set_data(o, bytes) ==
    LET offset == Len(o.stream) % OffsetMod IN
    IF ToStream(o, bytes)
    THEN [entry  |-> [NewEntry EXCEPT !.bytestream = TRUE,
                                      !.offset = offset,
                                      !.length = Len(bytes)],
          stream |-> Overwrite(o.stream, offset, bytes)]
    ELSE [entry |-> [NewEntry EXCEPT !.data = bytes], stream |-> o.stream]

\* LogEntry::read(out); a read past the end of the stream is short.
EntryBytes(o, p) ==
    LET x == o.omap[p]
        last == IF x.offset + x.length < Len(o.stream)
                THEN x.offset + x.length ELSE Len(o.stream)
    IN  IF x.bytestream THEN SubSeq(o.stream, x.offset + 1, last) ELSE x.data

entry_read(o, epoch, p) ==
    IF Guard(o, epoch) # "OK" THEN Guard(o, epoch)
    ELSE IF position_trimmed(o, p) THEN "ENODATA"
    ELSE IF ~exists(o, p) THEN "ERANGE"
    ELSE IF invalid(o, p) THEN "ENODATA"
    ELSE "OK"

entry_write(o, epoch, p, bytes) ==
    LET new == set_data(o, bytes) IN
    IF Guard(o, epoch) # "OK" THEN Reply(Guard(o, epoch), o)
    ELSE IF position_trimmed(o, p) \/ exists(o, p) THEN Reply("EROFS", o)
    ELSE Reply("OK", update_max_pos(
             WriteEntry([o EXCEPT !.stream = new.stream], p, new.entry), p))

\* force is trim, otherwise fill; limit is a range trim.
entry_invalidate(o, epoch, p, force, limit) ==
    IF limit /\ ~force THEN Reply("EIO", o)
    ELSE IF Guard(o, epoch) # "OK" THEN Reply(Guard(o, epoch), o)
    ELSE IF limit THEN Reply("OK", update_trim_limit(o, p))
    ELSE IF position_trimmed(o, p) THEN Reply("OK", o)
    ELSE IF exists(o, p) /\ invalid(o, p) THEN Reply("OK", o)
    ELSE IF exists(o, p) /\ ~force THEN Reply("EROFS", o)
    ELSE LET x == IF exists(o, p) THEN o.omap[p] ELSE NewEntry
         IN  Reply("OK", update_max_pos(
                 WriteEntry(o, p, [x EXCEPT !.invalid = TRUE]), p))

entry_seal(o, epoch, omap_max_size) ==
    IF epoch < 1 THEN Reply("EINVAL", o)
    ELSE IF epoch <= o.epoch THEN Reply("ESPIPE", o)
    ELSE Reply("OK", [o EXCEPT !.omap_max_size = omap_max_size, !.epoch = epoch])

\* 0 stands for an empty reply, otherwise the position plus one.
entry_max_position(o) == IF o.empty THEN 0 ELSE o.max_pos + 1

(* Head objects: a header, one omap value per view, and the id attribute *)
HeadObject(epoch) == [epoch |-> epoch, views |-> <<>>, unique_id |-> 0]

\* cls_cxx_stat finds the object, or it is created with epoch 0.
head_init(exists_ret) == IF exists_ret = "OK" THEN "EEXIST" ELSE "OK"

\* HeadObject::set_epoch
EpochRet(head, epoch) ==
    IF epoch = head.epoch + 1 THEN "OK"
    ELSE IF epoch > head.epoch + 1 THEN "EINVAL" ELSE "ESPIPE"

\* set_epoch, write_view and finalize
view_create(head, epoch, view) ==
    LET ret == IF epoch < 1 THEN "EINVAL" ELSE EpochRet(head, epoch) IN
    Reply(ret, IF ret = "OK"
               THEN [head EXCEPT !.epoch = epoch, !.views = With(@, epoch, view)]
               ELSE head)

\* Seeded fault: the views stop short of the last one.
FaultyViewRead(head, epoch, max_views) ==
    LET first == IF epoch = 0 THEN head.epoch ELSE epoch
        asked == {e \in first .. head.epoch - 1 : e > 0 /\ e < first + max_views}
    IN  [ret |-> "OK", views |-> [e \in asked |-> head.views[e]]]

view_read(head, epoch, max_views) ==
    LET first == IF epoch = 0 THEN head.epoch ELSE epoch
        most == IF max_views < MaxViewReads THEN max_views ELSE MaxViewReads
        asked == {e \in first .. head.epoch : e > 0 /\ e < first + most}
    IN  IF asked \subseteq DOMAIN head.views
        THEN [ret |-> "OK", views |-> [e \in asked |-> head.views[e]]]
        ELSE [ret |-> "EIO", views |-> <<>>]

\* 0 stands for a missing attribute, which the client takes for 0 as well.
unique_id_read(head) == head.unique_id

\* Seeded fault: whatever is written is stored.
FaultyUniqueIdWrite(head, id) == Reply("OK", [head EXCEPT !.unique_id = id])

unique_id_write(head, id) ==
    IF id # head.unique_id + 1 THEN Reply("ESTALE", head)
    ELSE Reply("OK", [head EXCEPT !.unique_id = id])
==============================================================================
