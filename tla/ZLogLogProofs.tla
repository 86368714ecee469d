---------------------------- MODULE ZLogLogProofs ----------------------------
(***************************************************************************)
(* What users see of the log: it implements SharedLog, a read never misses *)
(* what was consumed before it began, trimTo leaves nothing behind.        *)
(* And what they see of sequencers: a client keeps the one it has, and     *)
(* appends are ordered in real time, also across takeovers.                *)
(***************************************************************************)
EXTENDS ZLogFenceProofs

-----------------------------------------------------------------------------
(* How a step of a thread changes its operation *)

SameOp(me, r) ==
    /\ r.op = me.op /\ r.data = me.data
    /\ r.seen = me.seen /\ r.floor = me.floor

\* The step ends the operation, or goes on with it: only a sequencer gives it
\* another position, and it holds the view it read or reads the current one.
KeepsOp(t, me, r) ==
    /\ SameOp(me, r)
    /\ me.pc # "done"
    /\ r.pos = me.pos \/ AppendTail(t) \/ CheckTail(t)
    /\ \/ r.position_epoch = me.position_epoch
       \/ AppendTail(t)
       \/ WriteIo(t) /\ r.position_epoch = 0 /\ r.pc = "view"
    /\ r.pc = "trim" => TrimToGetView(t) \/ TrimToIo(t)
    /\ r.pc = "done" /\ r.op = "read" => ReadIo(t)
    /\ r.pc = "done" /\ r.op = "append" =>
          WriteIo(t) \/ (SeqGetView(t) /\ r.ret = "EIO")
    /\ r.op = "append" /\ r.pc \in {"tail", "io", "seal"} =>
          \/ /\ SeqGetView(t) /\ r.view = cview[ClientOf(t)]
             /\ HasSeq(ClientOf(t), r.view)
             /\ r.pc = "tail" \/ r.position_epoch = seq[ClientOf(t)].epoch
          \/ AppendTail(t) /\ r.view = me.view
          \/ me.pc \in {"io", "seal"} /\ r.view = me.view

\* An idle thread has no operation.
LEMMA IdleOp == Idle.op = "none" /\ Idle.pc = "idle"
BY DEF Idle

\* A return code of the backend changes neither the operation nor its position.
LEMMA AfterIoKeeps ==
    ASSUME NEW me \in Thread, NEW ret
    PROVE  LET r == AfterIo(me, ret) IN
           /\ SameOp(me, r) /\ r.pos = me.pos /\ r.view = me.view
           /\ r.position_epoch = me.position_epoch
           /\ r.pc \in {"wait", "seal", "done"}
           /\ r.pc = "done" => r.ret = ret /\ ret \notin {"ENOENT", "ESPIPE"}
<1> DEFINE r1 == [me EXCEPT !.pc = "wait", !.cur = me.view]
           r2 == [me EXCEPT !.pc = "seal"]
           r3 == [me EXCEPT !.pc = "done", !.ret = ret]
           P(r) == /\ SameOp(me, r) /\ r.pos = me.pos /\ r.view = me.view
                   /\ r.position_epoch = me.position_epoch
<1>1. P(r1) /\ r1.pc = "wait"
  BY DEF SameOp, Thread
<1>2. P(r2) /\ r2.pc = "seal"
  BY DEF SameOp, Thread
<1>3. P(r3) /\ r3.pc = "done" /\ r3.ret = ret
  BY DEF SameOp, Thread
<1>4. AfterIo(me, ret) = CASE ret = "ESPIPE" -> r1
                           [] ret = "ENOENT" -> r2
                           [] OTHER -> r3
  BY DEF AfterIo
<1> HIDE DEF r1, r2, r3, P
<1>5. \/ AfterIo(me, ret) \in {r1, r2}
      \/ AfterIo(me, ret) = r3 /\ ret \notin {"ENOENT", "ESPIPE"}
  BY <1>4
<1>6. CASE AfterIo(me, ret) = r1
  BY <1>1, <1>6 DEF P
<1>7. CASE AfterIo(me, ret) = r2
  BY <1>2, <1>7 DEF P
<1>8. CASE AfterIo(me, ret) = r3 /\ ret \notin {"ENOENT", "ESPIPE"}
  BY <1>3, <1>8 DEF P
<1> QED BY <1>5, <1>6, <1>7, <1>8

\* Every step of a thread is of one of the two kinds.
LEMMA OpStepKeeps ==
    ASSUME TypeInv, NEW t \in Threads, OpStep(t)
    PROVE  \/ th'[t].op = "none" /\ th'[t].pc # "trim"
           \/ KeepsOp(t, th[t], th'[t])
<1> DEFINE me == th[t]
           c == ClientOf(t)
           e == cview[c]
<1>0. th \in [Threads -> Thread] /\ me \in Thread
  BY DEF TypeInv, TypeOK
<1>1. CASE SeqGetView(t)
  <2>1. \/ th'[t] = [me EXCEPT !.pc = "done", !.ret = "EIO", !.view = e]
        \/ /\ th'[t] = [me EXCEPT !.pc = MapNext(e, me.pos), !.view = e,
                               !.retries = ExpandRetries]
           /\ HasSeq(c, e) /\ me.position_epoch = seq[c].epoch
        \/ th'[t] = [me EXCEPT !.pc = "tail", !.view = e] /\ HasSeq(c, e)
    BY <1>0, <1>1 DEF SeqGetView
  <2>2. me.pc = "view" /\ me.op \in {"append", "tail"}
    BY <1>1 DEF SeqGetView
  <2>3. CASE th'[t] = [me EXCEPT !.pc = "done", !.ret = "EIO", !.view = e]
    BY <1>0, <1>1, <2>2, <2>3 DEF KeepsOp, SameOp, Thread
  <2>4. CASE /\ th'[t] = [me EXCEPT !.pc = MapNext(e, me.pos), !.view = e,
                               !.retries = ExpandRetries]
             /\ HasSeq(c, e) /\ me.position_epoch = seq[c].epoch
    BY <1>0, <1>1, <2>2, <2>4 DEF KeepsOp, SameOp, Thread, MapNext
  <2>5. CASE th'[t] = [me EXCEPT !.pc = "tail", !.view = e] /\ HasSeq(c, e)
    BY <1>0, <1>1, <2>2, <2>5 DEF KeepsOp, SameOp, Thread
  <2> QED BY <2>1, <2>3, <2>4, <2>5
<1>2. CASE AppendTail(t)
  <2> DEFINE p == seq[ClientOf(t)].pos
             r == [me EXCEPT !.pc = MapNext(me.view, p), !.pos = p,
                       !.position_epoch = seq[ClientOf(t)].epoch,
                       !.retries = ExpandRetries]
  <2>1. th'[t] = r /\ me.pc = "tail"
    BY <1>0, <1>2 DEF AppendTail
  <2>2. r.pc \in {"io", "expand"} /\ SameOp(me, r) /\ r.view = me.view
    BY <1>0 DEF SameOp, Thread, MapNext
  <2> HIDE DEF r
  <2> QED BY <1>2, <2>1, <2>2 DEF KeepsOp
<1>3. CASE CheckTail(t)
  BY <1>0, <1>3 DEF CheckTail, KeepsOp, SameOp, Thread
<1>4. CASE PosGetView(t)
  <2>1. th'[t] = [me EXCEPT !.pc = MapNext(e, me.pos), !.view = e,
                            !.retries = ExpandRetries]
        /\ me.pc = "view" /\ me.op \in {"read", "fill", "trim"}
    BY <1>0, <1>4 DEF PosGetView
  <2> QED BY <1>0, <2>1 DEF KeepsOp, SameOp, Thread, MapNext
<1>5. CASE ReadIo(t)
  <2>1. PICK ret : th'[t] \in {[me EXCEPT !.pc = "done", !.ret = "ENOENT"],
                               AfterIo(me, ret)}
    BY <1>0, <1>5 DEF ReadIo
  <2>2. me.pc = "io" /\ me.op = "read"
    BY <1>5 DEF ReadIo
  <2>3. CASE th'[t] = [me EXCEPT !.pc = "done", !.ret = "ENOENT"]
    BY <1>0, <1>5, <2>2, <2>3 DEF KeepsOp, SameOp, Thread
  <2>4. CASE th'[t] = AfterIo(me, ret)
    <3>1. SameOp(me, th'[t]) /\ th'[t].pos = me.pos
          /\ th'[t].position_epoch = me.position_epoch
          /\ th'[t].pc \in {"wait", "seal", "done"}
      BY <1>0, <2>4, AfterIoKeeps
    <3> QED BY <1>5, <2>2, <3>1 DEF KeepsOp, SameOp
  <2> QED BY <2>1, <2>3, <2>4
<1>6. CASE WriteIo(t)
  <2>1. PICK ret : th'[t] \in {[me EXCEPT !.pc = "view", !.position_epoch = 0],
                               AfterIo(me, ret)}
    BY <1>0, <1>6 DEF WriteIo
  <2>2. me.pc = "io" /\ me.op = "append"
    BY <1>6 DEF WriteIo
  <2>3. CASE th'[t] = [me EXCEPT !.pc = "view", !.position_epoch = 0]
    BY <1>0, <1>6, <2>2, <2>3 DEF KeepsOp, SameOp, Thread
  <2>4. CASE th'[t] = AfterIo(me, ret)
    <3>1. SameOp(me, th'[t]) /\ th'[t].pos = me.pos /\ th'[t].view = me.view
          /\ th'[t].position_epoch = me.position_epoch
          /\ th'[t].pc \in {"wait", "seal", "done"}
      BY <1>0, <2>4, AfterIoKeeps
    <3> QED BY <1>6, <2>2, <3>1 DEF KeepsOp, SameOp
  <2> QED BY <2>1, <2>3, <2>4
<1>7. CASE FillIo(t) \/ TrimIo(t)
  <2>1. PICK ret : th'[t] = AfterIo(me, ret)
    BY <1>0, <1>7 DEF FillIo, TrimIo
  <2>2. me.pc = "io" /\ me.op \in {"fill", "trim"}
    BY <1>7 DEF FillIo, TrimIo
  <2>3. SameOp(me, th'[t]) /\ th'[t].pos = me.pos
        /\ th'[t].position_epoch = me.position_epoch
        /\ th'[t].pc \in {"wait", "seal", "done"}
    BY <1>0, <2>1, AfterIoKeeps
  <2> QED BY <2>2, <2>3 DEF KeepsOp, SameOp
<1>9. CASE SealObject(t)
  <2>1. PICK pc \in {"io", "view"} : th' = [th EXCEPT ![t] = [@ EXCEPT !.pc = pc]]
    BY <1>9 DEF SealObject, Goto
  <2>2. me.pc = "seal"
    BY <1>9 DEF SealObject
  <2> QED BY <1>0, <2>1, <2>2 DEF KeepsOp, SameOp, Thread
<1>10. CASE WaitDone(t)
  BY <1>0, <1>10 DEF WaitDone, KeepsOp, SameOp, Thread
<1>11. CASE TrimToGetView(t)
  <2>1. me.pc = "view" /\ me.op = "trimTo"
    BY <1>11 DEF TrimToGetView
  <2>2. PICK pc \in {"advance", "trim", "expand"} :
          th' = [th EXCEPT ![t] = [@ EXCEPT !.pc = pc, !.view = e, !.stripe = 0,
                                     !.idx = 0, !.retries = ExpandRetries]]
    BY <1>11 DEF TrimToGetView
  <2> QED BY <1>0, <1>11, <2>1, <2>2 DEF KeepsOp, SameOp, Thread
<1>12. CASE AdvanceRead(t)
  <2>1. PICK pc \in {"view", "apropose"} :
          th' = [th EXCEPT ![t] = [@ EXCEPT !.pc = pc, !.cur = e]]
    BY <1>12 DEF AdvanceRead
  <2>2. me.pc = "advance"
    BY <1>12 DEF AdvanceRead
  <2> QED BY <1>0, <2>1, <2>2 DEF KeepsOp, SameOp, Thread
<1>13. CASE AdvancePropose(t)
  BY <1>0, <1>13 DEF AdvancePropose, Goto, KeepsOp, SameOp, Thread
<1>14. CASE TrimToIo(t)
  <2>1. me.pc = "trim" /\ me.op = "trimTo"
    BY <1>14, ThreadRuns DEF TrimToIo, ThreadValid
  <2>2. PICK i, s, ret :
          th' \in {[th EXCEPT ![t] = AfterIo(me, ret)],
                  [th EXCEPT ![t] = [me EXCEPT !.idx = i, !.stripe = s]]}
    BY <1>14, Zenon DEF TrimToIo
  <2>3. CASE th' = [th EXCEPT ![t] = AfterIo(me, ret)]
    <3>1. th'[t] = AfterIo(me, ret)
      BY <1>0, <2>3
    <3>2. SameOp(me, th'[t]) /\ th'[t].pos = me.pos
          /\ th'[t].position_epoch = me.position_epoch
          /\ th'[t].pc \in {"wait", "seal", "done"}
      BY <1>0, <3>1, AfterIoKeeps
    <3> QED BY <1>14, <2>1, <3>2 DEF KeepsOp, SameOp
  <2>4. CASE th' = [th EXCEPT ![t] = [me EXCEPT !.idx = i, !.stripe = s]]
    BY <1>0, <1>14, <2>1, <2>4 DEF KeepsOp, SameOp, Thread
  <2> QED BY <2>2, <2>3, <2>4
<1>15. CASE TrimToDone(t)
  <2>1. me.pc = "trim" /\ me.op = "trimTo"
    BY <1>15, ThreadRuns DEF TrimToDone, ThreadValid
  <2> QED BY <1>0, <1>15, <2>1 DEF TrimToDone, Goto, KeepsOp, SameOp, Thread
<1>16. CASE Callback(t) \/ ExpanderWake(t) \/ ExpanderClear(t)
  <2>1. th'[t] = Idle \/ \E p : th'[t] = [Idle EXCEPT !.pc = "xview", !.pos = p]
    BY <1>0, <1>16 DEF Callback, ExpanderWake, ExpanderClear
  <2>2. \A p : LET r == [Idle EXCEPT !.pc = "xview", !.pos = p] IN
          r.op = "none" /\ r.pc = "xview"
    BY DEF Idle
  <2> QED BY <2>1, <2>2, IdleOp
<1>17. CASE ExpandRead(t)
  <2>1. \/ th'[t] = Idle
        \/ th'[t] = [me EXCEPT !.pc = "view", !.cur = 0, !.retries = 0, !.ret = "OK"]
        \/ th'[t] = [me EXCEPT !.pc = "propose", !.cur = e]
    BY <1>0, <1>17 DEF ExpandRead, AfterExpand
  <2>2. me.pc = "expand"
    BY <1>17 DEF ExpandRead
  <2> QED BY <1>0, <2>1, <2>2, IdleOp DEF KeepsOp, SameOp, Thread
<1>18. CASE ExpandPropose(t)
  BY <1>0, <1>18 DEF ExpandPropose, KeepsOp, SameOp, Thread
<1>19. CASE ExpandWaited(t)
  <2>1. \/ th'[t] = Idle
        \/ th'[t] = [me EXCEPT !.pc = "view", !.cur = 0, !.retries = 0, !.ret = "OK"]
        \/ th'[t] = [me EXCEPT !.pc = "expand", !.retries = me.retries - 1]
    BY <1>0, <1>19 DEF ExpandWaited, AfterExpand
  <2>2. me.pc = "ewait"
    BY <1>19 DEF ExpandWaited
  <2> QED BY <1>0, <2>1, <2>2, IdleOp DEF KeepsOp, SameOp, Thread
<1>21. CASE ExpanderMap(t)
  <2>1. PICK pc \in {"xclear", "expand"} :
          th' = [th EXCEPT ![t] = [@ EXCEPT !.pc = pc, !.retries = ExpandRetries]]
    BY <1>21 DEF ExpanderMap
  <2>2. me.pc = "xview"
    BY <1>21 DEF ExpanderMap
  <2> QED BY <1>0, <2>1, <2>2 DEF KeepsOp, SameOp, Thread
<1> QED BY <1>1, <1>2, <1>3, <1>4, <1>5, <1>6, <1>7, <1>9, <1>10, <1>11,
           <1>12, <1>13, <1>14, <1>15, <1>16, <1>17, <1>18, <1>19, <1>21
        DEF OpStep

-----------------------------------------------------------------------------
(* What a step does to the log *)

\* No trim limit goes down.
LimitsKept ==
    \A p \in Positions : Trimmed(objs[Oid(p)], p) => Trimmed(objs[Oid(p)], p)'

LogKept == \A p \in Positions : LogEntry(p)' = LogEntry(p)

Trims ==
    \A p \in Positions :
        LogEntry(p)' = LogEntry(p) \/ (p \in asked /\ LogEntry(p)' = Junk)

\* A free position takes an entry.
Inserts(q, d) ==
    /\ LogEntry(q) = NoEntry /\ LogEntry(q)' = d
    /\ \A p \in Positions : p # q => LogEntry(p)' = LogEntry(p)

\* Objects that stay the same.
LEMMA SameObjects ==
    ASSUME objs' = objs PROVE LogKept /\ LimitsKept
BY DEF LogKept, LimitsKept, LogEntry, Trimmed

\* A call changes one object; the positions of the others are unaffected.
LEMMA OneObject ==
    ASSUME TypeOK, NEW o \in Oids, NEW y, objs' = [objs EXCEPT ![o] = y]
    PROVE  /\ objs'[o] = y
           /\ \A p \in Positions : Oid(p) # o =>
                /\ objs'[Oid(p)] = objs[Oid(p)]
                /\ LogEntry(p)' = LogEntry(p)
                /\ Trimmed(objs[Oid(p)], p) => Trimmed(objs[Oid(p)], p)'
<1>1. objs'[o] = y /\ \A p \in Positions : Oid(p) # o => objs'[Oid(p)] = objs[Oid(p)]
  BY OidType DEF TypeOK
<1> QED BY <1>1 DEF LogEntry, Trimmed

\* A call that changes neither the entries nor the limit of its object.
LEMMA SameEntries ==
    ASSUME TypeOK, NEW o \in Oids, NEW y, objs' = [objs EXCEPT ![o] = y],
           y.entries = objs[o].entries, y.trim_limit = objs[o].trim_limit
    PROVE  LogKept /\ LimitsKept
<1>1. objs'[o] = y
  BY OneObject
<1>2. ASSUME NEW p \in Positions, Oid(p) = o
      PROVE  /\ LogEntry(p)' = LogEntry(p)
             /\ Trimmed(objs[Oid(p)], p) => Trimmed(objs[Oid(p)], p)'
  BY <1>1, <1>2 DEF LogEntry, Trimmed
<1> QED BY <1>2, OneObject DEF LogKept, LimitsKept

\* A Seal does not touch the log.
LEMMA SealLog ==
    ASSUME TypeOK, NEW o \in Oids, NEW e \in 0 .. MaxEpoch + 1,
           objs' = [objs EXCEPT ![o] = Seal(objs[o], e).obj]
    PROVE  LogKept /\ LimitsKept
<1> DEFINE x == objs[o]
           y == Seal(x, e).obj
<1>1. x \in LogObject(0 .. MaxEpoch + 1)
  BY ObjectType
<1>2. y = x \/ y = [x EXCEPT !.epoch = e]
  BY DEF Seal, Result
<1>3. y.entries = x.entries /\ y.trim_limit = x.trim_limit
  <2> HIDE DEF x, y
  <2> QED BY <1>1, <1>2 DEF LogObject
<1> QED BY <1>3, SameEntries

\* An insertion at a position below no limit changes this position only.
LEMMA InsertLog ==
    ASSUME TypeOK, NEW q \in Positions, NEW d \in Entries,
           objs' = [objs EXCEPT ![Oid(q)] = Insert(objs[Oid(q)], q, d)],
           ~Trimmed(objs[Oid(q)], q)
    PROVE  /\ LogEntry(q) = objs[Oid(q)].entries[q]
           /\ LogEntry(q)' = d
           /\ \A p \in Positions : p # q => LogEntry(p)' = LogEntry(p)
           /\ LimitsKept
<1> DEFINE o == Oid(q)
           x == objs[o]
           y == Insert(x, q, d)
<1>1. o \in Oids /\ x \in LogObject(0 .. MaxEpoch + 1)
  BY OidType, ObjectType
<1>2. /\ y.trim_limit = x.trim_limit /\ y.entries[q] = d
      /\ \A p \in Positions : p # q => y.entries[p] = x.entries[p]
  <2> HIDE DEF x
  <2> QED BY <1>1, InsertFacts
<1>3. objs'[o] = y
  BY <1>1, OneObject
<1> HIDE DEF y
<1>4. LogEntry(q) = x.entries[q] /\ LogEntry(q)' = d
  BY <1>2, <1>3 DEF LogEntry, Trimmed
<1>5. ASSUME NEW p \in Positions, p # q
      PROVE  LogEntry(p)' = LogEntry(p)
  <2>1. CASE Oid(p) = o
    BY <1>2, <1>3, <1>5, <2>1 DEF LogEntry, Trimmed
  <2>2. CASE Oid(p) # o
    BY <1>1, <2>2, OneObject
  <2> QED BY <2>1, <2>2
<1>6. LimitsKept
  <2> SUFFICES ASSUME NEW p \in Positions, Trimmed(objs[Oid(p)], p)
               PROVE  Trimmed(objs[Oid(p)], p)'
    BY DEF LimitsKept
  <2>1. CASE Oid(p) = o
    BY <1>2, <1>3, <2>1 DEF Trimmed
  <2>2. CASE Oid(p) # o
    BY <1>1, <2>2, OneObject
  <2> QED BY <2>1, <2>2
<1> QED BY <1>4, <1>5, <1>6

\* The append's write puts its data at a free position, or does nothing.
LEMMA WriteIoLog ==
    ASSUME TypeInv, NEW t \in Threads, WriteIo(t)
    PROVE  /\ LimitsKept
           /\ \/ LogKept /\ th'[t].pc # "done"
              \/ /\ \E q \in Positions : Inserts(q, th[t].data)
                 /\ th'[t].pc = "done"
<1> DEFINE me == th[t]
           q == me.pos
           x == objs[Oid(q)]
           res == Write(x, me.view, q, me.data)
<1>1. /\ me.pc = "io" /\ me.op = "append"
      /\ objs' = [objs EXCEPT ![Oid(q)] = res.obj]
      /\ th' = [th EXCEPT ![t] =
                   IF res.ret = "EROFS"
                   THEN [me EXCEPT !.pc = "view", !.position_epoch = 0]
                   ELSE AfterIo(me, res.ret)]
  BY DEF WriteIo
<1>2. /\ q \in Positions /\ Oid(q) \in Oids /\ me.view \in Int
      /\ x \in LogObject(0 .. MaxEpoch + 1)
  BY <1>1, PosObject
<1>3. TypeOK /\ me \in Thread /\ th \in [Threads -> Thread] /\ me.data \in Entries
  BY ThreadFacts, MaxOpsAssumption DEF TypeInv, TypeOK, Entries
<1>4. /\ res.ret \in {"OK", "ENOENT", "ESPIPE", "EROFS"}
      /\ res.ret = "OK" => res.obj = Insert(x, q, me.data)
      /\ res.ret # "OK" => res.obj = x
  <2> HIDE DEF x, q, me
  <2> QED BY <1>2, <1>3, WriteFacts, EpochFacts
<1>5. th'[t] = IF res.ret = "EROFS"
               THEN [me EXCEPT !.pc = "view", !.position_epoch = 0]
               ELSE AfterIo(me, res.ret)
  BY <1>1, <1>3
<1>6. CASE res.ret = "OK"
  <2>1. x.entries[q] = NoEntry /\ ~Trimmed(x, q)
    BY <1>6, WriteFree
  <2>2. objs' = [objs EXCEPT ![Oid(q)] = Insert(x, q, me.data)]
    BY <1>1, <1>4, <1>6
  <2>3. LimitsKept /\ \E p \in Positions : Inserts(p, me.data)
    <3>1. PICK p \in Positions : p = q
      BY <1>2
    <3>2. /\ objs' = [objs EXCEPT ![Oid(p)] = Insert(objs[Oid(p)], p, me.data)]
          /\ objs[Oid(p)].entries[p] = NoEntry /\ ~Trimmed(objs[Oid(p)], p)
      BY <2>1, <2>2, <3>1
    <3> QED BY <1>3, <3>2, InsertLog DEF Inserts
  <2>4. th'[t] = [me EXCEPT !.pc = "done", !.ret = "OK"]
    BY <1>5, <1>6 DEF AfterIo
  <2>5. th'[t].pc = "done"
    BY <1>3, <2>4 DEF Thread
  <2> QED BY <2>3, <2>5
<1>7. CASE res.ret # "OK"
  <2>1. objs' = objs
    BY <1>1, <1>2, <1>3, <1>4, <1>7 DEF TypeOK
  <2>2. \/ th'[t] = [me EXCEPT !.pc = "view", !.position_epoch = 0]
        \/ th'[t] = [me EXCEPT !.pc = "wait", !.cur = me.view]
        \/ th'[t] = [me EXCEPT !.pc = "seal"]
    <3>1. res.ret \in {"ENOENT", "ESPIPE", "EROFS"}
      BY <1>4, <1>7
    <3> HIDE DEF res
    <3> QED BY <1>5, <3>1 DEF AfterIo
  <2>3. th'[t].pc # "done"
    BY <1>3, <2>2 DEF Thread
  <2> QED BY <2>1, <2>3, SameObjects
<1> QED BY <1>6, <1>7

\* A fill invalidates a free position, or does nothing.
LEMMA FillIoLog ==
    ASSUME TypeInv, NEW t \in Threads, FillIo(t)
    PROVE  LimitsKept /\ (LogKept \/ \E q \in Positions : Inserts(q, Junk))
<1> DEFINE me == th[t]
           q == me.pos
           x == objs[Oid(q)]
<1>1. /\ me.pc = "io"
      /\ objs' = [objs EXCEPT ![Oid(q)] = Fill(x, me.view, q).obj]
  BY DEF FillIo
<1>2. q \in Positions /\ Oid(q) \in Oids /\ TypeOK
  BY <1>1, PosObject DEF TypeInv
<1>3. CASE Fill(x, me.view, q).obj = x
  BY <1>1, <1>2, <1>3, SameEntries
<1>4. CASE /\ Fill(x, me.view, q).obj = Insert(x, q, Junk)
           /\ x.entries[q] = NoEntry /\ ~Trimmed(x, q)
  <2>1. PICK p \in Positions : p = q
    BY <1>2
  <2>2. /\ objs' = [objs EXCEPT ![Oid(p)] = Insert(objs[Oid(p)], p, Junk)]
        /\ objs[Oid(p)].entries[p] = NoEntry /\ ~Trimmed(objs[Oid(p)], p)
    BY <1>1, <1>4, <2>1
  <2> QED BY <1>2, <2>2, InsertLog, BackendTypes DEF Inserts
<1> QED BY <1>3, <1>4, FillFree

\* A trim of one position invalidates it.
LEMMA TrimIoLog ==
    ASSUME TypeInv, NEW t \in Threads, TrimIo(t), ThreadLog(th[t])
    PROVE  LimitsKept /\ Trims
<1> DEFINE me == th[t]
           q == me.pos
           x == objs[Oid(q)]
<1>1. /\ me.pc = "io" /\ me.op = "trim"
      /\ objs' = [objs EXCEPT ![Oid(q)] = Trim(x, me.view, q).obj]
  BY DEF TrimIo
<1>2. q \in Positions /\ Oid(q) \in Oids /\ TypeOK /\ q \in asked
  BY <1>1, PosObject DEF TypeInv, ThreadLog
<1>3. CASE Trim(x, me.view, q).obj = x
  BY <1>1, <1>2, <1>3, SameEntries DEF LogKept, Trims
<1>4. CASE Trim(x, me.view, q).obj = Insert(x, q, Junk) /\ ~Trimmed(x, q)
  <2>1. PICK p \in Positions : p = q
    BY <1>2
  <2>2. /\ objs' = [objs EXCEPT ![Oid(p)] = Insert(objs[Oid(p)], p, Junk)]
        /\ ~Trimmed(objs[Oid(p)], p) /\ p \in asked
    BY <1>1, <1>2, <1>4, <2>1
  <2> QED BY <1>2, <2>2, InsertLog, BackendTypes DEF Trims
<1> QED BY <1>3, <1>4 DEF Trim, Result

\* One call of trimTo invalidates positions users have asked to trim, and only
\* drops entries it has put below the limit.
LEMMA TrimToIoLog ==
    ASSUME TypeInv, NEW t \in Threads, TrimToIo(t), ThreadLog(th[t])
    PROVE  /\ LimitsKept /\ Trims
           /\ TrimLimit(objs[Target(th[t])], th[t].view, th[t].pos,
                        FullyTrimmed(th[t].stripe, th[t].idx, th[t].pos)).ret = "OK"
                => \A p \in Positions :
                     Oid(p) = Target(th[t]) /\ p <= th[t].pos =>
                         Trimmed(objs[Oid(p)], p)'
<1> DEFINE me == th[t]
           o == <<me.stripe, me.idx>>
           x == objs[o]
           E == 0 .. MaxEpoch + 1
           full == FullyTrimmed(me.stripe, me.idx, me.pos)
           res == TrimLimit(x, me.view, me.pos, full)
           y == res.obj
<1>1. me.pc = "trim" /\ MoreToTrim(me) /\ me.op = "trimTo" /\ TypeOK
  BY ThreadRuns DEF TrimToIo, ThreadValid
<1>2. o \in Oids /\ Target(me) = o /\ me.pos \in Positions /\ me.view \in Int
  BY <1>1, ThreadRuns, TrimTarget, ThreadFacts, EpochFacts DEF Target, ThreadValid
<1>3. objs' = [objs EXCEPT ![o] = y]
  BY <1>2 DEF TrimToIo
<1>4. x \in LogObject(E) /\ E \subseteq Int /\ full \in BOOLEAN
  BY <1>1, <1>2, ObjectType, EpochFacts DEF FullyTrimmed
<1>5. /\ res.ret # "OK" => y = x
      /\ res.ret = "OK" =>
           /\ y.trim_limit >= me.pos /\ y.trim_limit >= x.trim_limit
           /\ y.trim_limit \in {x.trim_limit, me.pos}
           /\ ~full => y.entries = x.entries
      /\ y.trim_limit \in Positions \cup {NoLimit}
  <2>1. \/ res.ret # "OK" /\ y = x
        \/ /\ res.ret = "OK"
           /\ y = [x EXCEPT !.trim_limit = Larger(x.trim_limit, me.pos),
                            !.entries = IF full THEN Absent.entries ELSE @]
    BY DEF TrimLimit, Result
  <2>2. /\ x.trim_limit \in Int /\ me.pos \in Int
        /\ x.trim_limit \in Positions \cup {NoLimit}
    <3> HIDE DEF x
    <3> QED BY <1>2, <1>4, LimitsInt DEF LogObject
  <2>3. /\ Larger(x.trim_limit, me.pos) \in {x.trim_limit, me.pos}
        /\ Larger(x.trim_limit, me.pos) >= me.pos
        /\ Larger(x.trim_limit, me.pos) >= x.trim_limit
    BY <2>2, LargerFacts
  <2>4. y.trim_limit \in Positions \cup {NoLimit}
    <3> HIDE DEF x, full, me, res
    <3> QED BY <1>2, <1>4, <2>1, <2>2, <2>3 DEF LogObject
  <2> HIDE DEF x, full, me, res
  <2> QED BY <1>4, <2>1, <2>3, <2>4 DEF LogObject
<1>6. \A p \in Positions : Oid(p) = o /\ full => p <= me.pos
  BY <1>2, FullyTrimmedCovers
<1>7. \A p \in Positions : p <= me.pos => p \in asked
  BY <1>1 DEF ThreadLog
<1>8. \A p \in Positions \cup {NoLimit} : p \in Int
  BY LimitsInt
<1>9. x.trim_limit \in Int /\ y.trim_limit \in Int /\ me.pos \in Int
  <2>1. x.trim_limit \in Positions \cup {NoLimit}
        /\ y.trim_limit \in Positions \cup {NoLimit}
    <3> HIDE DEF x, y, E
    <3> QED BY <1>4, <1>5 DEF LogObject
  <2> QED BY <1>2, <1>8, <2>1
<1>10. objs'[o] = y
  BY <1>1, <1>2, <1>3, OneObject
<1>11. CASE res.ret # "OK"
  <2>1. LogKept /\ LimitsKept
    BY <1>1, <1>2, <1>3, <1>5, <1>11, SameEntries
  <2> QED BY <1>2, <1>11, <2>1 DEF LogKept, Trims
<1>12. CASE res.ret = "OK"
  <2> HIDE DEF y, full, res
  <2>1. ASSUME NEW p \in Positions, Oid(p) = o
        PROVE  /\ Trimmed(objs[Oid(p)], p) => Trimmed(objs[Oid(p)], p)'
               /\ p <= me.pos => Trimmed(objs[Oid(p)], p)'
    BY <1>5, <1>8, <1>9, <1>10, <1>12, <2>1 DEF Trimmed
  <2>2. ASSUME NEW p \in Positions, Oid(p) = o
        PROVE  LogEntry(p)' = LogEntry(p) \/ (p \in asked /\ LogEntry(p)' = Junk)
    <3>1. CASE p <= me.pos
      BY <1>7, <2>1, <2>2, <3>1 DEF LogEntry
    <3>2. CASE ~(p <= me.pos)
      <4>1. y.entries = x.entries
        BY <1>5, <1>6, <1>12, <2>2, <3>2, <1>4
      <4>2. CASE Trimmed(objs[Oid(p)], p)
        BY <2>1, <2>2, <4>2 DEF LogEntry
      <4>3. CASE ~Trimmed(objs[Oid(p)], p)
        <5>1. ~Trimmed(objs[Oid(p)], p)'
          BY <1>5, <1>8, <1>9, <1>10, <1>12, <2>2, <3>2, <4>3 DEF Trimmed
        <5> QED BY <1>10, <2>2, <4>1, <4>3, <5>1 DEF LogEntry
      <4> QED BY <4>2, <4>3
    <3> QED BY <3>1, <3>2
  <2>3. LimitsKept
    BY <1>1, <1>2, <1>3, <2>1, OneObject DEF LimitsKept
  <2>4. Trims
    BY <1>1, <1>2, <1>3, <2>2, OneObject DEF Trims
  <2> QED BY <1>2, <2>1, <2>3, <2>4
<1> QED BY <1>11, <1>12

\* What a step of a thread leaves alone beside what it stores.
LEMMA OpStepHistory ==
    ASSUME NEW t \in Threads, OpStep(t)
    PROVE  /\ UNCHANGED <<status, cview, opener, nops, asked>>
           /\ trimmed_to' = trimmed_to \/ TrimToDone(t)
           /\ seq' = seq \/ AppendTail(t)
           /\ wrote' = wrote \/ WriteIo(t)
<1>1. CASE \/ SeqGetView(t) \/ AppendTail(t) \/ CheckTail(t)
           \/ PosGetView(t) \/ ReadIo(t)
  BY <1>1, Zenon DEF SeqGetView, AppendTail, CheckTail, PosGetView, ReadIo,
                     UnchangedByOp, history
<1>2. CASE \/ WriteIo(t) \/ FillIo(t) \/ TrimIo(t)
           \/ SealObject(t) \/ WaitDone(t)
  BY <1>2, Zenon DEF WriteIo, FillIo, TrimIo, SealObject, WaitDone,
                     UnchangedByOp, history
<1>3. CASE \/ TrimToGetView(t) \/ AdvanceRead(t) \/ AdvancePropose(t)
           \/ TrimToIo(t) \/ TrimToDone(t) \/ Callback(t)
  BY <1>3, Zenon DEF TrimToGetView, AdvanceRead, AdvancePropose, TrimToIo,
                     TrimToDone, Callback, UnchangedByOp, history
<1>4. CASE \/ ExpandRead(t) \/ ExpandPropose(t) \/ ExpandWaited(t)
           \/ ExpanderWake(t) \/ ExpanderMap(t) \/ ExpanderClear(t)
  BY <1>4, Zenon DEF ExpandRead, ExpandPropose, ExpandWaited, ExpanderWake,
                     ExpanderMap, ExpanderClear, UnchangedByOp, history
<1> QED BY <1>1, <1>2, <1>3, <1>4, Zenon DEF OpStep

\* Appending to a sequence keeps its elements.
LEMMA AppendKeeps ==
    ASSUME NEW S, NEW s \in Seq(S), NEW x
    PROVE  /\ Len(Append(s, x)) = Len(s) + 1
           /\ Append(s, x)[Len(s) + 1] = x
           /\ \A i \in 1 .. Len(s) : Append(s, x)[i] = s[i]
<1>1. s \in Seq(S \cup {x}) /\ x \in S \cup {x}
  OBVIOUS
<1> QED BY <1>1

\* Accepted views are never changed.
ViewsKept ==
    /\ Len(views) <= Len(views')
    /\ \A i \in 1 .. Len(views) : views'[i] = views[i]

\* Every proposal keeps them.
LEMMA ProposeKeepsViews ==
    ASSUME TypeOK, NEW e, NEW v, views' \in {views, ProposeView(views, e, v)}
    PROVE  ViewsKept
<1>1. views \in Seq(View) /\ Len(views) \in Nat
  BY DEF TypeOK
<1>2. views' = views \/ views' = Append(views, v)
  BY DEF ProposeView
<1> QED BY <1>1, <1>2, AppendKeeps DEF ViewsKept

\* So a step of a thread does.
LEMMA OpStepViews ==
    ASSUME TypeInv, NEW t \in Threads, OpStep(t) PROVE ViewsKept
<1>1. \E e, v : views' \in {views, ProposeView(views, e, v)}
  <2>1. CASE AdvancePropose(t)
    BY <2>1 DEF AdvancePropose
  <2>2. CASE ExpandPropose(t)
    BY <2>2 DEF ExpandPropose
  <2>3. CASE ~AdvancePropose(t) /\ ~ExpandPropose(t)
    <3>1. views' = views
      BY <2>3, OpStepFrame
          DEF WriteIo, FillIo, TrimIo, TrimToIo, SealObject
    <3> QED BY <3>1
  <2> QED BY <2>1, <2>2, <2>3
<1> QED BY <1>1, ProposeKeepsViews DEF TypeInv

\* The log after a step, position by position.
LogMoves(t) ==
    \A p \in Positions :
        /\ \/ LogEntry(p)' \in {LogEntry(p), Junk}
           \/ WriteIo(t) /\ th'[t].pc = "done" /\ LogEntry(p)' = th[t].data
        /\ LogEntry(p) # NoEntry => LogEntry(p)' # NoEntry
        /\ LogEntry(p) = Junk => LogEntry(p)' = Junk

\* What a step of a thread does to the log.
LEMMA OpStepLog ==
    ASSUME TypeInv, NEW t \in Threads, OpStep(t), ThreadLog(th[t])
    PROVE  /\ LimitsKept
           /\ \/ LogKept \/ Trims
              \/ \E q \in Positions : Inserts(q, Junk)
              \/ /\ WriteIo(t) /\ th'[t].pc = "done"
                 /\ \E q \in Positions : Inserts(q, th[t].data)
<1>1. CASE WriteIo(t)
  BY <1>1, WriteIoLog
<1>2. CASE FillIo(t)
  BY <1>2, FillIoLog
<1>3. CASE TrimIo(t)
  BY <1>3, TrimIoLog
<1>4. CASE TrimToIo(t)
  BY <1>4, TrimToIoLog
<1>5. CASE SealObject(t)
  <2> DEFINE o == Target(th[t])
             e == th[t].view
  <2>1. /\ th[t].pc = "seal" /\ o \in Oids /\ TypeOK /\ e \in 0 .. MaxEpoch + 1
        /\ objs' = [objs EXCEPT ![o] = Seal(objs[o], e).obj]
    BY <1>5, TargetType, ThreadFacts, EpochFacts DEF SealObject, TypeInv
  <2> HIDE DEF o, e
  <2> QED BY <2>1, SealLog
<1>6. CASE objs' = objs
  BY <1>6, SameObjects
<1> QED BY <1>1, <1>2, <1>3, <1>4, <1>5, <1>6, OpStepFrame
        DEF AdvancePropose, ExpandPropose

\* The same, position by position.
LEMMA OpStepMoves ==
    ASSUME TypeInv, NEW t \in Threads, OpStep(t), ThreadLog(th[t]),
           ThreadFence(th[t])
    PROVE  LogMoves(t)
<1>1. Junk # NoEntry
  BY BackendTypes
<1>2. WriteIo(t) => th[t].data # NoEntry
  BY DEF WriteIo, ThreadFence
<1>3. CASE LogKept \/ Trims \/ \E q \in Positions : Inserts(q, Junk)
  BY <1>1, <1>3 DEF LogKept, Trims, Inserts, LogMoves
<1>4. CASE /\ WriteIo(t) /\ th'[t].pc = "done"
           /\ \E q \in Positions : Inserts(q, th[t].data)
  BY <1>1, <1>2, <1>4 DEF Inserts, LogMoves
<1> QED BY <1>3, <1>4, OpStepLog

\* A read reports ENOENT only if it finds the position free.
LEMMA ReadIoLog ==
    ASSUME TypeInv, NEW t \in Threads, ReadIo(t),
           th'[t].pc = "done", th'[t].ret = "ENOENT"
    PROVE  LogEntry(th[t].pos) = NoEntry
<1> DEFINE me == th[t]
           ret == Read(objs[Oid(me.pos)], me.view, me.pos)
<1>1. me \in Thread /\ th \in [Threads -> Thread]
  BY DEF TypeInv, TypeOK
<1>2. th'[t] = IF ret = "ERANGE" THEN [me EXCEPT !.pc = "done", !.ret = "ENOENT"]
               ELSE AfterIo(me, ret)
  BY <1>1 DEF ReadIo
<1>3. ret = "ERANGE"
  <2> SUFFICES ASSUME ret # "ERANGE" PROVE FALSE
    OBVIOUS
  <2>1. th'[t] = AfterIo(me, ret)
    BY <1>2
  <2> HIDE DEF ret, me
  <2> QED BY <1>1, <2>1, AfterIoKeeps
<1> QED BY <1>3, ReadFree DEF LogEntry

-----------------------------------------------------------------------------
(* The walk of trimTo over the objects *)

\* It begins before the first object,
LEMMA TrimToBegins ==
    ASSUME TypeInv, NEW t \in Threads, TrimToGetView(t), th'[t].pc = "trim"
    PROVE  /\ Mapped(views[th'[t].view].inst, th'[t].pos)
           /\ \A p \in Positions : ~PastObject(th'[t], Oid(p))
<1> DEFINE me == th[t]
           e == cview[ClientOf(t)]
           next == IF me.pos >= views[e].min_valid THEN "advance"
                   ELSE IF Mapped(views[e].inst, me.pos) THEN "trim"
                   ELSE "expand"
           r == [me EXCEPT !.pc = next, !.view = e, !.stripe = 0, !.idx = 0,
                           !.retries = ExpandRetries]
<1>1. me \in Thread /\ th \in [Threads -> Thread]
  BY DEF TypeInv, TypeOK
<1>2. th'[t] = r
  BY <1>1 DEF TrimToGetView
<1>3. next = "trim" => Mapped(views[e].inst, me.pos)
  OBVIOUS
<1> HIDE DEF next
<1>4. /\ th'[t].pc = next /\ th'[t].view = e /\ th'[t].pos = me.pos
      /\ th'[t].stripe = 0 /\ th'[t].idx = 0
  BY <1>1, <1>2 DEF Thread
<1>5. ASSUME NEW p \in Positions PROVE ~PastObject(th'[t], Oid(p))
  <2>1. Oid(p)[1] \in Nat /\ Oid(p)[2] \in Nat
    BY OidType, LayoutAssumption DEF Oids, StripeIds, Indexes
  <2> QED BY <1>4, <2>1 DEF PastObject
<1> QED BY <1>3, <1>4, <1>5

\* goes on to the next one when the trim succeeded,
LEMMA TrimToGoesOn ==
    ASSUME TypeInv, NEW t \in Threads, TrimToIo(t), th'[t].pc = "trim"
    PROVE  /\ th'[t].view = th[t].view /\ th'[t].pos = th[t].pos
           /\ TrimLimit(objs[Target(th[t])], th[t].view, th[t].pos,
                        FullyTrimmed(th[t].stripe, th[t].idx, th[t].pos)).ret = "OK"
           /\ \A o \in Oids : PastObject(th'[t], o) =>
                PastObject(th[t], o) \/ o = Target(th[t])
<1> DEFINE me == th[t]
           res == TrimLimit(objs[Target(me)], me.view, me.pos,
                            FullyTrimmed(me.stripe, me.idx, me.pos))
           last == me.idx = Width - 1
           i == IF last THEN 0 ELSE me.idx + 1
           s == IF last THEN me.stripe + 1 ELSE me.stripe
           r == [me EXCEPT !.idx = i, !.stripe = s]
<1>1. /\ me \in Thread /\ th \in [Threads -> Thread] /\ me.pc = "trim"
      /\ me.op = "trimTo"
  BY ThreadRuns DEF TypeInv, TypeOK, TrimToIo, ThreadValid
<1>2. th'[t] = IF res.ret = "OK" THEN r ELSE AfterIo(me, res.ret)
  BY <1>1 DEF TrimToIo
<1>3. res.ret = "OK"
  <2> SUFFICES ASSUME res.ret # "OK" PROVE FALSE
    OBVIOUS
  <2>1. th'[t] = AfterIo(me, res.ret)
    BY <1>2
  <2> HIDE DEF res, me
  <2> QED BY <1>1, <2>1, AfterIoKeeps
<1>4. th'[t] = r
  BY <1>2, <1>3
<1>5. /\ th'[t].view = me.view /\ th'[t].pos = me.pos
      /\ th'[t].idx = i /\ th'[t].stripe = s
  <2> HIDE DEF i, s
  <2> QED BY <1>1, <1>4 DEF Thread
<1>6. me.stripe \in Nat /\ me.idx \in Nat /\ Width \in Nat /\ me.idx <= Width - 1
      /\ Target(me) = <<me.stripe, me.idx>>
  BY <1>1, LayoutAssumption DEF Thread, Indexes, Target
<1>7. ASSUME NEW o \in Oids, PastObject(th'[t], o)
      PROVE  PastObject(me, o) \/ o = Target(me)
  <2>1. /\ o[1] \in Nat /\ o[2] \in Nat /\ o[2] <= Width - 1
        /\ o = <<o[1], o[2]>>
    BY LayoutAssumption DEF Oids, StripeIds, Indexes
  <2>2. o[1] < s \/ (o[1] = s /\ o[2] < i)
    BY <1>5, <1>7 DEF PastObject
  <2>3. o[1] < me.stripe \/ (o[1] = me.stripe /\ o[2] < me.idx)
        \/ (o[1] = me.stripe /\ o[2] = me.idx)
    BY <1>6, <2>1, <2>2
  <2> QED BY <1>6, <2>1, <2>3 DEF PastObject
<1> QED BY <1>3, <1>5, <1>7

\* and ends past every object that holds a position of the range.
LEMMA TrimToEnds ==
    ASSUME TypeInv, NEW t \in Threads, th[t].pc = "trim", ~MoreToTrim(th[t]),
           ThreadLog(th[t])
    PROVE  \A p \in Positions : p <= th[t].pos => LogEntry(p) = Junk
<1> DEFINE me == th[t]
           n == views[me.view].inst
<1>1. /\ ThreadValid(t, me) /\ TypeOK /\ me.stripe \in 0 .. MaxStripes
      /\ me.idx \in Indexes
  BY ThreadRuns, ThreadFacts
<1>2. me.view \in 1 .. Len(views) /\ me.pos \in Positions
  BY <1>1 DEF ThreadValid, HoldsView
<1>3. n \in Nat /\ me.stripe \in Nat
  BY <1>1, <1>2, ViewFacts
<1>4. Mapped(n, me.pos)
  BY DEF ThreadLog
<1>5. me.stripe >= n \/ ~InTrimRange(me.stripe, me.idx, me.pos)
  BY <1>3 DEF MoreToTrim
<1>6. ASSUME NEW p \in Positions, p <= me.pos PROVE LogEntry(p) = Junk
  <2>1. PastObject(me, Oid(p))
    <3> HIDE DEF me, n
    <3> QED BY <1>1, <1>2, <1>3, <1>4, <1>5, <1>6, TrimRangeCovers DEF PastObject
  <2>2. Trimmed(objs[Oid(p)], p)
    BY <1>6, <2>1 DEF ThreadLog
  <2> QED BY <2>2 DEF LogEntry
<1> QED BY <1>6

-----------------------------------------------------------------------------
(* The invariant of the log's contents *)

\* A thread that does not move keeps its part: nothing it relies on is undone.
LEMMA RestingThread ==
    ASSUME TypeInv, NEW u \in Threads, ThreadLog(th[u]), th'[u] = th[u],
           ViewsKept, LimitsKept, asked \subseteq asked',
           nops \in Int, nops' \in Int, nops <= nops',
           \A p \in Positions :
               /\ LogEntry(p) # NoEntry => LogEntry(p)' # NoEntry
               /\ \/ LogEntry(p)' \in {LogEntry(p), Junk}
                  \/ th[u].op = "append" => LogEntry(p)' # th[u].data
    PROVE  ThreadLog(th[u])'
<1>1. PICK me \in Thread : me = th[u]
  BY DEF TypeInv, TypeOK
<1>2. ThreadLog(me) /\ ThreadValid(u, me) /\ th'[u] = me
  BY <1>1 DEF TypeInv, ThreadsValid
<1>3. me.data \in 0 .. MaxOps
  BY DEF Thread
<1>4. me.op = "append" => me.data <= nops'
  BY <1>2, <1>3, MaxOpsAssumption DEF ThreadLog
<1>5. me.op = "append" /\ me.pc # "done" =>
        \A p \in Positions : LogEntry(p)' # me.data
  <2>1. Junk # me.data
    BY <1>3 DEF Junk
  <2> QED BY <1>1, <1>2, <2>1 DEF ThreadLog
<1>6. me.op = "read" /\ me.seen # NoEntry =>
        IF me.pc = "done" THEN me.ret # "ENOENT"
        ELSE LogEntry(me.pos)' # NoEntry
  <2> SUFFICES ASSUME me.op = "read", me.seen # NoEntry, me.pc # "done"
               PROVE  LogEntry(me.pos)' # NoEntry
    BY <1>2 DEF ThreadLog
  <2>1. LogEntry(me.pos) # NoEntry
    BY <1>2 DEF ThreadLog
  <2>2. me.pos \in Positions
    BY <1>2 DEF ThreadValid
  <2> QED BY <2>1, <2>2
<1>7. /\ me.op = "trim" => me.pos \in asked'
      /\ me.op = "trimTo" => \A p \in Positions : p <= me.pos => p \in asked'
  BY <1>2 DEF ThreadLog
<1>8. me.pc = "trim" =>
        /\ Mapped(views'[me.view].inst, me.pos)
        /\ \A p \in Positions : p <= me.pos /\ PastObject(me, Oid(p)) =>
             Trimmed(objs[Oid(p)], p)'
  <2> SUFFICES ASSUME me.pc = "trim"
               PROVE  /\ Mapped(views'[me.view].inst, me.pos)
                      /\ \A p \in Positions : p <= me.pos /\ PastObject(me, Oid(p))
                           => Trimmed(objs[Oid(p)], p)'
    OBVIOUS
  <2>1. me.view \in 1 .. Len(views)
    BY <1>2 DEF ThreadValid, HoldsView
  <2> QED BY <1>2, <2>1 DEF ThreadLog, ViewsKept, LimitsKept
<1> QED BY <1>2, <1>4, <1>5, <1>6, <1>7, <1>8 DEF ThreadLog

\* The thread that moves keeps its part as well.
LEMMA MovingThread ==
    ASSUME TypeInv, NEW t \in Threads, OpStep(t), ThreadLog(th[t]),
           ThreadFence(th[t])
    PROVE  ThreadLog(th[t])'
<1>1. PICK me \in Thread : me = th[t]
  BY DEF TypeInv, TypeOK
<1>2. PICK r : r = th'[t]
  OBVIOUS
<1>3. ThreadLog(me) /\ ThreadValid(t, me) /\ me.data \in 0 .. MaxOps
  BY <1>1 DEF TypeInv, ThreadsValid, Thread
<1>4. UNCHANGED <<nops, asked>> /\ LogMoves(t) /\ LimitsKept /\ ViewsKept
  BY OpStepHistory, OpStepMoves, OpStepLog, OpStepViews
<1>5. CASE r.op = "none" /\ r.pc # "trim"
  BY <1>2, <1>5 DEF ThreadLog
<1>6. CASE KeepsOp(t, th[t], r)
  <2>1. /\ r.op = me.op /\ r.data = me.data /\ r.seen = me.seen /\ me.pc # "done"
        /\ me.op \in {"read", "trim", "trimTo"} => r.pos = me.pos
    BY <1>1, <1>6 DEF KeepsOp, SameOp, AppendTail, CheckTail
  <2>2. r.op = "append" => r.data <= nops'
    BY <1>3, <1>4, <2>1 DEF ThreadLog
  <2>3. ASSUME r.op = "append", r.pc # "done", NEW p \in Positions
        PROVE  LogEntry(p)' # r.data
    <3>1. LogEntry(p)' \in {LogEntry(p), Junk}
      BY <1>2, <1>4, <2>3 DEF LogMoves
    <3>2. LogEntry(p) # me.data
      BY <1>3, <2>1, <2>3 DEF ThreadLog
    <3>3. Junk # me.data
      BY <1>3 DEF Junk
    <3> QED BY <2>1, <3>1, <3>2, <3>3
  <2>4. ASSUME r.op = "read", r.seen # NoEntry
        PROVE  IF r.pc = "done" THEN r.ret # "ENOENT"
               ELSE LogEntry(r.pos)' # NoEntry
    <3>1. LogEntry(me.pos) # NoEntry /\ r.pos = me.pos /\ me.pos \in Positions
      BY <1>3, <2>1, <2>4 DEF ThreadLog, ThreadValid
    <3>2. CASE r.pc = "done"
      <4>1. ReadIo(t)
        BY <1>6, <2>4, <3>2 DEF KeepsOp
      <4> QED BY <1>1, <1>2, <3>1, <3>2, <4>1, ReadIoLog
    <3>3. CASE r.pc # "done"
      BY <1>4, <3>1, <3>3 DEF LogMoves
    <3> QED BY <3>2, <3>3
  <2>5. r.op = "trim" => r.pos \in asked'
    BY <1>3, <1>4, <2>1 DEF ThreadLog
  <2>6. r.op = "trimTo" => \A p \in Positions : p <= r.pos => p \in asked'
    BY <1>3, <1>4, <2>1 DEF ThreadLog
  <2>7. ASSUME r.pc = "trim"
        PROVE  /\ Mapped(views'[r.view].inst, r.pos)
               /\ \A p \in Positions : p <= r.pos /\ PastObject(r, Oid(p)) =>
                    Trimmed(objs[Oid(p)], p)'
    <3>1. CASE TrimToGetView(t)
      <4>1. views' = views
        BY <3>1 DEF TrimToGetView
      <4> QED BY <1>2, <2>7, <3>1, <4>1, TrimToBegins
    <3>2. CASE TrimToIo(t)
      <4>1. views' = views /\ me.pc = "trim"
        BY <1>1, <3>2 DEF TrimToIo
      <4>2. /\ r.view = me.view /\ r.pos = me.pos
            /\ \A o \in Oids : PastObject(r, o) => PastObject(me, o) \/ o = Target(me)
            /\ \A p \in Positions : Oid(p) = Target(me) /\ p <= me.pos =>
                 Trimmed(objs[Oid(p)], p)'
        BY <1>1, <1>2, <2>7, <3>2, TrimToGoesOn, TrimToIoLog
      <4>3. Mapped(views[me.view].inst, me.pos)
            /\ \A p \in Positions : p <= me.pos /\ PastObject(me, Oid(p)) =>
                 Trimmed(objs[Oid(p)], p)
        BY <1>3, <4>1 DEF ThreadLog
      <4> QED BY <1>4, <4>1, <4>2, <4>3, OidType DEF LimitsKept
    <3> QED BY <1>6, <2>7, <3>1, <3>2 DEF KeepsOp
  <2> QED BY <1>2, <2>2, <2>3, <2>4, <2>5, <2>6, <2>7 DEF ThreadLog
<1> QED BY <1>2, <1>5, <1>6, OpStepKeeps

\* Steps of threads keep the invariant.
LEMMA OpStepLogInv ==
    ASSUME TypeInv, TypeInv', ThreadsFence, LogInv, NEW t \in Threads, OpStep(t)
    PROVE  LogInv'
<1>1. /\ ThreadsLog /\ DataDistinct /\ LogBound /\ TrimToComplete
      /\ TypeOK /\ ThreadLog(th[t]) /\ ThreadFence(th[t])
  BY DEF LogInv, TypeInv, ThreadsLog, ThreadsFence
<1>2. /\ UNCHANGED <<nops, asked>> /\ LogMoves(t) /\ LimitsKept /\ ViewsKept
      /\ \A u \in Threads : u # t => th'[u] = th[u]
  BY <1>1, OpStepHistory, OpStepMoves, OpStepLog, OpStepViews, OpStepFrame
<1>3. nops \in Nat
  BY <1>1, MaxOpsAssumption DEF TypeOK
<1>4. WriteIo(t) => th[t].op = "append"
  BY DEF WriteIo
<1>5. ThreadsLog'
  <2> SUFFICES ASSUME NEW u \in Threads PROVE ThreadLog(th[u])'
    BY DEF ThreadsLog
  <2>1. CASE u = t
    BY <1>1, <2>1, MovingThread
  <2>2. CASE u # t
    <3>1. ThreadLog(th[u]) /\ th'[u] = th[u]
      BY <1>1, <1>2, <2>2 DEF ThreadsLog
    <3>2. WriteIo(t) /\ th[u].op = "append" => th[t].data # th[u].data
      BY <1>1, <1>4, <2>2 DEF DataDistinct
    <3> QED BY <1>2, <1>3, <3>1, <3>2, RestingThread DEF LogMoves
  <2> QED BY <2>1, <2>2
<1>6. DataDistinct'
  <2>1. \A u \in Threads : th'[u].op = "append" =>
          th[u].op = "append" /\ th'[u].data = th[u].data
    <3> SUFFICES ASSUME NEW u \in Threads, th'[u].op = "append"
                 PROVE  th[u].op = "append" /\ th'[u].data = th[u].data
      OBVIOUS
    <3>1. CASE u = t
      BY <3>1, OpStepKeeps DEF KeepsOp, SameOp
    <3>2. CASE u # t
      BY <1>2, <3>2
    <3> QED BY <3>1, <3>2
  <2> QED BY <1>1, <2>1 DEF DataDistinct
<1>7. LogBound'
  <2> SUFFICES ASSUME NEW p \in Positions PROVE LogEntry(p)' <= nops
    BY <1>2 DEF LogBound
  <2>1. LogEntry(p) <= nops /\ Junk <= nops
    BY <1>1, <1>3 DEF LogBound, Junk
  <2>2. WriteIo(t) => th[t].data <= nops
    BY <1>1, <1>4 DEF ThreadLog
  <2> QED BY <1>2, <2>1, <2>2 DEF LogMoves
<1>8. TrimToComplete'
  <2>1. \A p \in Positions : LogEntry(p) = Junk => LogEntry(p)' = Junk
    BY <1>2 DEF LogMoves
  <2>2. CASE trimmed_to' = trimmed_to
    BY <1>1, <2>1, <2>2 DEF TrimToComplete
  <2>3. CASE TrimToDone(t)
    <3>1. /\ th[t].pc = "trim" /\ ~MoreToTrim(th[t])
          /\ trimmed_to' = Larger(trimmed_to, th[t].pos)
      BY <2>3 DEF TrimToDone
    <3>2. \A p \in Positions : p <= th[t].pos => LogEntry(p) = Junk
      BY <1>1, <3>1, TrimToEnds
    <3>3. trimmed_to' \in {trimmed_to, th[t].pos}
      BY <3>1 DEF Larger
    <3> QED BY <1>1, <2>1, <3>2, <3>3 DEF TrimToComplete
  <2> QED BY <2>2, <2>3, OpStepHistory
<1> QED BY <1>5, <1>6, <1>7, <1>8 DEF LogInv

\* Opening, refreshing, initializing stripes and crashing do not touch the log;
\* a client's threads go on or are gone.
LEMMA ClientStepLog ==
    ASSUME TypeInv, NEW c \in Clients, ClientStep(c) \/ Crash(c)
    PROVE  /\ LogKept /\ LimitsKept /\ ViewsKept
           /\ \A t \in Threads : th'[t] \in {th[t], Idle}
           /\ UNCHANGED <<nops, wrote, asked, trimmed_to>>
<1>1. TypeOK /\ th \in [Threads -> Thread]
  BY DEF TypeInv, TypeOK
<1>2. CASE RefreshView(c) \/ Open(c) \/ InitTake(c) \/ OpenDone(c)
  <2>1. UNCHANGED <<views, objs, th, nops, wrote, asked, trimmed_to>>
    BY <1>2, Zenon DEF RefreshView, Open, InitTake, OpenDone, history
  <2>2. ViewsKept
    BY <1>1, <2>1, ProposeKeepsViews
  <2> QED BY <2>1, <2>2, SameObjects
<1>3. CASE ProposeBegin(c) \/ ProposeMaxPos(c) \/ ProposeRetry(c)
  <2>1. UNCHANGED <<views, objs, th, nops, wrote, asked, trimmed_to>>
    BY <1>3, Zenon DEF ProposeBegin, ProposeMaxPos, ProposeRetry,
                       UnchangedByOpener, history
  <2>2. ViewsKept
    BY <1>1, <2>1, ProposeKeepsViews
  <2> QED BY <2>1, <2>2, SameObjects
<1>4. CASE OpenFail(c) \/ Crash(c)
  <2>1. \E why : Gone(c, why)
    BY <1>4 DEF OpenFail, Crash
  <2>2. /\ UNCHANGED <<views, objs, nops, wrote, asked, trimmed_to>>
        /\ \A t \in Threads : th'[t] \in {th[t], Idle}
    BY <2>1 DEF Gone, history
  <2>3. ViewsKept
    BY <1>1, <2>2, ProposeKeepsViews
  <2> QED BY <2>2, <2>3, SameObjects
<1>5. CASE ProposeSeal(c)
  <2> DEFINE me == opener[c]
             o == <<me.stripe, me.idx>>
             e == me.cur + 1
  <2>1. /\ me.pc = "seal" /\ UNCHANGED <<views, th, nops, wrote, asked, trimmed_to>>
        /\ objs' = [objs EXCEPT ![o] = Seal(objs[o], e).obj]
    BY <1>5 DEF ProposeSeal, UnchangedByOpener, history
  <2>2. o \in Oids /\ e \in 0 .. MaxEpoch + 1
    BY <2>1, OpenerFacts, EpochFacts DEF Opener
  <2> HIDE DEF o, e
  <2>3. LogKept /\ LimitsKept /\ ViewsKept
    BY <1>1, <2>1, <2>2, SealLog, ProposeKeepsViews
  <2> QED BY <2>1, <2>3
<1>6. CASE InitSeal(c)
  <2> DEFINE j == init_job[c]
             o == <<j.stripe, j.idx>>
             e == j.epoch
  <2>1. /\ UNCHANGED <<views, th, nops, wrote, asked, trimmed_to>>
        /\ objs' = [objs EXCEPT ![o] = Seal(objs[o], e).obj]
    BY <1>6 DEF InitSeal, history
  <2>2. o \in Oids /\ e \in 0 .. MaxEpoch + 1
    <3>1. j \in Job
      BY <1>1 DEF TypeOK
    <3> QED BY <3>1, EpochFacts DEF Job, Oids
  <2> HIDE DEF o, e
  <2>3. LogKept /\ LimitsKept /\ ViewsKept
    BY <1>1, <2>1, <2>2, SealLog, ProposeKeepsViews
  <2> QED BY <2>1, <2>3
<1>7. CASE ProposeSequencer(c)
  <2>1. /\ \E e, v : views' = ProposeView(views, e, v)
        /\ UNCHANGED <<objs, th, nops, wrote, asked, trimmed_to>>
    BY <1>7 DEF ProposeSequencer, UnchangedByOpener, history
  <2>2. ViewsKept
    BY <1>1, <2>1, ProposeKeepsViews
  <2> QED BY <2>1, <2>2, SameObjects
<1> QED BY <1>2, <1>3, <1>4, <1>5, <1>6, <1>7 DEF ClientStep

\* They keep the invariant.
LEMMA ClientStepLogInv ==
    ASSUME TypeInv, LogInv, NEW c \in Clients, ClientStep(c) \/ Crash(c)
    PROVE  LogInv'
<1>1. /\ LogKept /\ LimitsKept /\ ViewsKept
      /\ \A t \in Threads : th'[t] \in {th[t], Idle}
      /\ UNCHANGED <<nops, wrote, asked, trimmed_to>>
  BY ClientStepLog
<1>2. nops \in Int
  BY MaxOpsAssumption DEF TypeInv, TypeOK
<1>3. ThreadsLog'
  <2> SUFFICES ASSUME NEW t \in Threads PROVE ThreadLog(th[t])'
    BY DEF ThreadsLog
  <2>1. CASE th'[t] = th[t]
    <3>1. ThreadLog(th[t])
      BY DEF LogInv, ThreadsLog
    <3> QED BY <1>1, <1>2, <2>1, <3>1, RestingThread DEF LogKept
  <2>2. CASE th'[t] = Idle
    BY <2>2, IdleOp DEF ThreadLog
  <2> QED BY <1>1, <2>1, <2>2
<1>4. DataDistinct'
  BY <1>1, IdleOp DEF LogInv, DataDistinct
<1>5. LogBound' /\ TrimToComplete'
  BY <1>1 DEF LogInv, LogBound, TrimToComplete, LogKept
<1> QED BY <1>3, <1>4, <1>5 DEF LogInv

\* A new operation: its number is its data, larger than all before.
LEMMA StartOpLog ==
    ASSUME TypeInv, NEW t \in Threads, NEW op, NEW p \in Positions,
           StartOp(t, op, p)
    PROVE  /\ th'[t].pc = "view" /\ th'[t].op = op /\ th'[t].pos = p
           /\ th'[t].data = nops + 1 /\ th'[t].floor = LogTail
           /\ th'[t].seen = LogEntry(p) /\ th'[t].position_epoch = 0
           /\ \A u \in Threads : u # t => th'[u] = th[u]
           /\ nops' = nops + 1 /\ nops < MaxOps /\ nops \in Nat
           /\ asked \subseteq asked'
           /\ op = "trim" => p \in asked'
           /\ op = "trimTo" => \A q \in Positions : q <= p => q \in asked'
           /\ LogKept /\ LimitsKept /\ ViewsKept
           /\ UNCHANGED <<views, objs, status, cview, seq, opener, wrote, trimmed_to>>
<1>1. th \in [Threads -> Thread] /\ nops \in Nat /\ TypeOK
  BY MaxOpsAssumption DEF TypeInv, TypeOK
<1>2. /\ th'[t] = [Idle EXCEPT
                !.pc = "view", !.op = op, !.pos = p, !.data = nops + 1,
                !.floor = LogTail, !.seen = LogEntry(p)]
      /\ \A u \in Threads : u # t => th'[u] = th[u]
  BY <1>1 DEF StartOp
<1>3. /\ th'[t].pc = "view" /\ th'[t].op = op /\ th'[t].pos = p
      /\ th'[t].data = nops + 1 /\ th'[t].floor = LogTail
      /\ th'[t].seen = LogEntry(p) /\ th'[t].position_epoch = 0
  BY <1>2 DEF Idle
<1>4. /\ nops' = nops + 1 /\ nops < MaxOps
      /\ UNCHANGED <<views, objs, status, cview, seq, opener, wrote, trimmed_to>>
  BY DEF StartOp
<1>5. asked' = CASE op = "trim" -> asked \cup {p}
                 [] op = "trimTo" -> asked \cup 0 .. p
                 [] OTHER -> asked
  BY DEF StartOp
<1>6. /\ asked \subseteq asked'
      /\ op = "trim" => p \in asked'
      /\ op = "trimTo" => 0 .. p \subseteq asked'
  BY <1>5
<1>7. \A q \in Positions : q <= p => q \in 0 .. p
  BY PositionsNat
<1>8. LogKept /\ LimitsKept /\ ViewsKept
  BY <1>1, <1>4, SameObjects, ProposeKeepsViews
<1> QED BY <1>1, <1>2, <1>3, <1>4, <1>6, <1>7, <1>8

\* It keeps the invariant.
LEMMA StartOpLogInv ==
    ASSUME TypeInv, LogInv, NEW t \in Threads, NEW op, NEW p \in Positions,
           StartOp(t, op, p)
    PROVE  LogInv'
<1>1. /\ th'[t].pc = "view" /\ th'[t].op = op /\ th'[t].pos = p
      /\ th'[t].data = nops + 1 /\ th'[t].seen = LogEntry(p)
      /\ \A u \in Threads : u # t => th'[u] = th[u]
      /\ nops' = nops + 1 /\ nops \in Nat
      /\ asked \subseteq asked'
      /\ op = "trim" => p \in asked'
      /\ op = "trimTo" => \A q \in Positions : q <= p => q \in asked'
      /\ LogKept /\ LimitsKept /\ ViewsKept /\ trimmed_to' = trimmed_to
  BY StartOpLog
<1>2. PICK r : r = th'[t]
  OBVIOUS
<1>3. ThreadsLog'
  <2> SUFFICES ASSUME NEW u \in Threads PROVE ThreadLog(th[u])'
    BY DEF ThreadsLog
  <2>1. CASE u # t
    <3>1. ThreadLog(th[u])
      BY DEF LogInv, ThreadsLog
    <3> QED BY <1>1, <2>1, <3>1, RestingThread DEF LogKept
  <2>2. CASE u = t
    <3>1. \A q \in Positions : LogEntry(q)' # nops + 1
      <4>1. \A q \in Positions : LogEntry(q) \in Int /\ LogEntry(q) <= nops
        BY LogEntryType, BackendTypes DEF TypeInv, LogInv, LogBound, Entries
      <4> QED BY <1>1, <4>1 DEF LogKept
    <3>2. LogEntry(p)' = LogEntry(p)
      BY <1>1 DEF LogKept
    <3>3. /\ r.pc = "view" /\ r.op = op /\ r.pos = p /\ r.data = nops + 1
          /\ r.seen = LogEntry(p)
      BY <1>1, <1>2
    <3>4. r.data <= nops'
      BY <1>1, <3>3
    <3>5. LogEntry(r.pos)' = r.seen
      BY <3>2, <3>3
    <3> QED BY <1>1, <1>2, <2>2, <3>1, <3>3, <3>4, <3>5 DEF ThreadLog
  <2> QED BY <2>1, <2>2
<1>4. DataDistinct'
  <2>1. \A u \in Threads : th[u].op = "append" =>
          th[u].data \in Int /\ th[u].data <= nops
    BY ThreadFacts DEF TypeInv, TypeOK, Thread, LogInv, ThreadsLog, ThreadLog
  <2>2. \A u \in Threads : u # t /\ th[u].op = "append" => th[u].data # nops + 1
    BY <1>1, <2>1
  <2> QED BY <1>1, <2>2 DEF LogInv, DataDistinct
<1>5. LogBound'
  <2>1. \A q \in Positions : LogEntry(q) \in Int /\ LogEntry(q) <= nops
    BY LogEntryType, BackendTypes DEF TypeInv, LogInv, LogBound, Entries
  <2> QED BY <1>1, <2>1 DEF LogKept, LogBound
<1>6. TrimToComplete'
  BY <1>1 DEF LogInv, TrimToComplete, LogKept
<1> QED BY <1>3, <1>4, <1>5, <1>6 DEF LogInv

\* A step that changes nothing.
LEMMA StutterLogInv == ASSUME LogInv, UNCHANGED vars PROVE LogInv'
<1>1. UNCHANGED <<views, objs, th, nops, asked, trimmed_to>>
  BY DEF vars
<1> USE <1>1
<1>2. ThreadsLog'
  BY DEF LogInv, ThreadsLog, ThreadLog, LogEntry, Trimmed
<1>3. DataDistinct' /\ LogBound' /\ TrimToComplete'
  BY DEF LogInv, DataDistinct, LogBound, TrimToComplete, LogEntry, Trimmed
<1> QED BY <1>2, <1>3 DEF LogInv

\* What users do, without the arguments of the operation.
LEMMA UserStepStarts ==
    ASSUME UserStep
    PROVE  \E t \in Threads, op \in OpKinds, p \in Positions :
             t \in Finishers /\ StartOp(t, op, p)
<1>1. PICK t \in Finishers, op \in OpKinds :
        IF op \in {"append", "tail"} THEN StartOp(t, op, 0)
        ELSE \E p \in OpPositions : StartOp(t, op, p)
  BY DEF UserStep
<1>2. t \in Threads
  BY DEF Threads
<1>3. 0 \in Positions /\ OpPositions \subseteq Positions
  BY ZLogAssumption, PositionsNat
<1> QED BY <1>1, <1>2, <1>3

\* LogInv is inductive relative to IndInv,
LEMMA LogNext == IndInv /\ LogInv /\ [Next]_vars => LogInv'
<1> SUFFICES ASSUME IndInv, LogInv, [Next]_vars PROVE LogInv'
  OBVIOUS
<1>1. TypeInv /\ TypeInv' /\ ThreadsFence
  BY TypeNext DEF IndInv, FenceInv
<1>2. ASSUME NEW c \in Clients, ClientStep(c) \/ Crash(c) PROVE LogInv'
  BY <1>1, <1>2, ClientStepLogInv
<1>3. ASSUME NEW t \in Threads, OpStep(t) PROVE LogInv'
  BY <1>1, <1>3, OpStepLogInv
<1>4. CASE UserStep
  BY <1>1, <1>4, UserStepStarts, StartOpLogInv
<1>5. CASE UNCHANGED vars
  BY <1>5, StutterLogInv
<1> QED BY <1>2, <1>3, <1>4, <1>5 DEF Next

\* holds initially: the log is empty,
LEMMA LogInit == Init => LogInv /\ \A p \in Positions : LogEntry(p) = NoEntry
<1> SUFFICES ASSUME Init
             PROVE  LogInv /\ \A p \in Positions : LogEntry(p) = NoEntry
  OBVIOUS
<1>1. ASSUME NEW p \in Positions PROVE LogEntry(p) = NoEntry
  <2>1. objs[Oid(p)] = Absent
    BY OidType DEF Init
  <2>2. p \in Nat
    BY PositionsNat
  <2> QED BY <2>1, <2>2 DEF LogEntry, Trimmed, Absent, NoLimit
<1>2. ThreadsLog
  BY IdleOp DEF Init, ThreadsLog, ThreadLog
<1>3. DataDistinct
  BY IdleOp DEF Init, DataDistinct
<1>4. LogBound
  BY <1>1 DEF Init, LogBound, NoEntry
<1>5. TrimToComplete
  BY PositionsNat DEF Init, TrimToComplete, NoPos
<1> QED BY <1>1, <1>2, <1>3, <1>4, <1>5 DEF LogInv

\* and so always.
LEMMA LogInvAlways == Spec => [](IndInv /\ LogInv)
<1>1. Init => IndInv /\ LogInv
  BY TypeInit, FenceInit, LogInit DEF IndInv
<1> QED BY <1>1, FenceNext, LogNext, PTL DEF Spec

\* After trimTo(p) returned, all positions up to p stay invalid, whatever is
\* added, sealed or written while it walks over the objects, for any number of
\* stripes and objects (TrimToOp::run).
THEOREM TrimToSafe == Spec => []TrimToComplete
<1>1. IndInv /\ LogInv => TrimToComplete
  BY DEF LogInv
<1> QED BY <1>1, LogInvAlways, PTL

\* No read that began after a position was consumed reports it as not written
\* (ReadOp::run), whatever views and objects it met.
THEOREM ReadsSafe == Spec => []ReadsSeeConsumed
<1>1. IndInv /\ LogInv => ReadsSeeConsumed
  <2> SUFFICES ASSUME LogInv, NEW t \in Finishers, th[t].pc = "done",
                      th[t].op = "read", th[t].ret = "ENOENT"
               PROVE  th[t].seen = NoEntry
    BY DEF ReadsSeeConsumed
  <2>1. t \in Threads
    BY DEF Threads
  <2> QED BY <2>1 DEF LogInv, ThreadsLog, ThreadLog
<1> QED BY <1>1, LogInvAlways, PTL

-----------------------------------------------------------------------------
(* Refinement of SharedLog *)

\* The log as SharedLog sees it.
Log == [p \in Positions |-> LogEntry(p)]

\* A step that keeps the log, as seen by users.
LEMMA KeptLog == ASSUME LogKept PROVE Log' = Log
BY DEF LogKept, Log

\* An insertion is a step of SharedLog's function.
LEMMA InsertedLog ==
    ASSUME NEW q \in Positions, NEW d, Inserts(q, d)
    PROVE  Log[q] = NoEntry /\ Log' = [Log EXCEPT ![q] = d]
BY DEF Inserts, Log

\* A step of a thread is a step of the shared log, or none of its business.
LEMMA OpStepRefines ==
    ASSUME TypeInv, TypeInv', ThreadsFence, LogInv, NEW t \in Threads, OpStep(t)
    PROVE  [Abstract!Next]_<<Log, asked>>
<1>1. ThreadLog(th[t]) /\ ThreadFence(th[t]) /\ asked' = asked
  BY OpStepHistory DEF LogInv, ThreadsLog, ThreadsFence
<1>2. CASE LogKept
  BY <1>1, <1>2, KeptLog
<1>3. CASE Trims
  <2>1. \A p \in Positions : LogEntry(p)' \in -1 .. MaxOps
    <3>1. \A p \in Positions : LogEntry(p) \in Entries
      BY LogEntryType DEF TypeInv
    <3> QED BY <1>3, <3>1, MaxOpsAssumption DEF Trims, Entries, Junk
  <2>2. /\ Log' \in [Positions -> -1 .. MaxOps]
        /\ \A p \in Positions : Log'[p] = Log[p] \/ (p \in asked /\ Log'[p] = -1)
    BY <1>3, <2>1 DEF Log, Trims, Junk
  <2> QED BY <1>1, <2>2 DEF Abstract!Next, Abstract!Trim, Abstract!Invalid, Log
<1>4. ASSUME NEW q \in Positions, Inserts(q, Junk)
      PROVE  [Abstract!Next]_<<Log, asked>>
  <2>1. Log[q] = 0 /\ Log' = [Log EXCEPT ![q] = -1]
    BY <1>4, InsertedLog DEF Junk, NoEntry
  <2> QED BY <1>1, <2>1
          DEF Abstract!Next, Abstract!Fill, Abstract!Invalid,
              Abstract!NotWritten, Log
<1>5. ASSUME NEW q \in Positions, WriteIo(t), Inserts(q, th[t].data)
      PROVE  [Abstract!Next]_<<Log, asked>>
  <2>1. PICK d : d = th[t].data
    OBVIOUS
  <2>2. /\ th[t].op = "append" /\ th[t].pc = "io"
    BY <1>5 DEF WriteIo
  <2>3. d \in 1 .. MaxOps
    <3>1. d \in 0 .. MaxOps /\ d # 0
      BY <1>1, <2>1, <2>2, ThreadFacts
         DEF TypeInv, TypeOK, Thread, ThreadFence, NoEntry
    <3> QED BY <3>1, MaxOpsAssumption
  <2>4. Log[q] = 0 /\ Log' = [Log EXCEPT ![q] = d]
    BY <1>5, <2>1, InsertedLog DEF NoEntry
  <2>5. \A p \in Positions : Log[p] # d
    BY <1>1, <2>1, <2>2 DEF ThreadLog, Log
  <2> QED BY <1>1, <2>3, <2>4, <2>5
          DEF Abstract!Next, Abstract!Append, Abstract!NotWritten, Log
<1> QED BY <1>1, <1>2, <1>3, <1>4, <1>5, OpStepLog

\* So is every other step.
LEMMA RefineNext ==
    IndInv /\ LogInv /\ [Next]_vars => [Abstract!Next]_<<Log, asked>>
<1> SUFFICES ASSUME IndInv, LogInv, [Next]_vars
             PROVE  [Abstract!Next]_<<Log, asked>>
  OBVIOUS
<1>1. TypeInv /\ TypeInv' /\ ThreadsFence
  BY TypeNext DEF IndInv, FenceInv
<1>2. ASSUME NEW c \in Clients, ClientStep(c) \/ Crash(c)
      PROVE  [Abstract!Next]_<<Log, asked>>
  BY <1>1, <1>2, ClientStepLog, KeptLog
<1>3. ASSUME NEW t \in Threads, OpStep(t)
      PROVE  [Abstract!Next]_<<Log, asked>>
  BY <1>1, <1>3, OpStepRefines
<1>4. CASE UserStep
  <2>1. LogKept /\ asked \subseteq asked'
    BY <1>1, <1>4, UserStepStarts, StartOpLog
  <2>2. asked' \in SUBSET Positions
    BY <1>1 DEF TypeInv, TypeOK
  <2> QED BY <2>1, <2>2, KeptLog DEF Abstract!Next, Abstract!AskTrim, Log
<1>5. CASE UNCHANGED vars
  <2>1. objs' = objs /\ asked' = asked
    BY <1>5 DEF vars, history
  <2> QED BY <2>1, SameObjects, KeptLog
<1> QED BY <1>2, <1>3, <1>4, <1>5 DEF Next

\* For any number of clients, finisher threads, stripes and operations, what
\* users see of the objects is a write-once log: no interleaving of appends,
\* their retries, fills, trims, takeovers and crashes changes, loses or
\* duplicates an append, or brings a trimmed position back.
THEOREM LogImplements == Spec => ImplementsSharedLog
<1>1. Init => Abstract!Init
  <2> SUFFICES ASSUME Init PROVE Abstract!Init
    OBVIOUS
  <2>1. \A p \in Positions : LogEntry(p) = 0
    BY LogInit DEF NoEntry
  <2>2. asked = {}
    BY DEF Init
  <2> QED BY <2>1, <2>2 DEF Abstract!Init, Abstract!NotWritten
<1>2. IndInv /\ LogInv /\ [Next]_vars
        => [Abstract!Next]_<<[p \in Positions |-> LogEntry(p)], asked>>
  BY RefineNext DEF Log
<1> QED BY <1>1, <1>2, LogInvAlways, PTL DEF Spec, ImplementsSharedLog, Abstract!Spec


-----------------------------------------------------------------------------
(* How the history of views grows *)

\* A new view has the sequencer of the one before, or one of a client that was
\* never a sequencer.
Grows(v) ==
    /\ views' = Append(views, v)
    /\ \/ v.seq = views[Len(views)].seq
       \/ /\ v.seq.epoch = Len(views) + 1
          /\ \A i \in 1 .. Len(views) : views[i].seq.token # v.seq.token

\* Threads only propose views with the sequencer of the latest one.
LEMMA OpStepGrows ==
    ASSUME TypeInv, NEW t \in Threads, OpStep(t)
    PROVE  \/ views' = views
           \/ \E v : views' = Append(views, v) /\ v.seq = views[Len(views)].seq
<1> DEFINE me == th[t]
           old == views[me.cur]
<1>1. CASE AdvancePropose(t) \/ ExpandPropose(t)
  <2>1. /\ me.pc \in {"apropose", "propose"}
        /\ \/ views' = ProposeView(views, me.cur + 1,
                         [old EXCEPT !.min_valid = me.pos + 1])
           \/ views' = ProposeView(views, me.cur + 1,
                         [old EXCEPT !.inst = ExpandMapping(@, me.pos)])
    BY <1>1 DEF AdvancePropose, ExpandPropose
  <2>2. TypeOK /\ me.cur \in 1 .. Len(views)
    BY <2>1, ThreadRuns DEF ThreadValid, HoldsCur
  <2>3. old \in View /\ me.cur \in Int /\ Len(views) \in Int
    BY <2>2, ViewFacts, EpochFacts DEF TypeOK
  <2>4. PICK v : views' = ProposeView(views, me.cur + 1, v) /\ v.seq = old.seq
    <3> HIDE DEF old
    <3>1. \A x : [old EXCEPT !.min_valid = x].seq = old.seq
      BY <2>3 DEF View
    <3>2. \A x : [old EXCEPT !.inst = x].seq = old.seq
      BY <2>3 DEF View
    <3> QED BY <2>1, <3>1, <3>2
  <2>5. \/ views' = views
        \/ views' = Append(views, v) /\ me.cur + 1 = Len(views) + 1
    BY <2>4 DEF ProposeView, ProposeRet
  <2>6. me.cur + 1 = Len(views) + 1 => me.cur = Len(views)
    BY <2>3
  <2> QED BY <2>4, <2>5, <2>6
<1>2. CASE ~AdvancePropose(t) /\ ~ExpandPropose(t)
  BY <1>2, OpStepFrame DEF WriteIo, FillIo, TrimIo, TrimToIo, SealObject
<1> QED BY <1>1, <1>2

\* A client proposes itself; when the proposal is accepted its opener knows.
LEMMA ProposeSequencerGrows ==
    ASSUME TypeInv, NEW c \in Clients, ProposeSequencer(c)
    PROVE  /\ opener'[c].pc = "wait"
           /\ \A d \in Clients : d # c => opener'[d] = opener[d]
           /\ \/ views' = views
              \/ \E v : /\ views' = Append(views, v)
                        /\ v.seq = [epoch |-> Len(views) + 1, token |-> c,
                                    position |-> opener[c].seed]
                        /\ opener'[c].ret = "OK"
<1> DEFINE me == opener[c]
           old == views[me.cur]
           config == [epoch |-> me.cur + 1, token |-> c, position |-> me.seed]
           v == [old EXCEPT !.seq = config]
<1>1. /\ me.pc = "propose"
      /\ views' = ProposeView(views, me.cur + 1, v)
      /\ opener' = [opener EXCEPT ![c] = [@ EXCEPT
                       !.pc = "wait", !.ret = ProposeRet(views, me.cur + 1)]]
  BY DEF ProposeSequencer, WithSequencer
<1>2. TypeOK /\ me \in Opener /\ me.cur \in 1 .. Len(views)
  BY <1>1, OpenerFacts
<1>3. old \in View /\ me.cur \in Int /\ Len(views) \in Int
  BY <1>2, ViewFacts, EpochFacts DEF TypeOK
<1>4. /\ opener'[c].pc = "wait"
      /\ opener'[c].ret = ProposeRet(views, me.cur + 1)
      /\ \A d \in Clients : d # c => opener'[d] = opener[d]
  BY <1>1, <1>2 DEF TypeOK, Opener
<1>5. v.seq = config
  <2> HIDE DEF old, config
  <2> QED BY <1>3 DEF View
<1>6. \/ views' = views
      \/ /\ views' = Append(views, v) /\ me.cur + 1 = Len(views) + 1
         /\ ProposeRet(views, me.cur + 1) = "OK"
  BY <1>1 DEF ProposeView, ProposeRet
<1> HIDE DEF v
<1> QED BY <1>4, <1>5, <1>6

\* Growing keeps what is known of the configs of views.
LEMMA GrowsConfigs ==
    ASSUME TypeOK, ViewsInv, ConfigsOwn, TokenOnce, NEW v, Grows(v)
    PROVE  ConfigsOwn' /\ TokenOnce'
<1> DEFINE n == Len(views)
<1>1. /\ n \in Nat /\ n >= 1 /\ Len(views') = n + 1 /\ views'[n + 1] = v
      /\ \A i \in 1 .. n : views'[i] = views[i]
  BY AppendKeeps DEF TypeOK, Grows
<1>2. \A i \in 1 .. n : views[i].seq.epoch \in Nat /\ views[i].seq.epoch <= n
  BY <1>1, ViewFacts, EpochFacts DEF ViewsInv
<1> HIDE DEF n
<1>3. n \in 1 .. n
  BY <1>1
<1>4. CASE v.seq = views[n].seq
  <2>1. ConfigsOwn'
    <3> SUFFICES ASSUME NEW i \in 1 .. n + 1
                 PROVE  IF views'[i].seq.epoch = 0 THEN views'[i].seq = NoSeqConfig
                        ELSE views'[views'[i].seq.epoch].seq = views'[i].seq
      BY <1>1 DEF ConfigsOwn
    <3>1. PICK j \in 1 .. n : views'[i].seq = views[j].seq
      BY <1>1, <1>3, <1>4
    <3>2. IF views[j].seq.epoch = 0 THEN views[j].seq = NoSeqConfig
          ELSE views[views[j].seq.epoch].seq = views[j].seq
      BY DEF ConfigsOwn, n
    <3>3. views[j].seq.epoch # 0 => views[j].seq.epoch \in 1 .. n
      BY <1>1, <1>2
    <3> QED BY <1>1, <3>1, <3>2, <3>3
  <2>2. TokenOnce'
    <3> SUFFICES ASSUME NEW i \in 1 .. n + 1, NEW j \in 1 .. n + 1,
                        views'[i].seq.token = views'[j].seq.token
                 PROVE  views'[i].seq.epoch = views'[j].seq.epoch
      BY <1>1 DEF TokenOnce
    <3>1. PICK i1 \in 1 .. n, j1 \in 1 .. n :
            views'[i].seq = views[i1].seq /\ views'[j].seq = views[j1].seq
      BY <1>1, <1>3, <1>4
    <3> QED BY <3>1 DEF TokenOnce, n
  <2> QED BY <2>1, <2>2
<1>5. CASE /\ v.seq.epoch = n + 1
           /\ \A i \in 1 .. n : views[i].seq.token # v.seq.token
  <2>1. ConfigsOwn'
    <3> SUFFICES ASSUME NEW i \in 1 .. n + 1
                 PROVE  IF views'[i].seq.epoch = 0 THEN views'[i].seq = NoSeqConfig
                        ELSE views'[views'[i].seq.epoch].seq = views'[i].seq
      BY <1>1 DEF ConfigsOwn
    <3>1. CASE i = n + 1
      BY <1>1, <1>5, <3>1
    <3>2. CASE i \in 1 .. n
      <4>1. IF views[i].seq.epoch = 0 THEN views[i].seq = NoSeqConfig
            ELSE views[views[i].seq.epoch].seq = views[i].seq
        BY <3>2 DEF ConfigsOwn, n
      <4>2. views[i].seq.epoch # 0 => views[i].seq.epoch \in 1 .. n
        BY <1>1, <1>2, <3>2
      <4> QED BY <1>1, <3>2, <4>1, <4>2
    <3> QED BY <1>1, <3>1, <3>2
  <2>2. TokenOnce'
    <3> SUFFICES ASSUME NEW i \in 1 .. n + 1, NEW j \in 1 .. n + 1,
                        views'[i].seq.token = views'[j].seq.token
                 PROVE  views'[i].seq.epoch = views'[j].seq.epoch
      BY <1>1 DEF TokenOnce
    <3>1. CASE i \in 1 .. n /\ j \in 1 .. n
      BY <1>1, <3>1 DEF TokenOnce, n
    <3>2. CASE i = n + 1 \/ j = n + 1
      BY <1>1, <1>5, <3>2
    <3> QED BY <1>1, <3>1, <3>2
  <2> QED BY <2>1, <2>2
<1> QED BY <1>4, <1>5 DEF Grows, n

\* The config of a view that names a client is that of the view that installed
\* it, and so is that of any view between them.
LEMMA ConfigFacts ==
    ASSUME TypeOK, ViewsInv, ConfigsOwn, NEW c \in Clients,
           NEW i \in 1 .. Len(views), views[i].seq.token = c
    PROVE  LET k == views[i].seq.epoch IN
           /\ k \in 1 .. i /\ k \in 1 .. Len(views)
           /\ views[k].seq = views[i].seq
<1> DEFINE k == views[i].seq.epoch
<1>1. k # 0
  <2>1. NoSeqConfig.token # c
    BY ZLogAssumption DEF NoSeqConfig
  <2> QED BY <2>1 DEF ConfigsOwn
<1>2. k \in Nat /\ k <= i /\ Len(views) \in Nat /\ i \in Nat
  BY ViewFacts, EpochFacts DEF ViewsInv, TypeOK
<1>3. views[k].seq = views[i].seq
  BY <1>1 DEF ConfigsOwn
<1> QED BY <1>1, <1>2, <1>3

-----------------------------------------------------------------------------
(* What becomes of a client *)

Live == {"opening", "open"}
Dead == {"failed", "crashed"}

\* refresh_view gives a client that has a Sequencer no other one: a client is
\* made the sequencer once, so all views that name it share its config.
LEMMA RefreshKeeps ==
    ASSUME TypeInv, ViewsInv, SeqInv, NEW c \in Clients, status[c] \in Live,
           seq[c].epoch # 0
    PROVE  RefreshedSeq(c, cview[c], Len(views)) = seq[c]
<1> DEFINE n == Len(views)
           old == cview[c]
           e == seq[c].epoch
<1>1. TypeOK /\ ConfigsOwn /\ TokenOnce /\ SequencerValid(c)
  BY DEF TypeInv, SeqInv, SequencersValid
<1>2. old \in 1 .. n /\ n \in 1 .. n /\ n \in Nat
  BY <1>1, CachedView, LatestView DEF TypeOK, Live
<1>3. e \in 1 .. old /\ views[e].seq.token = c
  BY <1>1 DEF SequencerValid
<1>4. e \in 1 .. n /\ e <= old /\ old <= n
  BY <1>2, <1>3
<1> HIDE DEF n, old, e
<1>5. ASSUME views[n].seq.token = c
      PROVE  SameSequencer(c, old, n)
  <2>1. views[e].seq.epoch = views[n].seq.epoch
    BY <1>1, <1>2, <1>3, <1>4, <1>5 DEF TokenOnce, n
  <2>2. views[old].seq.epoch = views[n].seq.epoch
    <3>1. /\ views[e].seq.epoch <= views[old].seq.epoch
          /\ views[old].seq.epoch <= views[n].seq.epoch
      BY <1>1, <1>2, <1>4, ViewOrder DEF n
    <3>2. views[old].seq.epoch \in Int /\ views[n].seq.epoch \in Int
      BY <1>1, <1>2, ViewFacts, EpochFacts DEF n
    <3> QED BY <2>1, <3>1, <3>2
  <2>3. views[n].seq.epoch # 0
    BY <1>1, <1>2, <1>5, ConfigFacts DEF n
  <2>4. views[old].seq = views[n].seq
    BY <1>1, <1>2, <2>2, <2>3 DEF ConfigsOwn, n
  <2> QED BY <1>2, <1>5, <2>4 DEF SameSequencer
<1>6. RefreshedSeq(c, old, n) = seq[c]
  BY <1>5 DEF RefreshedSeq
<1> QED BY <1>6 DEF n, old

\* The steps of a client, and what they do to it.
Refreshes(c) ==
    /\ status[c] \in Live /\ status'[c] = status[c] /\ cview'[c] = Len(views)
    /\ views' = views
    /\ \/ /\ seq'[c] = seq[c]
          /\ views[Len(views)].seq.token = c => seq[c].epoch # 0
       \/ /\ seq[c].epoch = 0 /\ views[Len(views)].seq.token = c
          /\ seq'[c].epoch = Len(views)
          /\ seq'[c].pos = views[Len(views)].seq.position

Opens(c) ==
    /\ status[c] = "closed" /\ status'[c] = "opening"
    /\ cview'[c] = Len(views) /\ seq'[c] = seq[c] /\ views' = views

Dies(c) ==
    /\ status[c] \in Live /\ status'[c] \in Dead
    /\ seq'[c] = NoSequencer /\ views' = views
    /\ \A t \in Threads : ClientOf(t) = c => th'[t] = Idle

Stays(c) ==
    /\ cview'[c] = cview[c] /\ seq'[c] = seq[c]
    /\ status'[c] = status[c] \/ (status[c] \in Live /\ status'[c] \in Live)

\* Every step of a client is of one of these kinds.
LEMMA ClientStepKinds ==
    ASSUME TypeInv, ViewsInv, SeqInv, NEW c \in Clients, ClientStep(c) \/ Crash(c)
    PROVE  /\ Refreshes(c) \/ Opens(c) \/ Dies(c) \/ Stays(c)
           /\ MayPropose(c)' => MayPropose(c)
           /\ \A d \in Clients : d # c =>
                /\ status'[d] = status[d] /\ cview'[d] = cview[d]
                /\ seq'[d] = seq[d] /\ opener'[d] = opener[d]
           /\ views' = views \/ ProposeSequencer(c)
<1>1. TypeOK /\ ClientValid(c) /\ opener[c] \in Opener /\ SequencerValid(c)
  BY DEF TypeInv, ClientsValid, TypeOK, SeqInv, SequencersValid
<1>2. /\ status \in [Clients -> {"closed", "opening", "open", "failed", "crashed"}]
      /\ cview \in [Clients -> Epochs] /\ seq \in [Clients -> Sequencer]
      /\ opener \in [Clients -> Opener]
  BY <1>1 DEF TypeOK
<1>3. CASE RefreshView(c)
  <2>1. /\ cview'[c] = Len(views) /\ status[c] \in Live
        /\ seq'[c] = RefreshedSeq(c, cview[c], Len(views))
        /\ UNCHANGED <<views, status, opener>>
        /\ \A d \in Clients : d # c => cview'[d] = cview[d] /\ seq'[d] = seq[d]
    BY <1>2, <1>3 DEF RefreshView, Live
  <2>2. seq[c].epoch # 0 => seq'[c] = seq[c]
    BY <2>1, RefreshKeeps
  <2>3. SameSequencer(c, cview[c], Len(views)) => seq[c].epoch # 0
    BY <1>1, <2>1 DEF SameSequencer, SequencerValid, Live
  <2>4. \/ seq'[c] = seq[c] /\ (views[Len(views)].seq.token = c => seq[c].epoch # 0)
        \/ /\ views[Len(views)].seq.token = c
           /\ seq'[c] = [epoch |-> Len(views), pos |-> views[Len(views)].seq.position]
    BY <2>1, <2>3 DEF RefreshedSeq
  <2>5. Refreshes(c)
    BY <2>1, <2>2, <2>4 DEF Refreshes
  <2>6. MayPropose(c)' => MayPropose(c)
    BY <2>1 DEF MayPropose
  <2> QED BY <2>1, <2>5, <2>6
<1>4. CASE Open(c)
  <2>1. /\ status[c] = "closed" /\ status'[c] = "opening"
        /\ cview'[c] = Len(views) /\ views' = views
        /\ seq'[c] = RefreshedSeq(c, 0, Len(views))
        /\ \A d \in Clients : d # c =>
             /\ status'[d] = status[d] /\ cview'[d] = cview[d]
             /\ seq'[d] = seq[d] /\ opener'[d] = opener[d]
    BY <1>2, <1>4 DEF Open
  <2>2. MayPropose(c)
    BY <2>1 DEF MayPropose
  <2>3. views[Len(views)].seq.token # c
    BY <1>1, <2>2, LatestView DEF SeqInv, ProposersNew
  <2>4. seq'[c] = seq[c]
    BY <2>1, <2>3 DEF RefreshedSeq
  <2> QED BY <2>1, <2>2, <2>4 DEF Opens
<1>5. CASE OpenFail(c) \/ Crash(c)
  <2>1. PICK why \in Dead : Gone(c, why) /\ status[c] \in Live
    BY <1>1, <1>5 DEF OpenFail, Crash, Dead, Live, ClientValid
  <2>2. /\ status'[c] = why /\ seq'[c] = NoSequencer /\ views' = views
        /\ opener'[c] = NoOpener
        /\ \A d \in Clients : d # c =>
             /\ status'[d] = status[d] /\ cview'[d] = cview[d]
             /\ seq'[d] = seq[d] /\ opener'[d] = opener[d]
        /\ \A t \in Threads : ClientOf(t) = c => th'[t] = Idle
    BY <1>2, <2>1 DEF Gone
  <2>3. ~MayPropose(c)'
    BY <2>2 DEF MayPropose, NoOpener, Dead
  <2> QED BY <2>1, <2>2, <2>3 DEF Dies
<1>6. CASE OpenDone(c)
  <2>1. /\ status[c] \in Live /\ status'[c] = "open" /\ UNCHANGED <<views, cview, seq>>
        /\ opener'[c] = NoOpener
        /\ \A d \in Clients : d # c =>
             status'[d] = status[d] /\ opener'[d] = opener[d]
    BY <1>1, <1>2, <1>6 DEF OpenDone, Live, ClientValid
  <2>2. ~MayPropose(c)'
    BY <2>1 DEF MayPropose, NoOpener
  <2> QED BY <2>1, <2>2 DEF Stays, Live
<1>7. CASE ProposeBegin(c) \/ ProposeSeal(c) \/ ProposeMaxPos(c)
  <2>1. /\ UNCHANGED <<views, status, cview, seq>>
        /\ opener[c].pc \in {"begin", "seal", "maxpos"}
        /\ \A d \in Clients : d # c => opener'[d] = opener[d]
    BY <1>2, <1>7 DEF ProposeBegin, ProposeSeal, ProposeMaxPos, UnchangedByOpener
  <2> QED BY <2>1 DEF Stays, MayPropose
<1>8. CASE ProposeSequencer(c)
  <2>1. /\ UNCHANGED <<status, cview, seq>>
        /\ opener[c].pc = "propose"
        /\ \A d \in Clients : d # c => opener'[d] = opener[d]
    BY <1>2, <1>8 DEF ProposeSequencer, UnchangedByOpener
  <2> QED BY <1>8, <2>1 DEF Stays, MayPropose
<1>9. CASE ProposeRetry(c)
  <2>1. /\ UNCHANGED <<views, status, cview, seq>>
        /\ opener[c].pc = "wait" /\ opener[c].ret = "ESPIPE"
        /\ \A d \in Clients : d # c => opener'[d] = opener[d]
    BY <1>2, <1>9 DEF ProposeRetry, UnchangedByOpener
  <2> QED BY <2>1 DEF Stays, MayPropose
<1>10. CASE InitTake(c) \/ InitSeal(c)
  <2>1. UNCHANGED <<views, status, cview, seq, opener>>
    BY <1>10, Zenon DEF InitTake, InitSeal
  <2> QED BY <2>1 DEF Stays, MayPropose
<1> QED BY <1>3, <1>4, <1>5, <1>6, <1>7, <1>8, <1>9, <1>10 DEF ClientStep

\* The sequencer of a client after any step.
SeqMoves(c) ==
    \/ seq[c].epoch = 0
    \/ seq'[c].epoch = seq[c].epoch /\ seq'[c].pos >= seq[c].pos
    \/ Dies(c)

\* A sequencer's position is a number.
LEMMA SeqFacts ==
    ASSUME TypeOK, NEW c \in Clients
    PROVE  seq[c].pos \in Nat /\ seq[c].epoch \in Nat
<1>1. seq[c] \in Sequencer
  BY DEF TypeOK
<1>2. seq[c].pos \in PosOrEnd /\ seq[c].epoch \in Epochs
  BY <1>1 DEF Sequencer
<1>3. seq[c].pos \in Nat
  BY <1>2, PosOrEndFacts
<1>4. seq[c].epoch \in Nat
  BY <1>2, EpochFacts
<1> QED BY <1>3, <1>4

\* So it is after a step.
LEMMA SeqFactsNext ==
    ASSUME TypeInv', NEW c \in Clients PROVE seq'[c].pos \in Nat
<1>1. seq'[c] \in Sequencer
  BY DEF TypeInv, TypeOK
<1>2. seq'[c].pos \in PosOrEnd
  BY <1>1 DEF Sequencer
<1> QED BY <1>2, PosOrEndFacts

\* A step of a client keeps all sequencers but those of clients that die.
LEMMA ClientStepSeq ==
    ASSUME TypeInv, ViewsInv, SeqInv, NEW c \in Clients, ClientStep(c) \/ Crash(c),
           NEW d \in Clients
    PROVE  SeqMoves(d)
<1>1. seq[d].pos \in Nat
  BY SeqFacts DEF TypeInv
<1>2. CASE d = c
  <2>1. Refreshes(c) \/ Opens(c) \/ Dies(c) \/ Stays(c)
    BY ClientStepKinds
  <2>2. seq'[c] = seq[c] \/ seq[c].epoch = 0 \/ Dies(c)
    BY <2>1, Zenon DEF Refreshes, Opens, Stays
  <2> QED BY <1>1, <1>2, <2>2 DEF SeqMoves
<1>3. CASE d # c
  BY <1>1, <1>3, ClientStepKinds DEF SeqMoves
<1> QED BY <1>2, <1>3

\* An append advances its client's sequencer, other steps of threads keep it.
LEMMA OpStepSeq ==
    ASSUME TypeInv, NEW t \in Threads, OpStep(t), NEW d \in Clients
    PROVE  /\ seq'[d].epoch = seq[d].epoch /\ seq'[d].pos >= seq[d].pos
           /\ seq'[d] = seq[d] \/ (AppendTail(t) /\ d = ClientOf(t))
<1>1. seq \in [Clients -> Sequencer] /\ seq[d] \in Sequencer /\ seq[d].pos \in Nat
  BY SeqFacts DEF TypeInv, TypeOK
<1>2. CASE seq' = seq
  BY <1>1, <1>2
<1>3. CASE AppendTail(t)
  <2>1. seq' = [seq EXCEPT ![ClientOf(t)].pos = seq[ClientOf(t)].pos + 1]
    BY <1>3 DEF AppendTail
  <2> QED BY <1>1, <1>3, <2>1 DEF Sequencer
<1> QED BY <1>2, <1>3, OpStepHistory

\* A sequencer stays valid while its client stays where it is.
LEMMA SequencerRests ==
    ASSUME TypeInv, ViewsKept, NEW c \in Clients, SequencerValid(c), Stays(c)
    PROVE  SequencerValid(c)'
<1>1. /\ cview[c] \in Nat /\ cview[c] <= Len(views) /\ Len(views) \in Nat
      /\ status[c] \in Live => cview[c] \in 1 .. Len(views)
      /\ seq[c].epoch \in Nat
  BY EpochFacts, SeqFacts, CachedView
     DEF TypeInv, TypeOK, ClientsValid, ClientValid, Live
<1>2. seq[c].epoch # 0 => views'[seq[c].epoch] = views[seq[c].epoch]
  BY <1>1 DEF ViewsKept, SequencerValid
<1>3. status[c] \in Live => views'[cview[c]] = views[cview[c]]
  BY <1>1 DEF ViewsKept
<1>4. seq'[c] = seq[c] /\ cview'[c] = cview[c]
      /\ (status'[c] \in Live => status[c] \in Live)
  BY DEF Stays, Live
<1> QED BY <1>2, <1>3, <1>4 DEF SequencerValid, Live

\* An append that found a sequencer still has it, unless its client is gone.
LEMMA ThreadSeqRests ==
    ASSUME TypeInv, ViewsKept, NEW u \in Threads, ThreadSeq(u, th[u]),
           SeqMoves(ClientOf(u)), th'[u] \in {th[u], Idle}
    PROVE  ThreadSeq(u, th[u])'
<1>1. CASE th'[u] = Idle
  BY <1>1, IdleOp DEF ThreadSeq
<1>2. CASE th'[u] = th[u] /\ th'[u] # Idle
  <2>1. PICK me : me = th[u]
    OBVIOUS
  <2>2. PICK c \in Clients : c = ClientOf(u)
    BY ClientOfType
  <2>3. ThreadSeq(u, me) /\ ThreadValid(u, me)
    BY <2>1 DEF TypeInv, ThreadsValid
  <2> SUFFICES ASSUME me.op = "append", me.pc \in {"tail", "io", "seal"}
               PROVE  views'[me.view].seq.token = c /\ seq'[c].epoch # 0
    BY <1>2, <2>1, <2>2 DEF ThreadSeq, ClientOf
  <2>4. me.view \in 1 .. Len(views)
    BY <2>3 DEF ThreadValid, HoldsView
  <2>5. views[me.view].seq.token = c /\ seq[c].epoch # 0
    BY <2>2, <2>3 DEF ThreadSeq
  <2>6. ~Dies(c)
    BY <1>2, <2>2 DEF Dies
  <2>7. seq'[c].epoch = seq[c].epoch
    BY <2>2, <2>5, <2>6 DEF SeqMoves
  <2> QED BY <2>4, <2>5, <2>7 DEF ViewsKept
<1> QED BY <1>1, <1>2

\* Steps of clients keep the invariant.
LEMMA ClientStepSeqInv ==
    ASSUME TypeInv, ViewsInv, SeqInv, NEW c \in Clients, ClientStep(c) \/ Crash(c)
    PROVE  SeqInv'
<1>1. /\ TypeOK /\ ConfigsOwn /\ TokenOnce /\ ProposersNew /\ SequencersValid
      /\ ThreadsSeq
  BY DEF TypeInv, SeqInv
<1>2. /\ Refreshes(c) \/ Opens(c) \/ Dies(c) \/ Stays(c)
      /\ MayPropose(c)' => MayPropose(c)
      /\ \A d \in Clients : d # c =>
           /\ status'[d] = status[d] /\ cview'[d] = cview[d]
           /\ seq'[d] = seq[d] /\ opener'[d] = opener[d]
      /\ views' = views \/ ProposeSequencer(c)
  BY ClientStepKinds
<1>3. ViewsKept /\ \A t \in Threads : th'[t] \in {th[t], Idle}
  BY ClientStepLog
<1>4. \A d \in Clients : MayPropose(d)' => MayPropose(d)
  BY <1>2 DEF MayPropose
<1>5. ConfigsOwn' /\ TokenOnce' /\ ProposersNew'
  <2>1. CASE views' = views
    BY <1>1, <1>4, <2>1 DEF ConfigsOwn, TokenOnce, ProposersNew
  <2>2. CASE views' # views /\ ProposeSequencer(c)
    <3>1. PICK v : /\ views' = Append(views, v)
                   /\ v.seq = [epoch |-> Len(views) + 1, token |-> c,
                               position |-> opener[c].seed]
                   /\ opener'[c].pc = "wait" /\ opener'[c].ret = "OK"
      BY <2>2, ProposeSequencerGrows
    <3>2. opener[c].pc = "propose"
      BY <2>2 DEF ProposeSequencer
    <3>3. Grows(v)
      BY <1>1, <3>1, <3>2 DEF Grows, ProposersNew, MayPropose
    <3>4. ~MayPropose(c)'
      <4>1. status'[c] = status[c] /\ status[c] = "opening"
        BY <2>2, <3>2, OpenerFacts DEF ProposeSequencer, UnchangedByOpener
      <4> QED BY <3>1, <4>1 DEF MayPropose
    <3>5. ProposersNew'
      <4> SUFFICES ASSUME NEW d \in Clients, MayPropose(d)', NEW i \in 1 .. Len(views')
                   PROVE  views'[i].seq.token # d
        BY DEF ProposersNew
      <4>1. d # c /\ MayPropose(d)
        BY <1>4, <3>4
      <4>2. Len(views) \in Nat /\ Len(views') = Len(views) + 1
            /\ views'[Len(views) + 1] = v /\ \A k \in 1 .. Len(views) : views'[k] = views[k]
        BY <1>1, <3>1, AppendKeeps DEF TypeOK
      <4>3. CASE i = Len(views) + 1
        BY <3>1, <4>1, <4>2, <4>3
      <4>4. CASE i \in 1 .. Len(views)
        BY <1>1, <4>1, <4>2, <4>4 DEF ProposersNew
      <4> QED BY <4>2, <4>3, <4>4
    <3> QED BY <1>1, <3>3, <3>5, GrowsConfigs
  <2> QED BY <1>2, <2>1, <2>2
<1>6. SequencersValid'
  <2> SUFFICES ASSUME NEW d \in Clients PROVE SequencerValid(d)'
    BY DEF SequencersValid
  <2>1. SequencerValid(d)
    BY <1>1 DEF SequencersValid
  <2>2. CASE Stays(d)
    BY <1>3, <2>1, <2>2, SequencerRests
  <2>3. CASE d # c
    <3>1. Stays(d)
      BY <1>2, <2>3 DEF Stays
    <3> QED BY <1>3, <2>1, <3>1, SequencerRests
  <2>4. /\ cview[d] \in Nat /\ cview[d] <= Len(views) /\ Len(views) \in Nat
        /\ Len(views) \in 1 .. Len(views)
        /\ views[Len(views)].seq.position \in Nat
    <3>1. /\ cview[d] \in Epochs /\ cview[d] <= Len(views) /\ Len(views) \in Nat
      BY <1>1 DEF TypeInv, TypeOK, ClientsValid, ClientValid
    <3>2. Len(views) \in 1 .. Len(views)
      BY <1>1, LatestView
    <3>3. views[Len(views)].seq.position \in PosOrEnd
      BY <1>1, <3>2, ViewFacts
    <3>4. views[Len(views)].seq.position \in Nat
      BY <3>3, PosOrEndFacts
    <3>5. cview[d] \in Nat
      BY <3>1, EpochFacts
    <3> QED BY <3>1, <3>2, <3>4, <3>5
  <2>5. CASE Refreshes(d)
    <3>1. CASE seq'[d] = seq[d] /\ (views[Len(views)].seq.token = d => seq[d].epoch # 0)
      BY <2>1, <2>4, <2>5, <3>1 DEF SequencerValid, Refreshes, Live
    <3>2. CASE /\ seq'[d].epoch = Len(views)
               /\ seq'[d].pos = views[Len(views)].seq.position
               /\ views[Len(views)].seq.token = d
      BY <2>4, <2>5, <3>2 DEF SequencerValid, Refreshes, Live
    <3> QED BY <2>5, <3>1, <3>2 DEF Refreshes
  <2>6. CASE Opens(d)
    <3>1. views[Len(views)].seq.token # d
      BY <1>1, <2>4, <2>6 DEF Opens, ProposersNew, MayPropose
    <3> QED BY <2>1, <2>4, <2>6, <3>1 DEF SequencerValid, Opens
  <2>7. CASE Dies(d)
    BY <2>7 DEF SequencerValid, Dies, NoSequencer, Dead
  <2> QED BY <1>2, <2>2, <2>3, <2>5, <2>6, <2>7
<1>7. ThreadsSeq'
  <2> SUFFICES ASSUME NEW u \in Threads PROVE ThreadSeq(u, th[u])'
    BY DEF ThreadsSeq
  <2>1. SeqMoves(ClientOf(u)) /\ ThreadSeq(u, th[u])
    BY <1>1, ClientOfType, ClientStepSeq DEF ThreadsSeq
  <2> QED BY <1>3, <2>1, ThreadSeqRests
<1> QED BY <1>5, <1>6, <1>7 DEF SeqInv

\* Steps of threads keep the invariant.
LEMMA OpStepSeqInv ==
    ASSUME TypeInv, ViewsInv, SeqInv, NEW t \in Threads, OpStep(t)
    PROVE  SeqInv'
<1>1. /\ TypeOK /\ ConfigsOwn /\ TokenOnce /\ ProposersNew /\ SequencersValid
      /\ ThreadsSeq
  BY DEF TypeInv, SeqInv
<1>2. /\ UNCHANGED <<status, cview, opener>> /\ ViewsKept
      /\ \A u \in Threads : u # t => th'[u] = th[u]
  BY OpStepHistory, OpStepViews, OpStepFrame
<1>3. ConfigsOwn' /\ TokenOnce' /\ ProposersNew'
  <2>1. CASE views' = views
    BY <1>1, <1>2, <2>1 DEF ConfigsOwn, TokenOnce, ProposersNew, MayPropose
  <2>2. ASSUME NEW v, views' = Append(views, v), v.seq = views[Len(views)].seq
        PROVE  ConfigsOwn' /\ TokenOnce' /\ ProposersNew'
    <3>1. ConfigsOwn' /\ TokenOnce'
      BY <1>1, <2>2, GrowsConfigs DEF Grows
    <3>2. /\ Len(views) \in 1 .. Len(views) /\ Len(views') = Len(views) + 1
          /\ views'[Len(views) + 1] = v
          /\ \A k \in 1 .. Len(views) : views'[k] = views[k]
      BY <1>1, <2>2, AppendKeeps, LatestView DEF TypeOK
    <3>3. ProposersNew'
      <4> SUFFICES ASSUME NEW d \in Clients, MayPropose(d)', NEW i \in 1 .. Len(views')
                   PROVE  views'[i].seq.token # d
        BY DEF ProposersNew
      <4>1. MayPropose(d)
        BY <1>2 DEF MayPropose
      <4>2. PICK j \in 1 .. Len(views) : views'[i].seq = views[j].seq
        BY <2>2, <3>2
      <4> QED BY <1>1, <4>1, <4>2 DEF ProposersNew
    <3> QED BY <3>1, <3>3
  <2> QED BY <2>1, <2>2, OpStepGrows
<1>4. SequencersValid'
  <2> SUFFICES ASSUME NEW d \in Clients PROVE SequencerValid(d)'
    BY DEF SequencersValid
  <2>1. SequencerValid(d)
    BY <1>1 DEF SequencersValid
  <2>2. CASE seq'[d] = seq[d]
    BY <1>2, <2>1, <2>2, SequencerRests DEF Stays
  <2>3. CASE AppendTail(t) /\ d = ClientOf(t)
    <3>1. views' = views /\ seq'[d].epoch = seq[d].epoch /\ seq'[d].pos >= seq[d].pos
      BY <2>3, OpStepSeq DEF AppendTail
    <3>2. seq[d].epoch # 0
      BY <1>1, <2>3 DEF AppendTail, ThreadsSeq, ThreadSeq
    <3>3. seq[d].pos \in Nat /\ seq'[d].pos \in Nat /\ seq[d].epoch \in 1 .. cview[d]
          /\ views[seq[d].epoch].seq.position \in Nat
      <4>1. seq[d].pos \in Nat /\ seq'[d].pos = seq[d].pos + 1
        BY <1>1, <2>3, SeqFacts DEF AppendTail, TypeOK, Sequencer
      <4>2. seq[d].epoch \in 1 .. cview[d] /\ cview[d] \in Nat
            /\ cview[d] <= Len(views) /\ Len(views) \in Nat
        BY <1>1, <2>1, <3>2, EpochFacts
           DEF SequencerValid, TypeInv, TypeOK, ClientsValid, ClientValid
      <4>3. seq[d].epoch \in 1 .. Len(views)
        BY <4>2
      <4> QED BY <1>1, <4>1, <4>2, <4>3, ViewFacts, PosOrEndFacts
    <3> QED BY <1>2, <2>1, <3>1, <3>2, <3>3 DEF SequencerValid
  <2> QED BY <2>2, <2>3, OpStepSeq
<1>5. ThreadsSeq'
  <2> SUFFICES ASSUME NEW u \in Threads PROVE ThreadSeq(u, th[u])'
    BY DEF ThreadsSeq
  <2>1. PICK c \in Clients : c = ClientOf(u)
    BY ClientOfType
  <2>2. SeqMoves(ClientOf(u)) /\ ThreadSeq(u, th[u])
    BY <1>1, <2>1, OpStepSeq DEF ThreadsSeq, SeqMoves
  <2>3. CASE u # t
    BY <1>2, <2>2, <2>3, ThreadSeqRests
  <2>4. CASE u = t
    <3>1. PICK me, r : me = th[t] /\ r = th'[t]
      OBVIOUS
    <3> SUFFICES ASSUME r.op = "append", r.pc \in {"tail", "io", "seal"}
                 PROVE  views'[r.view].seq.token = c /\ seq'[c].epoch # 0
      BY <2>1, <2>4, <3>1 DEF ThreadSeq, ClientOf
    <3>2. seq'[c].epoch = seq[c].epoch
      BY <2>1, OpStepSeq
    <3>3. KeepsOp(t, me, r)
      BY <3>1, OpStepKeeps
    <3>4. CASE /\ SeqGetView(t) /\ r.view = cview[ClientOf(t)]
               /\ HasSeq(ClientOf(t), r.view)
      <4>1. views' = views /\ th[t].pc # "idle"
        BY <3>4 DEF SeqGetView
      <4>2. status[c] = "open"
        BY <2>1, <2>4, <4>1, ThreadRuns
      <4>3. SequencerValid(c)
        BY <1>1 DEF SequencersValid
      <4> QED BY <2>1, <2>4, <3>2, <3>4, <4>1, <4>2, <4>3 DEF HasSeq, SequencerValid
    <3>5. CASE me.pc \in {"tail", "io", "seal"} /\ r.view = me.view /\ me.op = "append"
      <4>1. views[me.view].seq.token = c /\ seq[c].epoch # 0
        BY <1>1, <2>1, <2>4, <3>1, <3>5 DEF ThreadsSeq, ThreadSeq
      <4>2. ThreadValid(t, me)
        BY <3>1 DEF TypeInv, ThreadsValid
      <4>3. me.view \in 1 .. Len(views)
        BY <3>5, <4>2 DEF ThreadValid, HoldsView
      <4> QED BY <1>2, <3>2, <3>5, <4>1, <4>3 DEF ViewsKept
    <3>6. AppendTail(t) => me.pc = "tail"
      BY <3>1 DEF AppendTail
    <3> QED BY <3>3, <3>4, <3>5, <3>6 DEF KeepsOp, SameOp
  <2> QED BY <2>3, <2>4
<1> QED BY <1>3, <1>4, <1>5 DEF SeqInv

\* Steps that leave clients, views and sequencers alone.
LEMMA QuietSeqInv ==
    ASSUME TypeInv, SeqInv, UNCHANGED <<views, status, cview, seq, opener>>,
           \A u \in Threads : th'[u] = th[u] \/ th'[u].pc = "view"
    PROVE  SeqInv'
<1>1. ConfigsOwn' /\ TokenOnce' /\ ProposersNew'
  BY DEF SeqInv, ConfigsOwn, TokenOnce, ProposersNew, MayPropose
<1>2. SequencersValid'
  BY DEF SeqInv, SequencersValid, SequencerValid
<1>3. ThreadsSeq'
  <2> SUFFICES ASSUME NEW u \in Threads PROVE ThreadSeq(u, th[u])'
    BY DEF ThreadsSeq
  <2>1. ThreadSeq(u, th[u])
    BY DEF SeqInv, ThreadsSeq
  <2>2. CASE th'[u] = th[u]
    BY <2>1, <2>2 DEF ThreadSeq
  <2>3. CASE th'[u].pc = "view"
    BY <2>3 DEF ThreadSeq
  <2> QED BY <2>2, <2>3
<1> QED BY <1>1, <1>2, <1>3 DEF SeqInv

\* SeqInv is inductive relative to IndInv,
LEMMA SeqNext == IndInv /\ SeqInv /\ [Next]_vars => SeqInv'
<1> SUFFICES ASSUME IndInv, SeqInv, [Next]_vars PROVE SeqInv'
  OBVIOUS
<1>1. TypeInv /\ ViewsInv
  BY DEF IndInv
<1>2. ASSUME NEW c \in Clients, ClientStep(c) \/ Crash(c) PROVE SeqInv'
  BY <1>1, <1>2, ClientStepSeqInv
<1>3. ASSUME NEW t \in Threads, OpStep(t) PROVE SeqInv'
  BY <1>1, <1>3, OpStepSeqInv
<1>4. CASE UserStep
  <2>1. PICK t \in Threads, op \in OpKinds, p \in Positions : StartOp(t, op, p)
    BY <1>4, UserStepStarts
  <2>2. /\ UNCHANGED <<views, status, cview, seq, opener>>
        /\ \A u \in Threads : th'[u] = th[u] \/ th'[u].pc = "view"
    BY <1>1, <2>1, StartOpLog
  <2> QED BY <1>1, <2>2, QuietSeqInv
<1>5. CASE UNCHANGED vars
  <2>1. UNCHANGED <<views, status, cview, seq, opener, th>>
    BY <1>5 DEF vars
  <2> QED BY <1>1, <2>1, QuietSeqInv
<1> QED BY <1>2, <1>3, <1>4, <1>5 DEF Next

\* and holds initially: there is one view, without a sequencer.
LEMMA SeqInit == Init => SeqInv
<1> SUFFICES ASSUME Init PROVE SeqInv
  OBVIOUS
<1>1. Len(views) = 1 /\ views[1].seq = NoSeqConfig
  BY DEF Init
<1>2. NoSeqConfig.epoch = 0 /\ NoSeqConfig.token = NoToken
  BY DEF NoSeqConfig
<1>3. ConfigsOwn /\ TokenOnce
  BY <1>1, <1>2 DEF ConfigsOwn, TokenOnce
<1>4. ProposersNew
  BY <1>1, <1>2, ZLogAssumption DEF ProposersNew
<1>5. SequencersValid
  BY DEF Init, SequencersValid, SequencerValid, NoSequencer
<1>6. ThreadsSeq
  BY IdleOp DEF Init, ThreadsSeq, ThreadSeq
<1> QED BY <1>3, <1>4, <1>5, <1>6 DEF SeqInv

\* So it holds always.
LEMMA SeqInvAlways == Spec => [](IndInv /\ SeqInv)
<1>1. Init => IndInv /\ SeqInv
  BY TypeInit, FenceInit, SeqInit DEF IndInv
<1> QED BY <1>1, FenceNext, SeqNext, PTL DEF Spec

\* No step replaces a sequencer or sets it back.
LEMMA NextSeq ==
    ASSUME IndInv, SeqInv, [Next]_vars, NEW c \in Clients
    PROVE  SeqMoves(c)
<1>1. TypeInv /\ ViewsInv
  BY DEF IndInv
<1>2. ASSUME NEW d \in Clients, ClientStep(d) \/ Crash(d) PROVE SeqMoves(c)
  BY <1>1, <1>2, ClientStepSeq
<1>3. ASSUME NEW t \in Threads, OpStep(t) PROVE SeqMoves(c)
  BY <1>1, <1>3, OpStepSeq DEF SeqMoves
<1>4. CASE UserStep \/ UNCHANGED vars
  <2>1. seq' = seq
    <3>1. CASE UserStep
      BY <1>1, <3>1, UserStepStarts, StartOpLog
    <3>2. CASE UNCHANGED vars
      BY <3>2 DEF vars
    <3> QED BY <1>4, <3>1, <3>2
  <2>2. seq[c].pos \in Nat
    BY <1>1, SeqFacts DEF TypeInv
  <2> QED BY <2>1, <2>2 DEF SeqMoves
<1> QED BY <1>2, <1>3, <1>4 DEF Next

\* A client that has created its Sequencer keeps it as long as it lives, and
\* the Sequencer never hands out a position twice: whatever views others
\* propose and however late the client learns of them, refresh_view reuses the
\* Sequencer of the view before.
THEOREM SequencerStable == Spec => SequencerKept
<1>1. IndInv /\ SeqInv /\ [Next]_vars =>
        [\A c \in Clients :
            seq[c] # NoSequencer /\ status'[c] = status[c] =>
                seq'[c].epoch = seq[c].epoch /\ seq'[c].pos >= seq[c].pos]_vars
  <2> SUFFICES ASSUME IndInv, SeqInv, [Next]_vars, NEW c \in Clients,
                      seq[c] # NoSequencer, status'[c] = status[c]
               PROVE  seq'[c].epoch = seq[c].epoch /\ seq'[c].pos >= seq[c].pos
    OBVIOUS
  <2>1. seq[c].epoch # 0
    BY DEF SeqInv, SequencersValid, SequencerValid
  <2>2. ~Dies(c)
    BY DEF Dies, Live, Dead
  <2> QED BY <2>1, <2>2, NextSeq DEF SeqMoves
<1> QED BY <1>1, SeqInvAlways, PTL DEF Spec, SequencerKept

-----------------------------------------------------------------------------
(* The order of appends: what steps leave of what others rely on *)

\* A position some append wrote stays written by it.
WroteKept == \A q \in Positions : wrote[q] # 0 => wrote'[q] = wrote[q]

BelowKept == \A p : BelowTail(p) => BelowTail(p)'

\* What is below the tail stays below it.
LEMMA BelowStays == ASSUME WroteKept PROVE BelowKept
BY DEF WroteKept, BelowKept, BelowTail

\* The config of a client's sequencer and the seed it started from.
LEMMA ConfigOfFacts ==
    ASSUME TypeInv, ViewsInv, SeqInv, NEW c \in Clients, seq[c].epoch # 0
    PROVE  /\ seq[c].epoch \in 1 .. Len(views)
           /\ ConfigOf(c) \in 1 .. Len(views)
           /\ views[ConfigOf(c)].seq.epoch = ConfigOf(c)
           /\ views[ConfigOf(c)].seq.token = c
           /\ views[ConfigOf(c)].seq.position <= seq[c].pos
           /\ \A i \in 1 .. Len(views) :
                views[i].seq.token = c => views[i].seq.epoch = ConfigOf(c)
<1> DEFINE e == seq[c].epoch
<1>1. TypeOK /\ ConfigsOwn /\ TokenOnce /\ SequencerValid(c)
  BY DEF TypeInv, SeqInv, SequencersValid
<1>2. /\ cview[c] \in Nat /\ cview[c] <= Len(views) /\ Len(views) \in Nat
      /\ e \in 1 .. cview[c]
  <2>1. cview[c] \in Epochs /\ cview[c] <= Len(views) /\ Len(views) \in Nat
    BY DEF TypeInv, TypeOK, ClientsValid, ClientValid
  <2> QED BY <1>1, <2>1, EpochFacts DEF SequencerValid
<1>3. e \in 1 .. Len(views)
  BY <1>2
<1>4. views[e].seq.token = c /\ views[e].seq.position <= seq[c].pos
  <2>1. seq[c].pos \in Nat /\ views[e].seq.position \in PosOrEnd
    BY <1>1, <1>3, SeqFacts, ViewFacts
  <2>2. views[e].seq.position \in Nat
    BY <2>1, PosOrEndFacts
  <2> QED BY <1>1, <2>1, <2>2 DEF SequencerValid
<1>5. /\ views[e].seq.epoch \in 1 .. Len(views)
      /\ views[views[e].seq.epoch].seq = views[e].seq
  BY <1>1, <1>3, <1>4, ConfigFacts
<1>6. ConfigOf(c) = views[e].seq.epoch
  BY DEF ConfigOf
<1>7. \A i \in 1 .. Len(views) :
        views[i].seq.token = c => views[i].seq.epoch = ConfigOf(c)
  BY <1>1, <1>3, <1>4, <1>6 DEF TokenOnce
<1> QED BY <1>3, <1>4, <1>5, <1>6, <1>7

\* A sequencer that is kept stays fenced where it was.
LEMMA FencedStays ==
    ASSUME TypeInv, ViewsInv, SeqInv, ViewsKept, NEW c \in Clients,
           seq[c].epoch # 0, seq'[c].epoch = seq[c].epoch, NEW p, Fenced(c, p)
    PROVE  ConfigOf(c)' = ConfigOf(c) /\ Fenced(c, p)'
<1>1. seq[c].epoch \in 1 .. Len(views)
  BY ConfigOfFacts
<1>2. ConfigOf(c)' = ConfigOf(c)
  BY <1>1 DEF ConfigOf, ViewsKept
<1>3. PICK e \in 1 .. Len(views) :
        views[e].seq.epoch = e /\ e > ConfigOf(c) /\ p >= views[e].seq.position
  BY DEF Fenced
<1>4. e \in 1 .. Len(views') /\ views'[e] = views[e]
  <2>1. Len(views) \in Nat /\ Len(views') \in Int
    <3>1. Len(views) \in Nat
      BY DEF TypeInv, TypeOK
    <3> QED BY <3>1
  <2> QED BY <2>1 DEF ViewsKept
<1> QED BY <1>2, <1>3, <1>4 DEF Fenced

\* Threads that do not move.
LEMMA ThreadOrderRests ==
    ASSUME TypeInv, TypeInv', ViewsInv, SeqInv, ViewsKept, BelowKept, NEW u \in Threads,
           ThreadOrder(u, th[u]), SeqMoves(ClientOf(u)), th'[u] \in {th[u], Idle}
    PROVE  ThreadOrder(u, th[u])'
<1>1. CASE th'[u] = Idle
  BY <1>1, IdleOp DEF ThreadOrder
<1>2. CASE th'[u] = th[u] /\ th'[u] # Idle
  <2>1. PICK me \in Thread : me = th[u]
    BY DEF TypeInv, TypeOK
  <2>2. PICK c \in Clients : c = ClientOf(u)
    BY ClientOfType
  <2>3. ThreadOrder(u, me) /\ SeqMoves(c) /\ ~Dies(c)
    BY <1>2, <2>1, <2>2 DEF Dies
  <2>4. seq[c].epoch # 0 => /\ seq'[c].epoch = seq[c].epoch /\ seq'[c].pos >= seq[c].pos
    BY <2>3 DEF SeqMoves
  <2>5. ASSUME me.op = "append", me.position_epoch # 0, me.pc # "done"
        PROVE  /\ seq'[c].epoch # 0 /\ me.pos < seq'[c].pos
               /\ ~PastTail => me.pos >= me.floor \/ Fenced(c, me.pos)'
    <3>1. /\ seq[c].epoch # 0 /\ me.pos < seq[c].pos
          /\ ~PastTail => me.pos >= me.floor \/ Fenced(c, me.pos)
      BY <2>2, <2>3, <2>5 DEF ThreadOrder
    <3>2. me.pos \in Nat /\ seq[c].pos \in Nat /\ seq'[c].pos \in Int
      <4>1. me.pos \in PosOrEnd
        BY DEF Thread
      <4>2. me.pos \in Nat
        BY <4>1, PosOrEndFacts
      <4>3. seq[c].pos \in Nat /\ seq'[c].pos \in Nat
        BY SeqFacts, SeqFactsNext DEF TypeInv
      <4> QED BY <4>2, <4>3
    <3>3. ~PastTail => me.pos >= me.floor \/ Fenced(c, me.pos)'
      BY <2>4, <3>1, FencedStays
    <3> QED BY <2>4, <3>1, <3>2, <3>3
  <2>6. /\ me.op = "append" /\ me.floor # 0 => BelowTail(me.floor - 1)'
        /\ ~PastTail /\ me.op \in {"fill", "trim", "trimTo"} => BelowTail(me.pos)'
    BY <2>3 DEF ThreadOrder, BelowKept
  <2> QED BY <1>2, <2>1, <2>2, <2>3, <2>5, <2>6 DEF ThreadOrder, ClientOf
<1> QED BY <1>1, <1>2

\* The next position of a sequencer is not below what was the tail when the
\* append began, or a newer sequencer has taken over from there.
LEMMA TailOrder ==
    ASSUME TypeInv, ViewsInv, FenceInv, SeqInv, WroteHanded, SupersededFenced,
           ~PastTail, NEW c \in Clients, seq[c].epoch # 0,
           NEW f \in Nat, f # 0 => BelowTail(f - 1), seq[c].pos < f
    PROVE  Fenced(c, seq[c].pos)
<1> DEFINE p == seq[c].pos
           k == ConfigOf(c)
<1>1. TypeOK /\ p \in Nat /\ TakeoverFences
  BY SeqFacts DEF TypeInv, FenceInv
<1>2. PICK q \in Positions : q >= f - 1 /\ wrote[q] # 0
  BY <1>1 DEF BelowTail
<1>3. q \in Nat /\ q >= p
  BY <1>1, <1>2, PositionsNat
<1>4. /\ k \in 1 .. Len(views) /\ views[k].seq.epoch = k /\ views[k].seq.token = c
      /\ views[k].seq.position <= p
  BY ConfigOfFacts
<1>5. /\ wrote[q] \in 1 .. Len(views) /\ views[wrote[q]].seq.epoch = wrote[q]
      /\ views[wrote[q]].seq.token = c => q < p
  BY <1>2 DEF WroteHanded
<1>6. k \in Nat /\ wrote[q] \in Nat /\ Len(views) \in 1 .. Len(views)
  BY <1>1, <1>4, <1>5, LatestView DEF TypeOK
<1>7. wrote[q] # k
  BY <1>3, <1>4, <1>5, <1>1
<1>8. ~(wrote[q] < k)
  <2>1. views[k].seq.position \in Nat
    BY <1>1, <1>4, ViewFacts, PosOrEndFacts
  <2>2. q >= views[k].seq.position
    BY <1>1, <1>3, <1>4, <2>1
  <2> QED BY <1>1, <1>2, <1>4, <1>6, <2>2 DEF TakeoverFences
<1>9. views[Len(views)].seq.epoch > k
  <2>1. wrote[q] <= Len(views)
    BY <1>5
  <2>2. views[wrote[q]].seq.epoch <= views[Len(views)].seq.epoch
    BY <1>1, <1>5, <1>6, <2>1, ViewOrder
  <2>3. views[Len(views)].seq.epoch \in Int
    BY <1>1, <1>6, ViewFacts, EpochFacts
  <2> QED BY <1>5, <1>6, <1>7, <1>8, <2>2, <2>3
<1> QED BY <1>9 DEF SupersededFenced

\* AppendOp's write: it is refused where a newer sequencer has taken over, and
\* puts its sequencer's config at a position nobody wrote before.
LEMMA WriteIoWrote ==
    ASSUME TypeInv, ViewsInv, FenceInv, SeqInv, NEW t \in Threads, WriteIo(t)
    PROVE  \/ wrote' = wrote /\ th'[t].pc # "done"
           \/ /\ th[t].pos \in Positions
              /\ wrote[th[t].pos] = 0
              /\ wrote' = [wrote EXCEPT ![th[t].pos] = ConfigOf(ClientOf(t))]
              /\ ~Fenced(ClientOf(t), th[t].pos)
              /\ th'[t].pc = "done"
<1> DEFINE me == th[t]
           c == ClientOf(t)
           p == me.pos
           x == objs[Oid(p)]
           E == 0 .. MaxEpoch + 1
           res == Write(x, me.view, p, me.data)
<1>1. /\ me.pc = "io" /\ me.op = "append"
      /\ th' = [th EXCEPT ![t] =
                   IF res.ret = "EROFS"
                   THEN [me EXCEPT !.pc = "view", !.position_epoch = 0]
                   ELSE AfterIo(me, res.ret)]
      /\ wrote' = IF res.ret = "OK"
                  THEN [wrote EXCEPT ![p] = views[me.view].seq.epoch]
                  ELSE wrote
  BY DEF WriteIo
<1>2. /\ p \in Positions /\ Oid(p) \in Oids /\ x \in LogObject(E)
      /\ me.view \in 1 .. Len(views) /\ me.view \in Int
  BY <1>1, PosObject
<1>3. /\ TypeOK /\ E \subseteq Int /\ ThreadFence(me) /\ ObjectsCover /\ SeedSealed
      /\ me \in Thread /\ th \in [Threads -> Thread] /\ c \in Clients
      /\ ThreadSeq(t, me)
  BY EpochFacts, ClientOfType
     DEF TypeInv, FenceInv, ThreadsFence, TypeOK, SeqInv, ThreadsSeq
<1>4. me.data \in Entries /\ Mapped(views[me.view].inst, p)
  BY <1>1, <1>3, ThreadFacts, MaxOpsAssumption DEF Entries, ThreadFence
<1>5. views[me.view].seq.token = c /\ seq[c].epoch # 0
  BY <1>1, <1>3 DEF ThreadSeq
<1>6. views[me.view].seq.epoch = ConfigOf(c)
  BY <1>2, <1>3, <1>5, ConfigOfFacts
<1>7. res.ret \in {"OK", "ENOENT", "ESPIPE", "EROFS"}
      /\ (res.ret = "OK" => me.view >= x.epoch)
  <2> HIDE DEF E, p, x, me
  <2> QED BY <1>2, <1>3, <1>4, WriteFacts
<1>8. th'[t] = IF res.ret = "EROFS"
               THEN [me EXCEPT !.pc = "view", !.position_epoch = 0]
               ELSE AfterIo(me, res.ret)
  BY <1>1, <1>3
<1>9. CASE res.ret = "OK"
  <2>1. x.entries[p] = NoEntry /\ ~Trimmed(x, p)
    BY <1>9, WriteFree
  <2>2. wrote[p] = 0
    BY <1>2, <1>3, <2>1 DEF ObjectsCover, ObjectCovers, Trimmed
  <2>3. th'[t] = [me EXCEPT !.pc = "done", !.ret = "OK"]
    BY <1>8, <1>9 DEF AfterIo
  <2>4. th'[t].pc = "done"
    BY <1>3, <2>3 DEF Thread
  <2>5. wrote' = [wrote EXCEPT ![p] = ConfigOf(c)]
    BY <1>1, <1>6, <1>9
  <2>6. ~Fenced(c, p)
    <3> SUFFICES ASSUME NEW e \in 1 .. Len(views), views[e].seq.epoch = e,
                        e > ConfigOf(c), p >= views[e].seq.position
                 PROVE  FALSE
      BY DEF Fenced
    <3>1. views[me.view].seq.epoch >= e
      <4> HIDE DEF p, me
      <4> QED BY <1>2, <1>3, <1>4, <1>7, <1>9, WriteAllowed
    <3>2. ConfigOf(c) \in Nat /\ e \in Nat
      BY <1>3, <1>5, ConfigOfFacts
    <3> QED BY <1>6, <3>1, <3>2
  <2> QED BY <1>2, <2>2, <2>4, <2>5, <2>6
<1>10. CASE res.ret # "OK"
  <2>1. \/ th'[t] = [me EXCEPT !.pc = "view", !.position_epoch = 0]
        \/ th'[t] = [me EXCEPT !.pc = "wait", !.cur = me.view]
        \/ th'[t] = [me EXCEPT !.pc = "seal"]
    <3>1. res.ret \in {"ENOENT", "ESPIPE", "EROFS"}
      BY <1>7, <1>10
    <3> HIDE DEF res
    <3> QED BY <1>8, <3>1 DEF AfterIo
  <2>2. th'[t].pc # "done"
    BY <1>3, <2>1 DEF Thread
  <2> QED BY <1>1, <1>10, <2>2
<1> QED BY <1>9, <1>10

\* Threads take no append back.
LEMMA OpStepWrote ==
    ASSUME TypeInv, ViewsInv, FenceInv, SeqInv, NEW t \in Threads, OpStep(t)
    PROVE  WroteKept
<1>1. CASE wrote' = wrote
  BY <1>1 DEF WroteKept
<1>2. CASE WriteIo(t) /\ wrote' # wrote
  <2>1. PICK q \in Positions :
          \E k : wrote[q] = 0 /\ wrote' = [wrote EXCEPT ![q] = k]
    BY <1>2, WriteIoWrote
  <2>2. wrote \in [Positions -> Epochs]
    BY DEF TypeInv, TypeOK
  <2> QED BY <2>1, <2>2 DEF WroteKept
<1> QED BY <1>1, <1>2, OpStepHistory

\* AppendTail gives its append the next position of its client's sequencer.
LEMMA AppendTailOrder ==
    ASSUME TypeInv, NEW t \in Threads, AppendTail(t)
    PROVE  /\ th[t].pc = "tail" /\ th[t].op = "append"
           /\ seq'[ClientOf(t)].pos = seq[ClientOf(t)].pos + 1
           /\ th'[t].pos = seq[ClientOf(t)].pos
           /\ th'[t].position_epoch = seq[ClientOf(t)].epoch
           /\ views' = views
<1>1. PICK me \in Thread : me = th[t]
  BY DEF TypeInv, TypeOK
<1>2. PICK c \in Clients : c = ClientOf(t)
  BY ClientOfType
<1>3. /\ seq \in [Clients -> Sequencer] /\ seq[c] \in Sequencer
      /\ th \in [Threads -> Thread]
  BY DEF TypeInv, TypeOK
<1>4. /\ me.pc = "tail" /\ me.op = "append" /\ views' = views
      /\ seq' = [seq EXCEPT ![c].pos = seq[c].pos + 1]
      /\ th' = [th EXCEPT ![t] = [me EXCEPT
                  !.pc = MapNext(me.view, seq[c].pos), !.pos = seq[c].pos,
                  !.position_epoch = seq[c].epoch,
                  !.retries = ExpandRetries]]
  BY <1>1, <1>2 DEF AppendTail
<1>5. seq'[c].pos = seq[c].pos + 1
  BY <1>3, <1>4 DEF Sequencer
<1>6. th'[t] = [me EXCEPT
                  !.pc = MapNext(me.view, seq[c].pos), !.pos = seq[c].pos,
                  !.position_epoch = seq[c].epoch,
                  !.retries = ExpandRetries]
  BY <1>3, <1>4
<1>7. th'[t].pos = seq[c].pos /\ th'[t].position_epoch = seq[c].epoch
  BY <1>6 DEF Thread
<1> QED BY <1>1, <1>2, <1>4, <1>5, <1>7

\* The thread that moves.
LEMMA MovingOrder ==
    ASSUME TypeInv, TypeInv', ViewsInv, FenceInv, SeqInv, OrderInv,
           NEW t \in Threads, OpStep(t)
    PROVE  ThreadOrder(t, th[t])'
<1>1. PICK me \in Thread : me = th[t]
  BY DEF TypeInv, TypeOK
<1>2. PICK r : r = th'[t]
  OBVIOUS
<1>3. PICK c \in Clients : c = ClientOf(t)
  BY ClientOfType
<1>4. /\ ThreadOrder(t, me) /\ ThreadSeq(t, me) /\ SequencerValid(c)
      /\ WroteHanded /\ SupersededFenced
  BY <1>1 DEF OrderInv, ThreadsOrder, SeqInv, ThreadsSeq, SequencersValid
<1>5. ViewsKept /\ BelowKept
  BY OpStepViews, OpStepWrote, BelowStays
<1>6. seq'[c].epoch = seq[c].epoch /\ seq'[c].pos >= seq[c].pos
  BY OpStepSeq
<1>7. seq[c].pos \in Nat /\ seq'[c].pos \in Nat
  BY SeqFacts, SeqFactsNext DEF TypeInv
<1>8. me.pos \in Nat /\ me.floor \in Nat
  <2>1. me.pos \in PosOrEnd /\ me.floor \in PosOrEnd
    BY DEF Thread
  <2> QED BY <2>1, PosOrEndFacts
<1>9. CASE r.op = "none"
  BY <1>2, <1>9 DEF ThreadOrder
<1>10. CASE KeepsOp(t, me, r)
  <2>1. /\ r.op = me.op /\ r.floor = me.floor /\ me.pc # "done"
        /\ r.pos = me.pos \/ AppendTail(t) \/ CheckTail(t)
        /\ \/ r.position_epoch = me.position_epoch
           \/ AppendTail(t)
           \/ WriteIo(t) /\ r.position_epoch = 0 /\ r.pc = "view"
    BY <1>10 DEF KeepsOp, SameOp
  <2>2. AppendTail(t) =>
          /\ me.pc = "tail" /\ me.op = "append" /\ seq'[c].pos = seq[c].pos + 1
          /\ r.pos = seq[c].pos /\ r.position_epoch = seq[c].epoch
          /\ seq[c].epoch # 0 /\ views' = views
    BY <1>1, <1>2, <1>3, <1>4, AppendTailOrder DEF ThreadSeq
  <2>3. CheckTail(t) => me.op = "tail"
    BY <1>1 DEF CheckTail
  <2>4. ASSUME r.op = "append", r.pc \in {"io", "seal"}
        PROVE  r.position_epoch # 0
    <3>1. CASE /\ SeqGetView(t) /\ r.view = cview[c] /\ HasSeq(c, r.view)
               /\ r.position_epoch = seq[c].epoch
      <4>1. status[c] = "open"
        BY <1>1, <1>3, <3>1, ThreadRuns DEF SeqGetView
      <4> QED BY <1>4, <3>1, <4>1 DEF HasSeq, SequencerValid
    <3>2. CASE AppendTail(t)
      BY <2>2, <3>2
    <3>3. CASE me.pc \in {"io", "seal"}
      BY <1>4, <2>1, <2>2, <2>4, <3>3 DEF ThreadOrder
    <3> QED BY <1>3, <1>10, <2>4, <3>1, <3>2, <3>3 DEF KeepsOp
  <2>5. ASSUME r.op = "append", r.position_epoch # 0, r.pc # "done"
        PROVE  /\ seq'[c].epoch # 0 /\ r.pos < seq'[c].pos
               /\ ~PastTail => r.pos >= r.floor \/ Fenced(c, r.pos)'
    <3>1. CASE AppendTail(t)
      <4>1. /\ r.pos = seq[c].pos /\ seq[c].epoch # 0 /\ views' = views
            /\ seq'[c].pos = seq[c].pos + 1
        BY <2>2, <3>1
      <4>2. me.floor # 0 => BelowTail(me.floor - 1)
        BY <1>4, <2>1, <2>5 DEF ThreadOrder
      <4>3. ASSUME ~PastTail, seq[c].pos < me.floor PROVE Fenced(c, r.pos)
        BY <1>4, <1>8, <4>1, <4>2, <4>3, TailOrder
      <4>4. Fenced(c, r.pos) => Fenced(c, r.pos)'
        BY <1>5, <1>6, <4>1, FencedStays
      <4> QED BY <1>6, <1>7, <1>8, <2>1, <4>1, <4>3, <4>4
    <3>2. CASE ~AppendTail(t)
      <4>1. r.pos = me.pos /\ r.position_epoch = me.position_epoch
        BY <2>1, <2>3, <2>5, <3>2
      <4>2. /\ seq[c].epoch # 0 /\ me.pos < seq[c].pos
            /\ ~PastTail => me.pos >= me.floor \/ Fenced(c, me.pos)
        BY <1>3, <1>4, <2>1, <2>5, <4>1 DEF ThreadOrder
      <4>3. Fenced(c, r.pos) => Fenced(c, r.pos)'
        BY <1>5, <1>6, <4>2, FencedStays
      <4> QED BY <1>6, <1>7, <1>8, <2>1, <4>1, <4>2, <4>3
    <3> QED BY <3>1, <3>2
  <2>6. r.op = "append" /\ r.floor # 0 => BelowTail(r.floor - 1)'
    BY <1>4, <1>5, <2>1 DEF ThreadOrder, BelowKept
  <2>7. ~PastTail /\ r.op \in {"fill", "trim", "trimTo"} => BelowTail(r.pos)'
    BY <1>4, <1>5, <2>1, <2>2, <2>3 DEF ThreadOrder, BelowKept
  <2>8. ASSUME ~PastTail, r.op = "append", r.pc = "done", r.ret = "OK"
        PROVE  r.pos >= r.floor
    <3>1. WriteIo(t)
      BY <1>10, <2>8 DEF KeepsOp
    <3>2. me.pc = "io" /\ me.op = "append" /\ ~Fenced(c, me.pos)
      BY <1>1, <1>2, <1>3, <2>8, <3>1, WriteIoWrote DEF WriteIo
    <3>3. me.pos >= me.floor
      BY <1>3, <1>4, <2>1, <2>8, <3>2 DEF ThreadOrder
    <3> QED BY <2>1, <2>2, <2>3, <3>2, <3>3
  <2> QED BY <1>2, <1>3, <2>4, <2>5, <2>6, <2>7, <2>8 DEF ThreadOrder, ClientOf
<1> QED BY <1>1, <1>2, <1>9, <1>10, OpStepKeeps

\* A thread that starts: what it was asked to fill or trim is below the tail.
LEMMA StartingOrder ==
    ASSUME TypeInv, NEW t \in Threads, NEW op, NEW p \in Positions,
           StartOp(t, op, p)
    PROVE  ThreadOrder(t, th[t])'
<1>1. PICK r, n : r = th'[t] /\ n = LogTail
  OBVIOUS
<1>2. /\ r.pc = "view" /\ r.op = op /\ r.pos = p /\ r.floor = n
      /\ r.position_epoch = 0 /\ wrote' = wrote
  BY <1>1, StartOpLog
<1>3. TypeOK /\ n \in PosOrEnd /\ (n = 0 \/ wrote[n - 1] # 0)
  BY <1>1, LogTailFacts DEF TypeInv
<1>4. n \in Nat
  BY <1>3, PosOrEndFacts
<1>5. n # 0 => n - 1 \in Positions
  <2>1. n <= MaxStripes * StripeSize /\ MaxStripes * StripeSize \in Int
    BY <1>3, PositionsBound DEF PosOrEnd
  <2> QED BY <1>4, <2>1 DEF Positions
<1>6. n # 0 => BelowTail(n - 1)'
  BY <1>2, <1>3, <1>4, <1>5 DEF BelowTail
<1>7. ASSUME p < n PROVE BelowTail(p)'
  <2>1. p \in Nat
    BY PositionsNat
  <2>2. n - 1 \in Positions /\ n - 1 >= p /\ wrote'[n - 1] # 0
    BY <1>2, <1>3, <1>4, <1>5, <1>7, <2>1
  <2> QED BY <2>2 DEF BelowTail
<1>8. ~PastTail /\ op \in {"fill", "trim", "trimTo"} => p < n
  BY <1>1 DEF StartOp
<1> QED BY <1>1, <1>2, <1>6, <1>7, <1>8 DEF ThreadOrder

\* A client that is dead stays dead, one that lives or was never opened does
\* not lose track of its sequencer.
LEMMA DeadStays ==
    ASSUME TypeInv, ViewsInv, SeqInv, NEW d \in Clients,
           seq[d].epoch = 0, status[d] \in Dead,
           \/ \E c \in Clients : ClientStep(c) \/ Crash(c)
           \/ \E t \in Threads : OpStep(t)
    PROVE  seq'[d].epoch = 0 /\ status'[d] \in Dead
<1>1. ASSUME NEW c \in Clients, ClientStep(c) \/ Crash(c)
      PROVE  seq'[d].epoch = 0 /\ status'[d] \in Dead
  <2>1. CASE d # c
    BY <1>1, <2>1, ClientStepKinds
  <2>2. CASE d = c
    <3>1. Refreshes(c) \/ Opens(c) \/ Dies(c) \/ Stays(c)
      BY <1>1, ClientStepKinds
    <3>2. status[c] \notin Live /\ status[c] # "closed"
      BY <2>2 DEF Live, Dead
    <3>3. Stays(c)
      BY <3>1, <3>2 DEF Refreshes, Opens, Dies
    <3> QED BY <2>2, <3>2, <3>3 DEF Stays
  <2> QED BY <2>1, <2>2
<1>2. ASSUME NEW t \in Threads, OpStep(t)
      PROVE  seq'[d].epoch = 0 /\ status'[d] \in Dead
  BY <1>2, OpStepSeq, OpStepHistory
<1> QED BY <1>1, <1>2

\* What a sequencer handed out stays handed out.
HandedBy(c, p) ==
    IF seq[c].epoch = 0 THEN status[c] \in Dead ELSE p < seq[c].pos

\* A position handed out stays handed out while sequencers only move forward.
LEMMA HandedStays ==
    ASSUME TypeInv, TypeInv', ViewsInv, SeqInv, NEW c \in Clients,
           NEW p \in Positions, HandedBy(c, p), SeqMoves(c),
           seq[c].epoch = 0 /\ status[c] \in Dead =>
               seq'[c].epoch = 0 /\ status'[c] \in Dead
    PROVE  HandedBy(c, p)'
<1>1. seq[c].pos \in Nat /\ seq'[c].pos \in Nat /\ p \in Nat
  BY SeqFacts, SeqFactsNext, PositionsNat DEF TypeInv
<1>2. CASE seq[c].epoch = 0
  BY <1>2 DEF HandedBy
<1>3. CASE /\ seq[c].epoch # 0 /\ seq'[c].epoch = seq[c].epoch
           /\ seq'[c].pos >= seq[c].pos
  BY <1>1, <1>3 DEF HandedBy
<1>4. CASE Dies(c)
  BY <1>4 DEF Dies, HandedBy, NoSequencer
<1> QED BY <1>2, <1>3, <1>4 DEF SeqMoves

\* Steps that keep sequencers or end their clients, and views.
SeqsKept ==
    /\ ViewsKept
    /\ \A c \in Clients :
         /\ SeqMoves(c)
         /\ seq[c].epoch = 0 /\ status[c] \in Dead =>
              seq'[c].epoch = 0 /\ status'[c] \in Dead

HandedOut(w, p) ==
    /\ w \in 1 .. Len(views) /\ views[w].seq.epoch = w
    /\ \A c \in Clients : views[w].seq.token = c => HandedBy(c, p)

\* They keep what is known of one position
LEMMA HandedOutStays ==
    ASSUME TypeInv, TypeInv', ViewsInv, SeqInv, SeqsKept,
           NEW p \in Positions, NEW w, HandedOut(w, p)
    PROVE  HandedOut(w, p)'
<1>1. ViewsKept /\ \A c \in Clients : SeqMoves(c)
  BY DEF SeqsKept
<1>2. w \in 1 .. Len(views) /\ views[w].seq.epoch = w
  BY DEF HandedOut
<1>3. views'[w] = views[w] /\ w \in 1 .. Len(views')
  <2>1. Len(views) \in Nat /\ Len(views') \in Nat
    BY DEF TypeInv, TypeOK
  <2> QED BY <1>1, <1>2, <2>1 DEF ViewsKept
<1>4. ASSUME NEW c \in Clients, views[w].seq.token = c PROVE HandedBy(c, p)'
  BY <1>4, HandedStays DEF SeqsKept, HandedOut
<1> QED BY <1>2, <1>3, <1>4 DEF HandedOut

\* and of all of them, when nothing is written.
LEMMA QuietWroteHanded ==
    ASSUME TypeInv, TypeInv', ViewsInv, SeqInv, WroteHanded, SeqsKept,
           wrote' = wrote
    PROVE  WroteHanded'
<1>1. ASSUME NEW p \in Positions, NEW w, w = wrote[p], w # 0 PROVE HandedOut(w, p)'
  <2>1. HandedOut(w, p)
    BY <1>1 DEF WroteHanded, HandedOut, HandedBy, Dead
  <2> QED BY <2>1, HandedOutStays
<1>2. \A p \in Positions : wrote'[p] # 0 =>
        /\ wrote'[p] \in 1 .. Len(views') /\ views'[wrote'[p]].seq.epoch = wrote'[p]
        /\ \A c \in Clients : views'[wrote'[p]].seq.token = c => HandedBy(c, p)'
  BY <1>1 DEF HandedOut
<1> QED BY <1>2 DEF WroteHanded, HandedBy, Dead

\* Steps of threads.
LEMMA OpStepKept ==
    ASSUME TypeInv, ViewsInv, SeqInv, NEW t \in Threads, OpStep(t)
    PROVE  SeqsKept
<1>1. ViewsKept
  BY OpStepViews
<1>2. \A c \in Clients : SeqMoves(c)
  BY OpStepSeq DEF SeqMoves
<1> QED BY <1>1, <1>2, DeadStays DEF SeqsKept

\* Threads only write positions that a sequencer handed out.
LEMMA OpStepHanded ==
    ASSUME TypeInv, TypeInv', ViewsInv, FenceInv, SeqInv, OrderInv,
           NEW t \in Threads, OpStep(t)
    PROVE  WroteHanded'
<1>1. WroteHanded /\ ThreadOrder(t, th[t])
  BY DEF OrderInv, ThreadsOrder
<1>2. CASE wrote' = wrote
  BY <1>1, <1>2, OpStepKept, QuietWroteHanded
<1>3. CASE WriteIo(t) /\ wrote' # wrote
  <2>1. PICK c \in Clients : c = ClientOf(t)
    BY ClientOfType
  <2>2. PICK me, k : me = th[t] /\ k = ConfigOf(c)
    OBVIOUS
  <2>3. /\ me.pos \in Positions /\ wrote' = [wrote EXCEPT ![me.pos] = k]
    BY <1>3, <2>1, <2>2, WriteIoWrote
  <2>4. /\ me.pc = "io" /\ me.op = "append"
        /\ UNCHANGED <<views, seq, status>>
    BY <1>3, <2>2 DEF WriteIo, UnchangedByOp
  <2>5. seq[c].epoch # 0 /\ me.pos < seq[c].pos
    BY <1>1, <2>1, <2>2, <2>4 DEF ThreadOrder
  <2>6. k \in 1 .. Len(views) /\ views[k].seq.epoch = k /\ views[k].seq.token = c
    BY <2>2, <2>5, ConfigOfFacts
  <2>7. HandedOut(k, me.pos)'
    BY <2>4, <2>5, <2>6 DEF HandedOut, HandedBy
  <2>8. ASSUME NEW p \in Positions, NEW w, w = wrote'[p], w # 0
        PROVE  HandedOut(w, p)'
    <3>1. CASE p = me.pos
      <4>1. wrote \in [Positions -> Epochs]
        BY DEF TypeInv, TypeOK
      <4>2. w = k
        BY <2>3, <2>8, <3>1, <4>1
      <4> QED BY <2>7, <3>1, <4>2
    <3>2. CASE p # me.pos
      <4>1. w = wrote[p]
        BY <2>3, <2>8, <3>2 DEF TypeInv, TypeOK
      <4>2. HandedOut(w, p)
        BY <1>1, <2>8, <4>1 DEF WroteHanded, HandedOut, HandedBy, Dead
      <4> QED BY <4>2, OpStepKept, HandedOutStays
    <3> QED BY <3>1, <3>2
  <2>9. \A p \in Positions : wrote'[p] # 0 =>
          /\ wrote'[p] \in 1 .. Len(views') /\ views'[wrote'[p]].seq.epoch = wrote'[p]
          /\ \A d \in Clients : views'[wrote'[p]].seq.token = d => HandedBy(d, p)'
    BY <2>8 DEF HandedOut
  <2> QED BY <2>9 DEF WroteHanded, HandedBy, Dead
<1> QED BY <1>2, <1>3, OpStepHistory

-----------------------------------------------------------------------------
(* What is consumed is below the tail *)

\* Raising maxpos or the trim limit to a position below the tail, or neither,
\* keeps an object below the tail.
LEMMA TailMoves ==
    ASSUME BelowKept, NEW x, NEW y, NEW p \in Positions, TailObject(x),
           y.trim_limit = x.trim_limit \/ (y.trim_limit = p /\ BelowTail(p)'),
           \/ y.maxpos = p /\ BelowTail(p)'
           \/ /\ y.maxpos = x.maxpos
              /\ \/ x.maxpos # 0
                 \/ \A q \in Positions : y.entries[q] # NoEntry => x.entries[q] # NoEntry
    PROVE  TailObject(y)'
<1>1. y.trim_limit # NoLimit => BelowTail(y.trim_limit)'
  BY DEF TailObject, BelowKept
<1>2. y.maxpos # 0 \/ (\E q \in Positions : y.entries[q] # NoEntry) =>
        BelowTail(y.maxpos)'
  <2>1. CASE y.maxpos = p /\ BelowTail(p)'
    BY <2>1
  <2>2. CASE /\ y.maxpos = x.maxpos
             /\ \/ x.maxpos # 0
                \/ \A q \in Positions : y.entries[q] # NoEntry => x.entries[q] # NoEntry
    BY <2>2 DEF TailObject, BelowKept
  <2> QED BY <2>1, <2>2
<1> QED BY <1>1, <1>2 DEF TailObject

\* Inserting an entry below the tail.
LEMMA TailInsert ==
    ASSUME BelowKept, NEW E, NEW x \in LogObject(E), NEW p \in Positions, NEW d,
           TailObject(x), BelowTail(p)'
    PROVE  TailObject(Insert(x, p, d))'
<1>1. PICK y : y = Insert(x, p, d)
  OBVIOUS
<1>2. /\ y.trim_limit = x.trim_limit /\ y.maxpos = Larger(x.maxpos, p)
  BY <1>1 DEF Insert, LogObject
<1>3. x.maxpos \in Nat /\ p \in Nat
  BY PositionsNat DEF LogObject
<1>4. \/ y.maxpos = p
      \/ y.maxpos = x.maxpos /\ x.maxpos # 0
  BY <1>2, <1>3 DEF Larger
<1>5. TailObject(y)'
  BY <1>2, <1>4, TailMoves
<1> QED BY <1>1, <1>5

\* A step that changes one object.
LEMMA TailOneObject ==
    ASSUME TypeOK, TailObjects, BelowKept, NEW o \in Oids, NEW y,
           objs' = [objs EXCEPT ![o] = y], ~PastTail => TailObject(y)'
    PROVE  TailObjects'
<1> SUFFICES ASSUME ~PastTail, NEW o1 \in Oids PROVE TailObject(objs[o1])'
  BY DEF TailObjects
<1>1. PICK x, z : x = objs[o1] /\ z = objs'[o1]
  OBVIOUS
<1>2. TailObject(x)
  BY <1>1 DEF TailObjects
<1>3. CASE o1 = o
  <2>1. z = y
    BY <1>1, <1>3 DEF TypeOK
  <2> QED BY <1>1, <2>1
<1>4. CASE o1 # o
  <2>1. z = x
    BY <1>1, <1>4 DEF TypeOK
  <2>2. TailObject(x)'
    BY <1>2, TailMoves, PositionsNat
  <2> QED BY <1>1, <2>1, <2>2
<1> QED BY <1>3, <1>4

\* While no object changes, everything stored stays below the tails.
LEMMA TailSameObjects ==
    ASSUME TailObjects, BelowKept, objs' = objs PROVE TailObjects'
<1> SUFFICES ASSUME ~PastTail, NEW o \in Oids PROVE TailObject(objs[o])'
  BY DEF TailObjects
<1>1. PICK x : x = objs[o]
  OBVIOUS
<1>2. TailObject(x)
  BY <1>1 DEF TailObjects
<1>3. TailObject(x)'
  BY <1>2, TailMoves, PositionsNat
<1> QED BY <1>1, <1>3

\* Sealing.
LEMMA TailSeal ==
    ASSUME TypeOK, TailObjects, BelowKept, NEW o \in Oids,
           NEW e \in 0 .. MaxEpoch + 1,
           objs' = [objs EXCEPT ![o] = Seal(objs[o], e).obj]
    PROVE  TailObjects'
<1>1. PICK x \in LogObject(0 .. MaxEpoch + 1) : x = objs[o]
  BY ObjectType
<1>2. PICK y : y = Seal(x, e).obj
  OBVIOUS
<1>3. /\ y.entries = x.entries /\ y.maxpos = x.maxpos
      /\ y.trim_limit = x.trim_limit
  BY <1>2, SealFacts, EpochFacts
<1>4. ~PastTail => TailObject(x)
  BY <1>1 DEF TailObjects
<1>5. ~PastTail => TailObject(y)'
  BY <1>3, <1>4, TailMoves, PositionsNat
<1> QED BY <1>1, <1>2, <1>5, TailOneObject

\* Threads write, fill and trim below the tail.
LEMMA OpStepTail ==
    ASSUME TypeInv, ViewsInv, FenceInv, SeqInv, OrderInv,
           NEW t \in Threads, OpStep(t)
    PROVE  TailObjects'
<1>1. TypeOK /\ TailObjects /\ ThreadOrder(t, th[t])
  BY DEF TypeInv, OrderInv, ThreadsOrder
<1>2. BelowKept
  BY OpStepWrote, BelowStays
<1>3. PICK me \in Thread : me = th[t]
  BY <1>1 DEF TypeOK
<1>4. PICK p : p = me.pos
  OBVIOUS
<1>5. ~PastTail /\ me.op \in {"fill", "trim", "trimTo"} => BelowTail(p)'
  BY <1>1, <1>2, <1>3, <1>4 DEF ThreadOrder, BelowKept
<1>6. CASE WriteIo(t) \/ FillIo(t) \/ TrimIo(t)
  <2>1. me.pc = "io"
    BY <1>3, <1>6 DEF WriteIo, FillIo, TrimIo
  <2>2. /\ p \in Positions /\ Oid(p) \in Oids /\ me.view \in Int
        /\ objs[Oid(p)] \in LogObject(0 .. MaxEpoch + 1)
    BY <1>3, <1>4, <2>1, PosObject
  <2>3. PICK x \in LogObject(0 .. MaxEpoch + 1) : x = objs[Oid(p)]
    BY <2>2
  <2>4. 0 .. MaxEpoch + 1 \subseteq Int
    BY EpochFacts
  <2>5. PICK y, d : /\ objs' = [objs EXCEPT ![Oid(p)] = y]
                    /\ y = x \/ (y = Insert(x, p, d) /\ (~PastTail => BelowTail(p)'))
    <3>1. CASE WriteIo(t)
      <4>1. /\ objs' = [objs EXCEPT ![Oid(p)] = Write(x, me.view, p, me.data).obj]
            /\ Write(x, me.view, p, me.data).ret # "OK" => wrote' = wrote
            /\ Write(x, me.view, p, me.data).ret = "OK" =>
                 wrote' = [wrote EXCEPT ![p] = views[me.view].seq.epoch]
        BY <1>3, <1>4, <2>3, <3>1 DEF WriteIo
      <4>2. Write(x, me.view, p, me.data).obj =
              IF Write(x, me.view, p, me.data).ret = "OK" THEN Insert(x, p, me.data)
              ELSE x
        <5>1. me.data \in Entries
          BY MaxOpsAssumption DEF Thread, Entries
        <5> QED BY <2>2, <2>4, <5>1, WriteFacts
      <4>3. ASSUME Write(x, me.view, p, me.data).ret = "OK" PROVE BelowTail(p)'
        <5>1. PICK c \in Clients : c = ClientOf(t)
          BY ClientOfType
        <5>2. views[me.view].seq.token = c /\ seq[c].epoch # 0
          BY <1>3, <2>1, <3>1, <5>1 DEF SeqInv, ThreadsSeq, ThreadSeq, WriteIo
        <5>3. me.view \in 1 .. Len(views)
          BY <1>3, <2>1, PosObject
        <5>4. views[me.view].seq.epoch # 0
          BY <1>1, <5>2, <5>3, ConfigFacts DEF SeqInv
        <5>5. wrote'[p] # 0
          BY <1>1, <2>2, <4>1, <4>3, <5>4 DEF TypeOK
        <5> QED BY <2>2, <5>5, PositionsNat DEF BelowTail
      <4> QED BY <4>1, <4>2, <4>3
    <3>2. CASE FillIo(t)
      <4>1. me.op = "fill" /\ objs' = [objs EXCEPT ![Oid(p)] = Fill(x, me.view, p).obj]
        BY <1>3, <1>4, <2>3, <3>2 DEF FillIo
      <4>2. Fill(x, me.view, p).obj \in {x, Insert(x, p, Junk)}
        BY <2>2, <2>4, FillFacts
      <4> QED BY <1>5, <4>1, <4>2
    <3>3. CASE TrimIo(t)
      <4>1. me.op = "trim" /\ objs' = [objs EXCEPT ![Oid(p)] = Trim(x, me.view, p).obj]
        BY <1>3, <1>4, <2>3, <3>3 DEF TrimIo
      <4>2. Trim(x, me.view, p).obj \in {x, Insert(x, p, Junk)}
        BY <2>2, <2>4, TrimFacts
      <4> QED BY <1>5, <4>1, <4>2
    <3> QED BY <1>6, <3>1, <3>2, <3>3
  <2>6. ~PastTail => TailObject(x)
    BY <1>1, <2>2, <2>3 DEF TailObjects
  <2>7. ~PastTail => TailObject(y)'
    <3>1. CASE y = x
      BY <1>2, <2>2, <2>6, <3>1, TailMoves
    <3>2. CASE y = Insert(x, p, d) /\ (~PastTail => BelowTail(p)')
      BY <1>2, <2>2, <2>6, <3>2, TailInsert
    <3> QED BY <2>5, <3>1, <3>2
  <2> QED BY <1>1, <1>2, <2>2, <2>5, <2>7, TailOneObject
<1>7. CASE TrimToIo(t)
  <2>1. me.pc = "trim" /\ MoreToTrim(me) /\ me.op = "trimTo"
    BY <1>3, <1>7, ThreadRuns DEF TrimToIo, ThreadValid
  <2>2. PICK o \in Oids : o = Target(me)
    BY <1>3, <2>1, TrimTarget DEF Target
  <2>3. p \in Positions /\ me.view \in Int
    BY <1>1, <1>3, <1>4, <2>1, ThreadRuns, ThreadFacts, EpochFacts DEF ThreadValid
  <2>4. PICK full \in BOOLEAN : full = FullyTrimmed(me.stripe, me.idx, p)
    <3>1. FullyTrimmed(me.stripe, me.idx, p) \in BOOLEAN
      BY DEF FullyTrimmed
    <3> QED BY <3>1, Zenon
  <2>5. PICK x \in LogObject(0 .. MaxEpoch + 1) : x = objs[o]
    BY <1>1, ObjectType
  <2>6. PICK y : y = TrimLimit(x, me.view, p, full).obj
    OBVIOUS
  <2>7. objs' = [objs EXCEPT ![o] = y]
    BY <1>3, <1>4, <1>7, <2>2, <2>4, <2>5, <2>6 DEF TrimToIo
  <2>8. /\ y.maxpos = x.maxpos
        /\ y.trim_limit \in {x.trim_limit, p}
        /\ \A q \in Positions : y.entries[q] # NoEntry => x.entries[q] # NoEntry
    BY <2>3, <2>6, TrimLimitFacts, EpochFacts
  <2>9. ~PastTail => TailObject(x)
    BY <1>1, <2>5 DEF TailObjects
  <2>10. ~PastTail => TailObject(y)'
    BY <1>2, <1>5, <2>1, <2>3, <2>8, <2>9, TailMoves
  <2> QED BY <1>1, <1>2, <2>7, <2>10, TailOneObject
<1>8. CASE SealObject(t)
  <2>1. PICK o \in Oids : o = Target(me) /\ me.pc = "seal"
    BY <1>3, <1>8, TargetType DEF SealObject
  <2>2. me.view \in 0 .. MaxEpoch + 1
    BY EpochFacts DEF Thread
  <2>3. objs' = [objs EXCEPT ![o] = Seal(objs[o], me.view).obj]
    BY <1>3, <1>8, <2>1 DEF SealObject
  <2> QED BY <1>1, <1>2, <2>2, <2>3, TailSeal
<1>9. CASE objs' = objs
  BY <1>1, <1>2, <1>9, TailSameObjects
<1>10. AdvancePropose(t) \/ ExpandPropose(t) => objs' = objs
  BY DEF AdvancePropose, ExpandPropose
<1> QED BY <1>6, <1>7, <1>8, <1>9, <1>10, OpStepFrame

\* Opening, and the stripe initializer, only seal objects.
LEMMA ClientStepTail ==
    ASSUME TypeInv, TailObjects, NEW c \in Clients, ClientStep(c) \/ Crash(c)
    PROVE  TailObjects'
<1>1. TypeOK
  BY DEF TypeInv
<1>2. BelowKept
  <2>1. wrote' = wrote
    BY ClientStepLog
  <2> QED BY <2>1 DEF BelowKept, BelowTail
<1>3. CASE ProposeSeal(c)
  <2> DEFINE me == opener[c]
             o == <<me.stripe, me.idx>>
             e == me.cur + 1
  <2>1. me.pc = "seal" /\ objs' = [objs EXCEPT ![o] = Seal(objs[o], e).obj]
    BY <1>3 DEF ProposeSeal
  <2>2. o \in Oids /\ e \in 0 .. MaxEpoch + 1
    BY <2>1, OpenerFacts, EpochFacts DEF Opener
  <2> HIDE DEF o, e
  <2> QED BY <1>1, <1>2, <2>1, <2>2, TailSeal
<1>4. CASE InitSeal(c)
  <2> DEFINE j == init_job[c]
             o == <<j.stripe, j.idx>>
             e == j.epoch
  <2>1. objs' = [objs EXCEPT ![o] = Seal(objs[o], e).obj]
    BY <1>4 DEF InitSeal
  <2>2. o \in Oids /\ e \in 0 .. MaxEpoch + 1
    <3>1. j \in Job
      BY <1>1 DEF TypeOK
    <3> QED BY <3>1, EpochFacts DEF Job, Oids
  <2> HIDE DEF o, e
  <2> QED BY <1>1, <1>2, <2>1, <2>2, TailSeal
<1>5. CASE ~ProposeSeal(c) /\ ~InitSeal(c)
  <2>1. OpenFail(c) \/ Crash(c) => objs' = objs
    BY DEF OpenFail, Crash, Gone
  <2>2. RefreshView(c) \/ Open(c) \/ OpenDone(c) \/ InitTake(c) => objs' = objs
    BY Zenon DEF RefreshView, Open, OpenDone, InitTake
  <2>3. ProposeBegin(c) \/ ProposeMaxPos(c) \/ ProposeSequencer(c) \/ ProposeRetry(c)
          => objs' = objs
    BY Zenon DEF ProposeBegin, ProposeMaxPos, ProposeSequencer, ProposeRetry
  <2>4. objs' = objs
    BY <1>5, <2>1, <2>2, <2>3 DEF ClientStep
  <2> QED BY <1>2, <2>4, TailSameObjects
<1> QED BY <1>3, <1>4, <1>5

\* MaxPos reports a position below the tail.
LEMMA MaxPosTail ==
    ASSUME NEW E, NEW x \in LogObject(E), TailObject(x), MaxPosPlus1(x) # 0
    PROVE  BelowTail(MaxPosPlus1(x) - 1)
<1>1. x.maxpos \in Positions /\ x.trim_limit \in Positions \cup {NoLimit}
  BY DEF LogObject
<1>2. x.maxpos \in Nat /\ x.trim_limit \in Int
  BY <1>1, PositionsNat, LimitsInt
<1>3. CASE \A p \in Positions : x.entries[p] = NoEntry
  <2>1. MaxPosPlus1(x) = x.trim_limit + 1
    BY <1>3 DEF MaxPosPlus1
  <2>2. x.trim_limit # NoLimit /\ MaxPosPlus1(x) - 1 = x.trim_limit
    BY <1>2, <2>1 DEF NoLimit
  <2> QED BY <2>2 DEF TailObject
<1>4. CASE ~\A p \in Positions : x.entries[p] = NoEntry
  <2>1. MaxPosPlus1(x) = Larger(x.maxpos, x.trim_limit) + 1
    BY <1>4 DEF MaxPosPlus1
  <2>2. CASE Larger(x.maxpos, x.trim_limit) = x.maxpos
    <3>1. MaxPosPlus1(x) - 1 = x.maxpos
      BY <1>2, <2>1, <2>2
    <3> QED BY <1>4, <3>1 DEF TailObject
  <2>3. CASE x.maxpos < x.trim_limit
    <3>1. MaxPosPlus1(x) - 1 = x.trim_limit /\ x.trim_limit # NoLimit
      BY <1>2, <2>1, <2>3 DEF Larger, NoLimit
    <3> QED BY <3>1 DEF TailObject
  <2> QED BY <2>2, <2>3 DEF Larger
<1> QED BY <1>3, <1>4

\* So seeds are below the tail, or one past it.
LEMMA ClientStepSeeds ==
    ASSUME TypeInv, TailObjects, TailSeeds, NEW c \in Clients,
           ClientStep(c) \/ Crash(c),
           \A d \in Clients : d # c => opener'[d] = opener[d]
    PROVE  TailSeeds'
<1>1. TypeOK /\ opener[c] \in Opener /\ opener \in [Clients -> Opener]
  BY DEF TypeInv, TypeOK
<1>2. wrote' = wrote
  BY ClientStepLog
<1>3. \A p : BelowTail(p) <=> BelowTail(p)'
  BY <1>2 DEF BelowTail
<1>4. CASE opener'[c].seed \in {0, opener[c].seed}
  <2> SUFFICES ASSUME ~PastTail, NEW d \in Clients, NEW s, s = opener'[d].seed, s # 0
               PROVE  BelowTail(s - 1)'
    BY DEF TailSeeds
  <2>1. s = opener[d].seed
    BY <1>4
  <2> QED BY <1>3, <2>1 DEF TailSeeds
<1>5. CASE ProposeMaxPos(c)
  <2> DEFINE me == opener[c]
             o == <<me.stripe, me.idx>>
             m == MaxPosPlus1(objs[o])
             s == Larger(me.seed, m)
  <2>1. o \in Oids /\ me.seed \in PosOrEnd
    BY <1>5, OpenerFacts DEF ProposeMaxPos
  <2>2. PICK x \in LogObject(0 .. MaxEpoch + 1) : x = objs[o]
    BY <1>1, <2>1, ObjectType
  <2>3. m = MaxPosPlus1(x) /\ m \in PosOrEnd
    BY <2>2, MaxPosFacts DEF PosOrEnd
  <2>4. opener'[c].seed = s
    <3>1. \E pc, idx, stripe :
            opener' = [opener EXCEPT ![c] = [me EXCEPT
                         !.pc = pc, !.idx = idx, !.stripe = stripe, !.seed = s]]
      BY <1>5 DEF ProposeMaxPos
    <3> HIDE DEF s
    <3> QED BY <1>1, <3>1 DEF Opener
  <2>5. s = me.seed \/ s = m
    BY DEF Larger
  <2>6. ASSUME ~PastTail, s # 0 PROVE BelowTail(s - 1)
    <3>1. CASE s = me.seed
      BY <2>6, <3>1 DEF TailSeeds
    <3>2. CASE s = m
      <4>1. TailObject(x)
        BY <2>1, <2>2, <2>6 DEF TailObjects
      <4> QED BY <2>3, <2>6, <3>2, <4>1, MaxPosTail
    <3> QED BY <2>5, <3>1, <3>2
  <2> HIDE DEF s
  <2> SUFFICES ASSUME ~PastTail, NEW d \in Clients, NEW z, z = opener'[d].seed, z # 0
               PROVE  BelowTail(z - 1)'
    BY DEF TailSeeds
  <2>7. CASE d = c
    BY <1>3, <2>4, <2>6, <2>7
  <2>8. CASE d # c
    BY <1>3, <2>8 DEF TailSeeds
  <2> QED BY <2>7, <2>8
<1>6. CASE ~ProposeMaxPos(c)
  <2>1. opener'[c].seed \in {0, opener[c].seed}
    <3>1. CASE Open(c)
      BY <1>1, <3>1 DEF Open, NoOpener
    <3>2. CASE ProposeBegin(c)
      <4>1. \E pc, cur, stripe :
              opener' = [opener EXCEPT ![c] = [opener[c] EXCEPT
                  !.pc = pc, !.cur = cur, !.stripe = stripe, !.idx = 0, !.seed = 0]]
        BY <3>2 DEF ProposeBegin
      <4> QED BY <1>1, <4>1 DEF Opener
    <3>3. CASE ProposeSeal(c)
      <4>1. \E pc, idx :
              opener' = [opener EXCEPT ![c] = [opener[c] EXCEPT !.pc = pc, !.idx = idx]]
        BY <3>3 DEF ProposeSeal
      <4> QED BY <1>1, <4>1 DEF Opener
    <3>4. CASE ProposeSequencer(c)
      <4>1. \E pc, ret :
              opener' = [opener EXCEPT ![c] = [opener[c] EXCEPT !.pc = pc, !.ret = ret]]
        BY <3>4 DEF ProposeSequencer
      <4> QED BY <1>1, <4>1 DEF Opener
    <3>5. CASE ProposeRetry(c)
      <4>1. \E pc, ret, n :
              opener' = [opener EXCEPT ![c] = [opener[c] EXCEPT
                           !.pc = pc, !.ret = ret, !.retries = n]]
        BY <3>5 DEF ProposeRetry
      <4> QED BY <1>1, <4>1 DEF Opener
    <3>6. CASE OpenDone(c) \/ OpenFail(c) \/ Crash(c)
      BY <1>1, <3>6 DEF OpenDone, OpenFail, Crash, Gone, NoOpener
    <3>7. CASE RefreshView(c) \/ InitTake(c) \/ InitSeal(c)
      <4>1. opener' = opener
        BY <3>7, Zenon DEF RefreshView, InitTake, InitSeal
      <4> QED BY <4>1
    <3> QED BY <1>6, <3>1, <3>2, <3>3, <3>4, <3>5, <3>6, <3>7 DEF ClientStep
  <2> QED BY <1>4, <2>1
<1> QED BY <1>5, <1>6

-----------------------------------------------------------------------------
(* A superseded sequencer has handed out nothing above its successor's seed *)

\* Further on, a sequencer is fenced as well.
LEMMA FencedMonotone ==
    ASSUME TypeInv', NEW c \in Clients, NEW p \in Nat, NEW q \in Nat, p <= q,
           Fenced(c, p)'
    PROVE  Fenced(c, q)'
<1>1. PICK e \in 1 .. Len(views') :
        /\ views'[e].seq.epoch = e /\ e > ConfigOf(c)'
        /\ p >= views'[e].seq.position
  BY DEF Fenced
<1>2. views'[e].seq.position \in PosOrEnd
  <2>1. views'[e] \in View
    BY DEF TypeInv, TypeOK
  <2> QED BY <2>1 DEF View, SeqConfig
<1>3. views'[e].seq.position \in Int
  BY <1>2, PosOrEndFacts
<1> QED BY <1>1, <1>3 DEF Fenced

\* Steps that install no sequencer.
LEMMA SupersededKept ==
    ASSUME TypeInv, TypeInv', ViewsInv, SeqInv, SupersededFenced, SeqsKept,
           views'[Len(views')].seq.epoch = views[Len(views)].seq.epoch,
           \A c \in Clients : seq[c].epoch = 0 =>
               \/ seq'[c].epoch = 0
               \/ views' = views /\ seq'[c].epoch = Len(views)
    PROVE  SupersededFenced'
<1>1. PICK n : n = views[Len(views)].seq.epoch
  OBVIOUS
<1>2. n \in Int
  BY <1>1, ViewFacts, LatestView, EpochFacts DEF TypeInv
<1> SUFFICES ASSUME ~PastTail, NEW c \in Clients, seq'[c].epoch # 0,
                    n > ConfigOf(c)', NEW q, q = seq'[c].pos
             PROVE  Fenced(c, q)'
  BY <1>1 DEF SupersededFenced
<1>3. CASE seq[c].epoch = 0
  <2>1. ConfigOf(c)' = n
    BY <1>1, <1>3 DEF ConfigOf
  <2> QED BY <1>2, <2>1
<1>4. CASE seq[c].epoch # 0
  <2>1. SeqMoves(c) /\ ViewsKept /\ ~Dies(c)
    BY DEF SeqsKept, Dies, NoSequencer
  <2>2. seq'[c].epoch = seq[c].epoch /\ q >= seq[c].pos
    BY <1>4, <2>1 DEF SeqMoves
  <2>3. seq[c].pos \in Nat /\ q \in Nat
    BY SeqFacts, SeqFactsNext DEF TypeInv
  <2>4. PICK p \in Nat : p = seq[c].pos
    BY <2>3
  <2>5. ConfigOf(c)' = ConfigOf(c)
    <3>1. seq[c].epoch \in 1 .. Len(views)
      BY <1>4, ConfigOfFacts
    <3> QED BY <2>1, <2>2, <3>1 DEF ConfigOf, ViewsKept
  <2>6. Fenced(c, p)
    BY <1>1, <1>4, <2>4, <2>5 DEF SupersededFenced
  <2>7. Fenced(c, p)'
    BY <1>4, <2>1, <2>2, <2>6, FencedStays
  <2> QED BY <2>2, <2>3, <2>4, <2>7, FencedMonotone
<1> QED BY <1>3, <1>4

\* A new sequencer starts at the tail: no sequencer it takes over from has
\* handed out a position above its seed that somebody wrote.
LEMMA SeedBelow ==
    ASSUME TypeInv, ViewsInv, FenceInv, SeqInv, WroteHanded,
           NEW c \in Clients, seq[c].epoch # 0,
           ~(views[Len(views)].seq.epoch > ConfigOf(c)),
           NEW s \in Nat, s # 0 => BelowTail(s - 1)
    PROVE  seq[c].pos >= s
<1> DEFINE p == seq[c].pos
           k == ConfigOf(c)
<1>1. TypeOK /\ p \in Nat /\ TakeoverFences
  BY SeqFacts DEF TypeInv, FenceInv
<1>2. /\ k \in 1 .. Len(views) /\ views[k].seq.epoch = k /\ views[k].seq.token = c
      /\ views[k].seq.position <= p
  BY ConfigOfFacts
<1>3. CASE s = 0
  BY <1>1, <1>3
<1>4. CASE s # 0
  <2>1. PICK q \in Positions : q >= s - 1 /\ wrote[q] # 0
    BY <1>4 DEF BelowTail
  <2>2. q \in Nat
    BY PositionsNat
  <2>3. PICK w : w = wrote[q]
    OBVIOUS
  <2>4. /\ w \in 1 .. Len(views) /\ views[w].seq.epoch = w
        /\ views[w].seq.token = c => q < p
    BY <2>1, <2>3 DEF WroteHanded
  <2>5. w <= k
    <3>1. Len(views) \in 1 .. Len(views) /\ w <= Len(views)
      BY <1>1, <2>4, LatestView
    <3>2. views[w].seq.epoch <= views[Len(views)].seq.epoch
      BY <1>1, <2>4, <3>1, ViewOrder
    <3>3. views[Len(views)].seq.epoch \in Int /\ k \in Int /\ w \in Int
      BY <1>1, <1>2, <2>4, <3>1, ViewFacts, EpochFacts
    <3> QED BY <2>4, <3>2, <3>3
  <2>6. q < p
    <3>1. CASE w = k
      BY <1>2, <2>4, <3>1
    <3>2. CASE w < k
      <4>1. ~(q >= views[k].seq.position)
        BY <1>1, <1>2, <2>1, <2>3, <2>4, <3>2 DEF TakeoverFences
      <4>2. views[k].seq.position \in PosOrEnd
        BY <1>1, <1>2, ViewFacts
      <4>3. views[k].seq.position \in Nat
        BY <4>2, PosOrEndFacts
      <4> QED BY <1>1, <1>2, <2>2, <4>1, <4>3
    <3>3. w \in Int /\ k \in Int
      BY <1>2, <2>4
    <3> QED BY <2>5, <3>1, <3>2, <3>3
  <2> QED BY <1>1, <2>1, <2>2, <2>6
<1> QED BY <1>3, <1>4

\* Installing a sequencer.
LEMMA SupersededInstalled ==
    ASSUME TypeInv, TypeInv', ViewsInv, FenceInv, SeqInv, OrderInv,
           NEW d \in Clients, ProposeSequencer(d), views' # views
    PROVE  SupersededFenced'
<1>1. PICK v : /\ views' = Append(views, v)
               /\ v.seq = [epoch |-> Len(views) + 1, token |-> d,
                           position |-> opener[d].seed]
  BY ProposeSequencerGrows
<1>2. TypeOK /\ seq' = seq /\ WroteHanded /\ TailSeeds /\ SupersededFenced
  BY DEF TypeInv, OrderInv, ProposeSequencer, UnchangedByOpener
<1>3. PICK n \in Nat : n = Len(views)
  BY <1>2 DEF TypeOK
<1>4. /\ Len(views') = n + 1 /\ views'[n + 1] = v
      /\ \A i \in 1 .. n : views'[i] = views[i]
  BY <1>1, <1>2, <1>3, AppendKeeps DEF TypeOK
<1>5. ViewsKept
  BY <1>3, <1>4 DEF ViewsKept
<1>6. PICK s : s = opener[d].seed
  OBVIOUS
<1>7. s \in Nat
  BY <1>2, <1>6, PosOrEndFacts DEF TypeOK, Opener
<1> SUFFICES ASSUME ~PastTail, NEW c \in Clients, seq[c].epoch # 0,
                    NEW p, p = seq[c].pos
             PROVE  Fenced(c, p)'
  BY <1>2 DEF SupersededFenced
<1>8. ConfigOf(c)' = ConfigOf(c) /\ ConfigOf(c) \in 1 .. n
  <2>1. seq[c].epoch \in 1 .. n /\ ConfigOf(c) \in 1 .. n
    BY <1>3, ConfigOfFacts
  <2> QED BY <1>2, <1>4, <2>1 DEF ConfigOf
<1>9. CASE views[Len(views)].seq.epoch > ConfigOf(c)
  <2>1. Fenced(c, p)
    BY <1>2, <1>9 DEF SupersededFenced
  <2> QED BY <1>2, <1>5, <2>1, FencedStays
<1>10. CASE ~(views[Len(views)].seq.epoch > ConfigOf(c))
  <2>1. s # 0 => BelowTail(s - 1)
    BY <1>2, <1>6 DEF TailSeeds
  <2>2. p >= s
    BY <1>2, <1>7, <1>10, <2>1, SeedBelow
  <2>3. /\ n + 1 \in 1 .. Len(views') /\ views'[n + 1].seq.epoch = n + 1
        /\ n + 1 > ConfigOf(c)' /\ p >= views'[n + 1].seq.position
    BY <1>1, <1>3, <1>4, <1>6, <1>8, <2>2
  <2> QED BY <2>3 DEF Fenced
<1> QED BY <1>9, <1>10

\* Steps of clients and threads.
LEMMA ClientStepKept ==
    ASSUME TypeInv, ViewsInv, SeqInv, NEW c \in Clients, ClientStep(c) \/ Crash(c)
    PROVE  SeqsKept
<1>1. ViewsKept
  BY ClientStepLog
<1> QED BY <1>1, ClientStepSeq, DeadStays DEF SeqsKept

\* A client that opens, closes or dies leaves superseded sequencers fenced.
LEMMA ClientStepSuperseded ==
    ASSUME TypeInv, TypeInv', ViewsInv, FenceInv, SeqInv, OrderInv,
           NEW c \in Clients, ClientStep(c) \/ Crash(c)
    PROVE  SupersededFenced'
<1>1. CASE views' # views
  BY <1>1, ClientStepKinds, SupersededInstalled
<1>2. CASE views' = views
  <2>1. ASSUME NEW d \in Clients, seq[d].epoch = 0
        PROVE  seq'[d].epoch = 0 \/ seq'[d].epoch = Len(views)
    <3>1. CASE d # c
      BY <2>1, <3>1, ClientStepKinds
    <3>2. CASE d = c
      <4>1. Refreshes(c) \/ Opens(c) \/ Dies(c) \/ Stays(c)
        BY ClientStepKinds
      <4> QED BY <2>1, <3>2, <4>1 DEF Refreshes, Opens, Dies, Stays, NoSequencer
    <3> QED BY <3>1, <3>2
  <2>2. SupersededFenced
    BY DEF OrderInv
  <2> QED BY <1>2, <2>1, <2>2, ClientStepKept, SupersededKept
<1> QED BY <1>1, <1>2

\* So does a step of an operation.
LEMMA OpStepSuperseded ==
    ASSUME TypeInv, TypeInv', ViewsInv, SeqInv, OrderInv,
           NEW t \in Threads, OpStep(t)
    PROVE  SupersededFenced'
<1>1. SupersededFenced
  BY DEF OrderInv
<1>2. views'[Len(views')].seq.epoch = views[Len(views)].seq.epoch
  <2>1. CASE views' = views
    BY <2>1
  <2>2. ASSUME NEW v, views' = Append(views, v), v.seq = views[Len(views)].seq
        PROVE  views'[Len(views')].seq.epoch = views[Len(views)].seq.epoch
    BY <2>2, AppendKeeps DEF TypeInv, TypeOK
  <2> QED BY <2>1, <2>2, OpStepGrows
<1>3. \A c \in Clients : seq[c].epoch = 0 => seq'[c].epoch = 0
  BY OpStepSeq
<1> QED BY <1>1, <1>2, <1>3, OpStepKept, SupersededKept

-----------------------------------------------------------------------------
(* The invariant and the theorem *)

\* OrderInv is inductive relative to IndInv and SeqInv,
LEMMA OrderNext ==
    IndInv /\ IndInv' /\ SeqInv /\ OrderInv /\ [Next]_vars => OrderInv'
<1> SUFFICES ASSUME IndInv, IndInv', SeqInv, OrderInv, [Next]_vars PROVE OrderInv'
  OBVIOUS
<1>1. TypeInv /\ ViewsInv /\ FenceInv /\ TypeInv'
  BY DEF IndInv
<1>2. /\ ThreadsOrder /\ WroteHanded /\ TailObjects /\ TailSeeds
      /\ SupersededFenced
  BY DEF OrderInv
<1>3. ASSUME NEW c \in Clients, ClientStep(c) \/ Crash(c) PROVE OrderInv'
  <2>1. /\ SeqsKept /\ ViewsKept /\ wrote' = wrote
        /\ \A t \in Threads : th'[t] \in {th[t], Idle}
        /\ \A d \in Clients : SeqMoves(d)
    BY <1>1, <1>3, ClientStepKept, ClientStepLog, ClientStepSeq
  <2>2. BelowKept
    BY <2>1 DEF BelowKept, BelowTail
  <2>3. ThreadsOrder'
    <3> SUFFICES ASSUME NEW u \in Threads PROVE ThreadOrder(u, th[u])'
      BY DEF ThreadsOrder
    <3>1. ThreadOrder(u, th[u]) /\ ClientOf(u) \in Clients
      BY <1>2, ClientOfType DEF ThreadsOrder
    <3> QED BY <1>1, <2>1, <2>2, <3>1, ThreadOrderRests
  <2>4. WroteHanded'
    BY <1>1, <1>2, <2>1, QuietWroteHanded
  <2>5. TailObjects'
    BY <1>1, <1>2, <1>3, ClientStepTail
  <2>6. TailSeeds'
    <3>1. \A d \in Clients : d # c => opener'[d] = opener[d]
      BY <1>1, <1>3, ClientStepKinds
    <3> QED BY <1>1, <1>2, <1>3, <3>1, ClientStepSeeds
  <2>7. SupersededFenced'
    BY <1>1, <1>3, ClientStepSuperseded
  <2> QED BY <2>3, <2>4, <2>5, <2>6, <2>7 DEF OrderInv
<1>4. ASSUME NEW t \in Threads, OpStep(t) PROVE OrderInv'
  <2>1. SeqsKept /\ ViewsKept /\ BelowKept
    BY <1>1, <1>4, OpStepKept, OpStepViews, OpStepWrote, BelowStays
  <2>2. opener' = opener /\ \A u \in Threads : u # t => th'[u] = th[u]
    BY <1>1, <1>4, OpStepFrame
  <2>3. ThreadsOrder'
    <3> SUFFICES ASSUME NEW u \in Threads PROVE ThreadOrder(u, th[u])'
      BY DEF ThreadsOrder
    <3>1. CASE u = t
      BY <1>1, <1>4, <3>1, MovingOrder
    <3>2. CASE u # t
      <4>1. ThreadOrder(u, th[u]) /\ SeqMoves(ClientOf(u))
        BY <1>2, <2>1, ClientOfType DEF ThreadsOrder, SeqsKept
      <4> QED BY <1>1, <2>1, <2>2, <3>2, <4>1, ThreadOrderRests
    <3> QED BY <3>1, <3>2
  <2>4. WroteHanded' /\ TailObjects' /\ SupersededFenced'
    BY <1>1, <1>4, OpStepHanded, OpStepTail, OpStepSuperseded
  <2>5. TailSeeds'
    <3> SUFFICES ASSUME ~PastTail, NEW d \in Clients, NEW s, s = opener'[d].seed, s # 0
                 PROVE  BelowTail(s - 1)'
      BY DEF TailSeeds
    <3>1. BelowTail(s - 1)
      BY <1>2, <2>2 DEF TailSeeds
    <3> QED BY <2>1, <3>1 DEF BelowKept
  <2> QED BY <2>3, <2>4, <2>5 DEF OrderInv
<1>5. CASE UserStep \/ UNCHANGED vars
  <2>1. /\ UNCHANGED <<views, objs, status, seq, opener, wrote>>
        /\ \A u \in Threads : th'[u] = th[u] \/ ThreadOrder(u, th[u])'
    <3>1. CASE UserStep
      <4>1. PICK t \in Threads, op \in OpKinds, p \in Positions : StartOp(t, op, p)
        BY <3>1, UserStepStarts
      <4>2. /\ UNCHANGED <<views, objs, status, seq, opener, wrote>>
            /\ \A u \in Threads : u # t => th'[u] = th[u]
        BY <1>1, <4>1, StartOpLog
      <4>3. ThreadOrder(t, th[t])'
        BY <1>1, <4>1, StartingOrder
      <4> QED BY <4>2, <4>3
    <3>2. CASE UNCHANGED vars
      BY <3>2 DEF vars
    <3> QED BY <1>5, <3>1, <3>2
  <2>2. SeqsKept
    <3>1. \A c \in Clients : seq[c].pos \in Nat
      BY <1>1, SeqFacts DEF TypeInv
    <3>2. Len(views) \in Nat
      BY <1>1 DEF TypeInv, TypeOK
    <3> QED BY <2>1, <3>1, <3>2 DEF SeqsKept, ViewsKept, SeqMoves
  <2>3. BelowKept
    BY <2>1 DEF BelowKept, BelowTail
  <2>4. ThreadsOrder'
    <3> SUFFICES ASSUME NEW u \in Threads, th'[u] = th[u] PROVE ThreadOrder(u, th[u])'
      BY <2>1 DEF ThreadsOrder
    <3>1. ThreadOrder(u, th[u]) /\ SeqMoves(ClientOf(u)) /\ ViewsKept
      BY <1>2, <2>2, ClientOfType DEF ThreadsOrder, SeqsKept
    <3> QED BY <1>1, <2>3, <3>1, ThreadOrderRests
  <2>5. WroteHanded'
    BY <1>1, <1>2, <2>1, <2>2, QuietWroteHanded
  <2>6. TailObjects'
    BY <1>2, <2>1, <2>3, TailSameObjects
  <2>7. TailSeeds'
    BY <1>2, <2>1 DEF TailSeeds, BelowTail
  <2>8. SupersededFenced'
    BY <1>2, <2>1 DEF SupersededFenced, Fenced, ConfigOf
  <2> QED BY <2>4, <2>5, <2>6, <2>7, <2>8 DEF OrderInv
<1> QED BY <1>3, <1>4, <1>5 DEF Next

\* and holds initially.
LEMMA OrderInit == Init => OrderInv
<1> SUFFICES ASSUME Init PROVE OrderInv
  OBVIOUS
<1>1. ThreadsOrder
  BY IdleOp DEF Init, ThreadsOrder, ThreadOrder
<1>2. WroteHanded
  BY DEF Init, WroteHanded
<1>3. TailObjects
  BY DEF Init, TailObjects, TailObject, Absent
<1>4. TailSeeds
  BY DEF Init, TailSeeds, NoOpener
<1>5. SupersededFenced
  BY DEF Init, SupersededFenced, NoSequencer
<1> QED BY <1>1, <1>2, <1>3, <1>4, <1>5 DEF OrderInv

\* So it holds always.
LEMMA OrderInvAlways == Spec => [](IndInv /\ SeqInv /\ OrderInv)
<1>1. Init => IndInv /\ SeqInv /\ OrderInv
  BY TypeInit, FenceInit, SeqInit, OrderInit DEF IndInv
<1>2. IndInv /\ SeqInv /\ OrderInv /\ [Next]_vars => (IndInv /\ SeqInv /\ OrderInv)'
  BY FenceNext, SeqNext, OrderNext
<1> QED BY <1>1, <1>2, PTL DEF Spec

\* If users fill and trim only below the log's tail, an append that began after
\* another one wrote its position gets a larger position, whatever clients take
\* over from one another, lag behind or crash in between.  (If they may consume
\* positions past the tail, takeovers can reorder appends: see the run that
\* refutes AppendOrder.)
THEOREM AppendsOrdered == ~PastTail => (Spec => []AppendOrder)
<1> SUFFICES ASSUME ~PastTail PROVE Spec => []AppendOrder
  OBVIOUS
<1>1. OrderInv => AppendOrder
  <2>1. Finishers \subseteq Threads
    BY DEF Threads
  <2> QED BY <2>1 DEF OrderInv, ThreadsOrder, ThreadOrder, AppendOrder
<1> QED BY <1>1, OrderInvAlways, PTL
==============================================================================
