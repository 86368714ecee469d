-------------------------------- MODULE ZLog ---------------------------------
(***************************************************************************)
(* One log shared by several client processes: the view history and the    *)
(* log objects in storage, and in every process the cached view, the       *)
(* sequencer, the opening thread, the finisher threads that run log        *)
(* operations, the view expander and the stripe initializer                *)
(* (libzlog/log_impl.cc, view_manager.cc, view_reader.cc, log.cc).         *)
(*                                                                         *)
(* A step is one call to the backend, one access to the cached view or the *)
(* sequencer, or one wait that ends; everything a thread does between two  *)
(* of these is local to it.  A process may crash between any two steps.    *)
(* How a refresh reads the view and wakes its waiters is abstracted to one *)
(* step here: the cached view may lag behind storage for arbitrarily long. *)
(***************************************************************************)
EXTENDS Backend, FiniteSets

CONSTANTS
    Clients,         \* log instances; each opens the log once (unique token)
    NoToken,         \* the token of a view without a sequencer
    Creator,         \* the client whose CreateLog made the log
    Finishers,       \* finisher threads: pairs of a client and a number
    MaxEpoch,        \* bound: views in the history
    InitialStripes,  \* Options::create_initial_view_stripes: 0 or 1 stripe
    InitStripes,     \* Options::init_stripe_on_create
    ExpandRetries,   \* `retries' of try_expand_view
    ProposeRetries,  \* `retries' of propose_sequencer
    OpKinds,         \* operations the users call
    OpPositions,     \* positions they pass to them
    PastTail,        \* do users fill and trim positions past the log's tail?
    MayCrash         \* clients that may crash

ASSUME ZLogAssumption ==
    /\ NoToken \notin Clients
    /\ Creator \in Clients
    /\ Finishers \subseteq Clients \X (Nat \ {0})
    /\ MaxEpoch \in Nat \ {0}
    /\ InitialStripes \in {0, 1}
    /\ InitStripes \in BOOLEAN
    /\ ExpandRetries \in Nat \ {0}
    /\ ProposeRetries \in Nat \ {0}
    /\ OpKinds \subseteq {"append", "tail", "read", "fill", "trim", "trimTo"}
    /\ OpPositions \subseteq Positions
    /\ PastTail \in BOOLEAN
    /\ MayCrash \subseteq Clients

VARIABLES
    views,       \* the head object: views[e] was accepted at epoch e
    objs,        \* the log objects
    status,      \* where each client is between closed and open
    cview,       \* ViewReader::view_, the epoch of the cached view
    seq,         \* the client's Sequencer object
    expand_pos,  \* ViewManager::expand_pos_
    init_q,      \* ViewManager::stripe_init_pos_
    init_job,    \* the stripe the initializer is sealing
    opener,      \* local state of propose_sequencer
    th,          \* local state of finisher threads and of the expander
    nops,        \* log operations started so far
    wrote,       \* history: config epoch of the append that wrote a position
    asked,       \* history: positions users have asked to trim
    trimmed_to   \* history: largest position a completed trimTo was given

vars == <<views, objs, status, cview, seq, expand_pos, init_q, init_job,
          opener, th, nops, wrote, asked, trimmed_to>>

history == <<wrote, asked, trimmed_to>>

Epochs == 0 .. MaxEpoch
NoPos == -1
PosOrEnd == 0 .. (MaxStripes * StripeSize)

Expander == 0
Threads == Finishers \cup (Clients \X {Expander})
ClientOf(t) == t[1]

-----------------------------------------------------------------------------
(* State *)

\* SequencerConfig; epoch 0 is boost::none
SeqConfig == [epoch : Epochs, token : Clients \cup {NoToken},
              position : PosOrEnd]
NoSeqConfig == [epoch |-> 0, token |-> NoToken, position |-> 0]

\* View: its object map (number of stripes, min_valid_position) and sequencer
View == [inst : 0 .. MaxStripes, min_valid : PosOrEnd, seq : SeqConfig]

\* Sequencer; epoch 0 is a null pointer
NoSequencer == [epoch |-> 0, pos |-> 0]

NoOpener == [pc |-> "none", cur |-> 0, stripe |-> 0, idx |-> 0,
             seed |-> 0, ret |-> "OK", retries |-> 0]

NoJob == [epoch |-> 0, stripe |-> 0, idx |-> 0]

Idle == [pc |-> "idle", op |-> "none", pos |-> 0, data |-> 0, view |-> 0,
         position_epoch |-> 0, cur |-> 0, retries |-> 0, stripe |-> 0,
         idx |-> 0, ret |-> "OK", floor |-> 0, seen |-> NoEntry]

PcValues == {"idle", "view", "tail", "io", "seal", "wait", "expand", "propose",
             "ewait", "advance", "apropose", "trim", "done", "xview", "xclear"}

RetValues == {"OK", "ENOENT", "ESPIPE", "EROFS", "ENODATA", "EIO"}

Sequencer == [epoch : Epochs, pos : PosOrEnd]

Job == [epoch : Epochs, stripe : StripeIds, idx : Indexes]

Opener ==
    [pc : {"none", "begin", "seal", "maxpos", "propose", "wait"},
     cur : Epochs, stripe : StripeIds, idx : Indexes, seed : PosOrEnd,
     ret : {"OK", "ESPIPE"}, retries : 0 .. ProposeRetries]

Thread ==
    [pc : PcValues, op : OpKinds \cup {"none"}, pos : PosOrEnd,
     data : 0 .. MaxOps, view : Epochs, position_epoch : Epochs,
     cur : Epochs, retries : 0 .. ExpandRetries,
     stripe : 0 .. MaxStripes, idx : Indexes, ret : RetValues,
     floor : PosOrEnd, seen : Entries]

TypeOK ==
    /\ views \in Seq(View) /\ Len(views) \in 1 .. MaxEpoch
    /\ objs \in [Oids -> LogObject(0 .. MaxEpoch + 1)]
    /\ status \in [Clients -> {"closed", "opening", "open", "failed", "crashed"}]
    /\ cview \in [Clients -> Epochs]
    /\ seq \in [Clients -> Sequencer]
    /\ expand_pos \in [Clients -> Positions \cup {NoPos}]
    /\ init_q \in [Clients -> Seq(Positions)]
    /\ init_job \in [Clients -> Job]
    /\ opener \in [Clients -> Opener]
    /\ th \in [Threads -> Thread]
    /\ nops \in 0 .. MaxOps
    /\ wrote \in [Positions -> Epochs]
    /\ asked \subseteq Positions
    /\ trimmed_to \in Positions \cup {NoPos}

Init ==
    /\ views = <<[inst |-> InitialStripes, min_valid |-> 0, seq |-> NoSeqConfig]>>
    /\ objs = [o \in Oids |-> Absent]
    /\ status = [c \in Clients |-> "closed"]
    /\ cview = [c \in Clients |-> 0]
    /\ seq = [c \in Clients |-> NoSequencer]
    /\ expand_pos = [c \in Clients |-> NoPos]
    /\ init_q = [c \in Clients |-> <<>>]
    /\ init_job = [c \in Clients |-> NoJob]
    /\ opener = [c \in Clients |-> NoOpener]
    /\ th = [t \in Threads |-> Idle]
    /\ nops = 0
    /\ wrote = [p \in Positions |-> 0]
    /\ asked = {}
    /\ trimmed_to = NoPos

\* What a reader of the log would be told of a position: the entry, or Junk
\* where it was filled or trimmed.
LogEntry(p) ==
    IF Trimmed(objs[Oid(p)], p) THEN Junk ELSE objs[Oid(p)].entries[p]

\* One past the last position an append wrote.
LogTail ==
    CHOOSE n \in PosOrEnd :
        /\ \A p \in Positions : wrote[p] # 0 => p < n
        /\ n = 0 \/ wrote[n - 1] # 0

-----------------------------------------------------------------------------
(* ViewReader: refresh_view installs the latest view.  A client becomes a   *)
(* sequencer when the view names its token; it keeps the Sequencer it has   *)
(* when the cached view carried the very same sequencer config.             *)

\* Seeded fault: the new view's epoch is compared, not its config's.
FaultySameSequencer(c, old, new) ==
    /\ old # 0
    /\ views[old].seq.token = c
    /\ views[old].seq.epoch = new

SameSequencer(c, old, new) ==
    /\ old # 0
    /\ views[old].seq.token = c
    /\ views[old].seq.epoch = views[new].seq.epoch

RefreshedSeq(c, old, new) ==
    IF views[new].seq.token # c \/ SameSequencer(c, old, new) THEN seq[c]
    ELSE [epoch |-> new, pos |-> views[new].seq.position]

\* Seeded fault: views are only refreshed once the log is open.
FaultyRefreshView(c) ==
    /\ status[c] = "open"
    /\ cview[c] < Len(views)
    /\ cview' = [cview EXCEPT ![c] = Len(views)]
    /\ seq' = [seq EXCEPT ![c] = RefreshedSeq(c, cview[c], Len(views))]
    /\ UNCHANGED <<views, objs, status, expand_pos, init_q, init_job, opener,
                   th, nops, history>>

RefreshView(c) ==
    /\ status[c] \in {"opening", "open"}
    /\ cview[c] < Len(views)
    /\ cview' = [cview EXCEPT ![c] = Len(views)]
    /\ seq' = [seq EXCEPT ![c] = RefreshedSeq(c, cview[c], Len(views))]
    /\ UNCHANGED <<views, objs, status, expand_pos, init_q, init_job, opener,
                   th, nops, history>>

\* VersionedView::seq of the view the thread holds is not null.
HasSeq(c, epoch) == views[epoch].seq.token = c

-----------------------------------------------------------------------------
(* Opening the log: build_log_impl and ViewManager::propose_sequencer.      *)

\* create_or_open has found the log; the reader's first refresh_view.
Open(c) ==
    /\ status[c] = "closed"
    /\ status' = [status EXCEPT ![c] = "opening"]
    /\ cview' = [cview EXCEPT ![c] = Len(views)]
    /\ seq' = [seq EXCEPT ![c] = RefreshedSeq(c, 0, Len(views))]
    /\ opener' = [opener EXCEPT ![c] = [NoOpener EXCEPT
                    !.pc = "begin", !.retries = ProposeRetries]]
    /\ UNCHANGED <<views, objs, expand_pos, init_q, init_job, th, nops,
                   history>>

UnchangedByOpener == UNCHANGED <<status, cview, seq, expand_pos, init_q,
                                 init_job, th, nops, history>>

\* The top of propose_sequencer's loop: remember the current view and start at
\* its last stripe, if it has one.
ProposeBegin(c) ==
    /\ opener[c].pc = "begin"
    /\ LET inst == views[cview[c]].inst IN
       opener' = [opener EXCEPT ![c] = [@ EXCEPT
                    !.pc = IF inst = 0 THEN "propose" ELSE "seal",
                    !.cur = cview[c],
                    !.stripe = IF inst = 0 THEN 0 ELSE inst - 1,
                    !.idx = 0,
                    !.seed = 0]]
    /\ UNCHANGED <<views, objs>>
    /\ UnchangedByOpener

\* Seeded fault: stripes are sealed with the epoch of the view that is replaced.
FaultyProposeSeal(c) ==
    /\ opener[c].pc = "seal"
    /\ LET me == opener[c]
           o == <<me.stripe, me.idx>>
           last == me.idx = Width - 1 IN
       /\ objs' = [objs EXCEPT ![o] = Seal(@, me.cur).obj]
       /\ opener' = [opener EXCEPT ![c] = [@ EXCEPT
                       !.pc = IF last THEN "maxpos" ELSE "seal",
                       !.idx = IF last THEN 0 ELSE me.idx + 1]]
    /\ UNCHANGED views
    /\ UnchangedByOpener

\* seal_stripe, first loop: ESPIPE is ignored.
ProposeSeal(c) ==
    /\ opener[c].pc = "seal"
    /\ LET me == opener[c]
           o == <<me.stripe, me.idx>>
           last == me.idx = Width - 1 IN
       /\ objs' = [objs EXCEPT ![o] = Seal(@, me.cur + 1).obj]
       /\ opener' = [opener EXCEPT ![c] = [@ EXCEPT
                       !.pc = IF last THEN "maxpos" ELSE "seal",
                       !.idx = IF last THEN 0 ELSE me.idx + 1]]
    /\ UNCHANGED views
    /\ UnchangedByOpener

\* seal_stripe, second loop, and the test after it: stop at the first stripe
\* that is not empty, else go on with the one before.
ProposeMaxPos(c) ==
    /\ opener[c].pc = "maxpos"
    /\ LET me == opener[c]
           seed == Larger(me.seed, MaxPosPlus1(objs[<<me.stripe, me.idx>>]))
           last == me.idx = Width - 1
           stop == seed > 0 \/ me.stripe = 0 IN
       opener' = [opener EXCEPT ![c] = [@ EXCEPT
                    !.pc = IF ~last THEN "maxpos"
                           ELSE IF stop THEN "propose" ELSE "seal",
                    !.idx = IF last THEN 0 ELSE me.idx + 1,
                    !.stripe = IF last /\ ~stop THEN me.stripe - 1
                               ELSE me.stripe,
                    !.seed = seed]]
    /\ UNCHANGED <<views, objs>>
    /\ UnchangedByOpener

WithSequencer(v, c, epoch, position) ==
    [v EXCEPT !.seq = [epoch |-> epoch, token |-> c, position |-> position]]

ProposeSequencer(c) ==
    /\ opener[c].pc = "propose"
    /\ LET me == opener[c]
           next == me.cur + 1
           v == WithSequencer(views[me.cur], c, next, me.seed) IN
       /\ next <= MaxEpoch
       /\ views' = ProposeView(views, next, v)
       /\ opener' = [opener EXCEPT ![c] = [@ EXCEPT
                       !.pc = "wait", !.ret = ProposeRet(views, next)]]
    /\ UNCHANGED objs
    /\ UnchangedByOpener

\* The proposal was accepted and a view newer than the old one is cached.
OpenDone(c) ==
    /\ opener[c].pc = "wait" /\ cview[c] > opener[c].cur
    /\ opener[c].ret = "OK"
    /\ status' = [status EXCEPT ![c] = "open"]
    /\ opener' = [opener EXCEPT ![c] = NoOpener]
    /\ init_q' = [init_q EXCEPT ![c] =
                    IF InitStripes /\ c = Creator /\ views[cview[c]].inst > 0
                    THEN Append(@, 0) ELSE @]
    /\ UNCHANGED <<views, objs, cview, seq, expand_pos, init_job, th, nops,
                   history>>

\* The heuristics for a lost proposal: retry unless there is a new sequencer.
SequencerUnchanged(c) ==
    \/ views[cview[c]].seq = NoSeqConfig
    \/ views[cview[c]].seq = views[opener[c].cur].seq

ProposeRetry(c) ==
    /\ opener[c].pc = "wait" /\ cview[c] > opener[c].cur
    /\ opener[c].ret = "ESPIPE"
    /\ SequencerUnchanged(c)
    /\ opener[c].retries > 1
    /\ opener' = [opener EXCEPT ![c] = [@ EXCEPT
                    !.pc = "begin", !.ret = "OK",
                    !.retries = opener[c].retries - 1]]
    /\ UNCHANGED <<views, objs>>
    /\ UnchangedByOpener

\* A process that is gone leaves nothing behind but what it stored.
Gone(c, why) ==
    /\ status' = [status EXCEPT ![c] = why]
    /\ cview' = [cview EXCEPT ![c] = 0]
    /\ seq' = [seq EXCEPT ![c] = NoSequencer]
    /\ expand_pos' = [expand_pos EXCEPT ![c] = NoPos]
    /\ init_q' = [init_q EXCEPT ![c] = <<>>]
    /\ init_job' = [init_job EXCEPT ![c] = NoJob]
    /\ opener' = [opener EXCEPT ![c] = NoOpener]
    /\ th' = [t \in Threads |-> IF ClientOf(t) = c THEN Idle ELSE th[t]]
    /\ UNCHANGED <<views, objs, nops, history>>

\* Log::Open fails: EINTR when there is a new sequencer, ETIMEDOUT when the
\* retries are used up.
OpenFail(c) ==
    /\ opener[c].pc = "wait" /\ cview[c] > opener[c].cur
    /\ opener[c].ret = "ESPIPE"
    /\ ~SequencerUnchanged(c) \/ opener[c].retries = 1
    /\ Gone(c, "failed")

Crash(c) ==
    /\ c \in MayCrash
    /\ status[c] \in {"opening", "open"}
    /\ Gone(c, "crashed")

-----------------------------------------------------------------------------
(* Log operations: LogOp::run of each kind, on a finisher thread.           *)

UnchangedByOp == UNCHANGED <<status, cview, init_job, opener, nops>>

Goto(t, pc) == th' = [th EXCEPT ![t] = [@ EXCEPT !.pc = pc]]

\* A finisher takes a queued operation and calls run().
StartOp(t, op, p) ==
    /\ t \in Finishers
    /\ status[ClientOf(t)] = "open"
    /\ th[t].pc = "idle"
    /\ nops < MaxOps
    /\ op \in {"fill", "trim", "trimTo"} => PastTail \/ p < LogTail
    /\ nops' = nops + 1
    /\ th' = [th EXCEPT ![t] = [Idle EXCEPT
                !.pc = "view", !.op = op, !.pos = p, !.data = nops + 1,
                !.floor = LogTail, !.seen = LogEntry(p)]]
    /\ asked' = CASE op = "trim" -> asked \cup {p}
                  [] op = "trimTo" -> asked \cup 0 .. p
                  [] OTHER -> asked
    /\ UNCHANGED <<views, objs, status, cview, seq, expand_pos, init_q,
                   init_job, opener, wrote, trimmed_to>>

\* ViewManager::map under the view of the given epoch: where the operation
\* goes next, and the background expansion it asks for when the position lies
\* in the last stripe (async_expand_view keeps the larger request).
MapNext(epoch, p) == IF Mapped(views[epoch].inst, p) THEN "io" ELSE "expand"

AsyncExpand(c, epoch, p) ==
    IF InLastStripe(views[epoch].inst, p) /\ views[epoch].inst < MaxStripes
    THEN [expand_pos EXCEPT ![c] =
            Larger(@, MaxPosition(views[epoch].inst) + 1)]
    ELSE expand_pos

\* Append and CheckTail read the view and need a sequencer, else EIO.  An
\* append that holds a position of this very sequencer keeps it.
SeqGetView(t) ==
    /\ th[t].pc = "view" /\ th[t].op \in {"append", "tail"}
    /\ LET c == ClientOf(t)
           e == cview[c]
           keep == th[t].position_epoch = seq[c].epoch IN
       IF ~HasSeq(c, e)
       THEN /\ th' = [th EXCEPT ![t] = [@ EXCEPT
                        !.pc = "done", !.ret = "EIO", !.view = e]]
            /\ UNCHANGED expand_pos
       ELSE IF keep
       THEN /\ th' = [th EXCEPT ![t] = [@ EXCEPT
                        !.pc = MapNext(e, th[t].pos), !.view = e,
                        !.retries = ExpandRetries]]
            /\ expand_pos' = AsyncExpand(c, e, th[t].pos)
       ELSE /\ th' = [th EXCEPT ![t] = [@ EXCEPT !.pc = "tail", !.view = e]]
            /\ UNCHANGED expand_pos
    /\ UNCHANGED <<views, objs, seq, init_q, history>>
    /\ UnchangedByOp

\* AppendOp: Sequencer::check_tail(true), then map the position.
AppendTail(t) ==
    /\ th[t].pc = "tail" /\ th[t].op = "append"
    /\ LET c == ClientOf(t)
           p == seq[c].pos IN
       /\ p \in Positions
       /\ seq' = [seq EXCEPT ![c].pos = p + 1]
       /\ th' = [th EXCEPT ![t] = [@ EXCEPT
                   !.pc = MapNext(th[t].view, p), !.pos = p,
                   !.position_epoch = seq[c].epoch,
                   !.retries = ExpandRetries]]
       /\ expand_pos' = AsyncExpand(c, th[t].view, p)
    /\ UNCHANGED <<views, objs, init_q, history>>
    /\ UnchangedByOp

\* TailOp: Sequencer::check_tail(false).
CheckTail(t) ==
    /\ th[t].pc = "tail" /\ th[t].op = "tail"
    /\ th' = [th EXCEPT ![t] = [@ EXCEPT
                !.pc = "done", !.pos = seq[ClientOf(t)].pos]]
    /\ UNCHANGED <<views, objs, seq, expand_pos, init_q, history>>
    /\ UnchangedByOp

\* ReadOp, FillOp, TrimOp: read the view and map the position.
PosGetView(t) ==
    /\ th[t].pc = "view" /\ th[t].op \in {"read", "fill", "trim"}
    /\ LET c == ClientOf(t)
           e == cview[c] IN
       /\ th' = [th EXCEPT ![t] = [@ EXCEPT
                   !.pc = MapNext(e, th[t].pos), !.view = e,
                   !.retries = ExpandRetries]]
       /\ expand_pos' = AsyncExpand(c, e, th[t].pos)
    /\ UNCHANGED <<views, objs, seq, init_q, history>>
    /\ UnchangedByOp

\* What every operation does with a return code of the backend: a stale epoch
\* waits for a newer view, a missing object is initialized, anything else is
\* the operation's result.
AfterIo(me, ret) ==
    CASE ret = "ESPIPE" -> [me EXCEPT !.pc = "wait", !.cur = me.view]
      [] ret = "ENOENT" -> [me EXCEPT !.pc = "seal"]
      [] OTHER -> [me EXCEPT !.pc = "done", !.ret = ret]

\* Seeded fault: the backend's code for an unwritten position is passed on.
FaultyReadIo(t) ==
    /\ th[t].pc = "io" /\ th[t].op = "read"
    /\ th' = [th EXCEPT ![t] =
                AfterIo(@, Read(objs[Oid(@.pos)], @.view, @.pos))]
    /\ UNCHANGED <<views, objs, seq, expand_pos, init_q, history>>
    /\ UnchangedByOp

ReadIo(t) ==
    /\ th[t].pc = "io" /\ th[t].op = "read"
    /\ LET me == th[t]
           ret == Read(objs[Oid(me.pos)], me.view, me.pos) IN
       th' = [th EXCEPT ![t] =
                IF ret = "ERANGE"
                THEN [me EXCEPT !.pc = "done", !.ret = "ENOENT"]
                ELSE AfterIo(me, ret)]
    /\ UNCHANGED <<views, objs, seq, expand_pos, init_q, history>>
    /\ UnchangedByOp

\* AppendOp's write.  EROFS: the position was taken, get another one.
WriteIo(t) ==
    /\ th[t].pc = "io" /\ th[t].op = "append"
    /\ LET me == th[t]
           res == Write(objs[Oid(me.pos)], me.view, me.pos, me.data) IN
       /\ objs' = [objs EXCEPT ![Oid(me.pos)] = res.obj]
       /\ th' = [th EXCEPT ![t] =
                   IF res.ret = "EROFS"
                   THEN [me EXCEPT !.pc = "view", !.position_epoch = 0]
                   ELSE AfterIo(me, res.ret)]
       /\ wrote' = IF res.ret = "OK"
                   THEN [wrote EXCEPT ![me.pos] = views[me.view].seq.epoch]
                   ELSE wrote
    /\ UNCHANGED <<views, seq, expand_pos, init_q, asked, trimmed_to>>
    /\ UnchangedByOp

FillIo(t) ==
    /\ th[t].pc = "io" /\ th[t].op = "fill"
    /\ LET me == th[t]
           res == Fill(objs[Oid(me.pos)], me.view, me.pos) IN
       /\ objs' = [objs EXCEPT ![Oid(me.pos)] = res.obj]
       /\ th' = [th EXCEPT ![t] = AfterIo(me, res.ret)]
    /\ UNCHANGED <<views, seq, expand_pos, init_q, history>>
    /\ UnchangedByOp

TrimIo(t) ==
    /\ th[t].pc = "io" /\ th[t].op = "trim"
    /\ LET me == th[t]
           res == Trim(objs[Oid(me.pos)], me.view, me.pos) IN
       /\ objs' = [objs EXCEPT ![Oid(me.pos)] = res.obj]
       /\ th' = [th EXCEPT ![t] = AfterIo(me, res.ret)]
    /\ UNCHANGED <<views, seq, expand_pos, init_q, history>>
    /\ UnchangedByOp

\* The object an operation works on: trimTo walks over the stripes.
Target(me) == IF me.op = "trimTo" THEN <<me.stripe, me.idx>> ELSE Oid(me.pos)

\* Seeded fault: a Seal that lost a race waits for a newer view, the mistake
\* AppendOp::run's comment suggests trying in a model.
FaultySealObject(t) ==
    /\ th[t].pc = "seal"
    /\ LET me == th[t]
           res == Seal(objs[Target(me)], me.view) IN
       /\ objs' = [objs EXCEPT ![Target(me)] = res.obj]
       /\ th' = [th EXCEPT ![t] =
                   IF res.ret = "ESPIPE" THEN AfterIo(me, "ESPIPE")
                   ELSE [me EXCEPT !.pc = "view"]]
    /\ UNCHANGED <<views, seq, expand_pos, init_q, history>>
    /\ UnchangedByOp

\* A missing object is sealed with the view's epoch.  The append retries its
\* write when that succeeds; ESPIPE, and every other operation, starts over
\* with the current view, without waiting for a newer one.
SealObject(t) ==
    /\ th[t].pc = "seal"
    /\ LET me == th[t]
           res == Seal(objs[Target(me)], me.view) IN
       /\ objs' = [objs EXCEPT ![Target(me)] = res.obj]
       /\ Goto(t, IF me.op = "append" /\ res.ret = "OK" THEN "io" ELSE "view")
    /\ UNCHANGED <<views, seq, expand_pos, init_q, history>>
    /\ UnchangedByOp

\* ViewReader::wait_for_newer_view returns.
WaitDone(t) ==
    /\ th[t].pc = "wait" /\ cview[ClientOf(t)] > th[t].cur
    /\ th' = [th EXCEPT ![t] = [@ EXCEPT !.pc = "view", !.cur = 0]]
    /\ UNCHANGED <<views, objs, seq, expand_pos, init_q, history>>
    /\ UnchangedByOp

-----------------------------------------------------------------------------
(* TrimToOp: first record the new lower bound of the log in a view, then    *)
(* trim object after object.                                                *)

TrimToGetView(t) ==
    /\ th[t].pc = "view" /\ th[t].op = "trimTo"
    /\ LET me == th[t]
           e == cview[ClientOf(t)]
           next == IF me.pos >= views[e].min_valid THEN "advance"
                   ELSE IF Mapped(views[e].inst, me.pos) THEN "trim"
                   ELSE "expand" IN
       th' = [th EXCEPT ![t] = [@ EXCEPT
                !.pc = next, !.view = e, !.stripe = 0, !.idx = 0,
                !.retries = ExpandRetries]]
    /\ UNCHANGED <<views, objs, seq, expand_pos, init_q, history>>
    /\ UnchangedByOp

\* ViewManager::advance_min_valid_position reads the view again,
AdvanceRead(t) ==
    /\ th[t].pc = "advance"
    /\ LET e == cview[ClientOf(t)] IN
       th' = [th EXCEPT ![t] = [@ EXCEPT
                !.pc = IF th[t].pos + 1 <= views[e].min_valid THEN "view"
                       ELSE "apropose",
                !.cur = e]]
    /\ UNCHANGED <<views, objs, seq, expand_pos, init_q, history>>
    /\ UnchangedByOp

\* and proposes it with a larger bound; won or lost, it waits for a newer view.
AdvancePropose(t) ==
    /\ th[t].pc = "apropose"
    /\ LET me == th[t] IN
       /\ me.cur + 1 <= MaxEpoch
       /\ views' = ProposeView(views, me.cur + 1,
                     [views[me.cur] EXCEPT !.min_valid = me.pos + 1])
    /\ Goto(t, "wait")
    /\ UNCHANGED <<objs, seq, expand_pos, init_q, history>>
    /\ UnchangedByOp

MoreToTrim(me) ==
    /\ me.stripe < views[me.view].inst
    /\ InTrimRange(me.stripe, me.idx, me.pos)

\* Seeded fault: an object that does not exist has nothing to trim.
FaultyTrimToIo(t) ==
    /\ th[t].pc = "trim"
    /\ MoreToTrim(th[t])
    /\ LET me == th[t]
           res == TrimLimit(objs[Target(me)], me.view, me.pos,
                            FullyTrimmed(me.stripe, me.idx, me.pos))
           last == me.idx = Width - 1 IN
       /\ objs' = [objs EXCEPT ![Target(me)] = res.obj]
       /\ th' = [th EXCEPT ![t] =
                   IF res.ret \in {"OK", "ENOENT"}
                   THEN [me EXCEPT !.idx = IF last THEN 0 ELSE @ + 1,
                                   !.stripe = IF last THEN @ + 1 ELSE @]
                   ELSE AfterIo(me, res.ret)]
    /\ UNCHANGED <<views, seq, expand_pos, init_q, history>>
    /\ UnchangedByOp

TrimToIo(t) ==
    /\ th[t].pc = "trim"
    /\ MoreToTrim(th[t])
    /\ LET me == th[t]
           res == TrimLimit(objs[Target(me)], me.view, me.pos,
                            FullyTrimmed(me.stripe, me.idx, me.pos))
           last == me.idx = Width - 1 IN
       /\ objs' = [objs EXCEPT ![Target(me)] = res.obj]
       /\ th' = [th EXCEPT ![t] =
                   IF res.ret = "OK"
                   THEN [me EXCEPT !.idx = IF last THEN 0 ELSE @ + 1,
                                   !.stripe = IF last THEN @ + 1 ELSE @]
                   ELSE AfterIo(me, res.ret)]
    /\ UNCHANGED <<views, seq, expand_pos, init_q, history>>
    /\ UnchangedByOp

TrimToDone(t) ==
    /\ th[t].pc = "trim"
    /\ ~MoreToTrim(th[t])
    /\ Goto(t, "done")
    /\ trimmed_to' = Larger(trimmed_to, th[t].pos)
    /\ UNCHANGED <<views, objs, seq, expand_pos, init_q, wrote, asked>>
    /\ UnchangedByOp

\* The callback is run and the finisher looks for its next operation.
Callback(t) ==
    /\ th[t].pc = "done"
    /\ th' = [th EXCEPT ![t] = Idle]
    /\ UNCHANGED <<views, objs, seq, expand_pos, init_q, history>>
    /\ UnchangedByOp

-----------------------------------------------------------------------------
(* ViewManager::try_expand_view, called by operations and by the expander.  *)

\* Back to the caller: an operation looks at the view again, the expander at
\* expand_pos_.
AfterExpand(t) ==
    IF t[2] = Expander THEN Idle
    ELSE [th[t] EXCEPT !.pc = "view", !.cur = 0, !.retries = 0, !.ret = "OK"]

ExpandRead(t) ==
    /\ th[t].pc = "expand"
    /\ LET e == cview[ClientOf(t)] IN
       th' = [th EXCEPT ![t] =
                IF Mapped(views[e].inst, @.pos) THEN AfterExpand(t)
                ELSE [@ EXCEPT !.pc = "propose", !.cur = e]]
    /\ UNCHANGED <<views, objs, seq, expand_pos, init_q, history>>
    /\ UnchangedByOp

ExpandPropose(t) ==
    /\ th[t].pc = "propose"
    /\ LET me == th[t]
           next == me.cur + 1 IN
       /\ next <= MaxEpoch
       /\ views' = ProposeView(views, next,
                     [views[me.cur] EXCEPT !.inst = ExpandMapping(@, me.pos)])
       /\ th' = [th EXCEPT ![t] = [@ EXCEPT
                   !.pc = "ewait", !.ret = ProposeRet(views, next)]]
    /\ UNCHANGED <<objs, seq, expand_pos, init_q, history>>
    /\ UnchangedByOp

\* A newer view is cached.  The winner schedules the initialization of the new
\* stripe; a loser tries again while it has retries left.
ExpandWaited(t) ==
    /\ th[t].pc = "ewait" /\ cview[ClientOf(t)] > th[t].cur
    /\ LET won == th[t].ret = "OK" IN
       /\ th' = [th EXCEPT ![t] =
                   IF won \/ @.retries = 1 THEN AfterExpand(t)
                   ELSE [@ EXCEPT !.pc = "expand", !.retries = th[t].retries - 1]]
       /\ init_q' = IF won /\ InitStripes
                    THEN [init_q EXCEPT ![ClientOf(t)] = Append(@, th[t].pos)]
                    ELSE init_q
    /\ UNCHANGED <<views, objs, seq, expand_pos, history>>
    /\ UnchangedByOp

\* ViewManager::expander_entry_
ExpanderWake(t) ==
    /\ t[2] = Expander /\ th[t].pc = "idle"
    /\ expand_pos[ClientOf(t)] # NoPos
    /\ th' = [th EXCEPT ![t] = [Idle EXCEPT
                !.pc = "xview", !.pos = expand_pos[ClientOf(t)]]]
    /\ UNCHANGED <<views, objs, seq, expand_pos, init_q, history>>
    /\ UnchangedByOp

ExpanderMap(t) ==
    /\ th[t].pc = "xview"
    /\ th' = [th EXCEPT ![t] = [@ EXCEPT
                !.pc = IF Mapped(views[cview[ClientOf(t)]].inst, th[t].pos)
                       THEN "xclear" ELSE "expand",
                !.retries = ExpandRetries]]
    /\ UNCHANGED <<views, objs, seq, expand_pos, init_q, history>>
    /\ UnchangedByOp

\* The request is served unless a larger one came in since.
ExpanderClear(t) ==
    /\ th[t].pc = "xclear"
    /\ th' = [th EXCEPT ![t] = Idle]
    /\ expand_pos' = [expand_pos EXCEPT ![ClientOf(t)] =
                        IF @ > th[t].pos THEN @ ELSE NoPos]
    /\ UNCHANGED <<views, objs, seq, init_q, history>>
    /\ UnchangedByOp

\* ViewManager::stripe_init_entry_ takes a position whose stripe it will seal
\* with the epoch of the current view,
InitTake(c) ==
    /\ init_job[c] = NoJob
    /\ init_q[c] # <<>>
    /\ init_q' = [init_q EXCEPT ![c] = Tail(@)]
    /\ init_job' = [init_job EXCEPT ![c] =
                      IF Mapped(views[cview[c]].inst, Head(init_q[c]))
                      THEN [epoch |-> cview[c], idx |-> 0,
                            stripe |-> StripeOf(Head(init_q[c]))]
                      ELSE NoJob]
    /\ UNCHANGED <<views, objs, status, cview, seq, expand_pos, opener, th,
                   nops, history>>

\* object after object, whatever Seal returns.
InitSeal(c) ==
    /\ init_job[c] # NoJob
    /\ LET j == init_job[c]
           o == <<j.stripe, j.idx>> IN
       /\ objs' = [objs EXCEPT ![o] = Seal(@, j.epoch).obj]
       /\ init_job' = [init_job EXCEPT ![c] =
                         IF j.idx = Width - 1 THEN NoJob
                         ELSE [j EXCEPT !.idx = j.idx + 1]]
    /\ UNCHANGED <<views, status, cview, seq, expand_pos, init_q, opener, th,
                   nops, history>>

-----------------------------------------------------------------------------
(* The specification *)

ClientStep(c) ==
    \/ RefreshView(c)
    \/ Open(c)
    \/ ProposeBegin(c) \/ ProposeSeal(c) \/ ProposeMaxPos(c)
    \/ ProposeSequencer(c) \/ ProposeRetry(c)
    \/ OpenDone(c) \/ OpenFail(c)
    \/ InitTake(c) \/ InitSeal(c)

OpStep(t) ==
    \/ SeqGetView(t) \/ AppendTail(t) \/ CheckTail(t)
    \/ PosGetView(t) \/ ReadIo(t) \/ WriteIo(t) \/ FillIo(t) \/ TrimIo(t)
    \/ SealObject(t) \/ WaitDone(t)
    \/ TrimToGetView(t) \/ AdvanceRead(t) \/ AdvancePropose(t)
    \/ TrimToIo(t) \/ TrimToDone(t) \/ Callback(t)
    \/ ExpandRead(t) \/ ExpandPropose(t) \/ ExpandWaited(t)
    \/ ExpanderWake(t) \/ ExpanderMap(t) \/ ExpanderClear(t)

UserStep ==
    \E t \in Finishers, op \in OpKinds :
        IF op \in {"append", "tail"} THEN StartOp(t, op, 0)
        ELSE \E p \in OpPositions : StartOp(t, op, p)

\* No thread has anything left to do.
Quiescent ==
    /\ \A t \in Threads : th[t] = Idle
    /\ \A c \in Clients :
         /\ status[c] # "opening" /\ expand_pos[c] = NoPos
         /\ init_q[c] = <<>> /\ init_job[c] = NoJob

Next ==
    \/ \E c \in Clients : ClientStep(c) \/ Crash(c)
    \/ \E t \in Threads : OpStep(t)
    \/ UserStep
    \/ Quiescent /\ UNCHANGED vars

Spec == Init /\ [][Next]_vars

\* Every thread that can move is scheduled: the refresh thread wakes up at least
\* every max_refresh_timeout_ms, the opening thread, the initializer, the
\* expander and the finishers are ordinary threads.  Users and crashes are not
\* fair: nothing makes a client open the log, call an operation or crash.
OpenerStep(c) ==
    \/ ProposeBegin(c) \/ ProposeSeal(c) \/ ProposeMaxPos(c)
    \/ ProposeSequencer(c) \/ ProposeRetry(c) \/ OpenDone(c) \/ OpenFail(c)

Fairness ==
    /\ \A c \in Clients :
         /\ WF_vars(RefreshView(c))
         /\ WF_vars(OpenerStep(c))
         /\ WF_vars(InitTake(c) \/ InitSeal(c))
    /\ \A t \in Threads : WF_vars(OpStep(t))

FairSpec == Spec /\ Fairness

-----------------------------------------------------------------------------
(* Properties *)

Abstract == INSTANCE SharedLog WITH
    log <- [p \in Positions |-> LogEntry(p)], asked <- asked

\* Seen through any client, the objects, their epochs and their trim limits
\* implement a write-once log: no interleaving of appends, fills, trims,
\* takeovers and crashes changes, loses or duplicates an append
\* (AppendOp::run's retries, Trim's reclaiming of whole objects).
ImplementsSharedLog == Abstract!Spec

\* Once a sequencer has been installed by the view of epoch e with a seed, only
\* it and its successors write positions from the seed on: an old sequencer's
\* appends there are refused, because the stripes that map them were sealed
\* before the seed was computed (propose_sequencer, seal_stripe).
TakeoverFences ==
    \A e \in 1 .. Len(views) :
        views[e].seq.epoch = e =>
            \A p \in Positions :
                p >= views[e].seq.position /\ wrote[p] # 0 => wrote[p] >= e

\* Appends are ordered in real time: an append that began after another one
\* wrote its position gets a larger position (README.md: "strongly consistent
\* shared-log"), also when they go through different sequencers.
AppendOrder ==
    \A t \in Finishers :
        th[t].pc = "done" /\ th[t].op = "append" /\ th[t].ret = "OK"
            => th[t].pos >= th[t].floor

\* A read that began after a position was consumed never reports it as not
\* written, whichever view and object state it met on its way (ReadOp::run).
ReadsSeeConsumed ==
    \A t \in Finishers :
        th[t].pc = "done" /\ th[t].op = "read" /\ th[t].ret = "ENOENT"
            => th[t].seen = NoEntry

\* After trimTo(p) returned, every position up to p is invalid for good, even
\* if stripes were added, sealed or written while it walked over the objects
\* (TrimToOp::run restarts, map_to's coverage of the range).
TrimToComplete == \A p \in Positions : p <= trimmed_to => LogEntry(p) = Junk

\* No proposal undoes another: along the epochs the mapping, the minimum valid
\* position and the sequencer config's epoch never go back, although every
\* proposal is computed from a cached view (ProposeView's compare-and-set).
ViewsMonotone ==
    \A i, j \in 1 .. Len(views) : i < j =>
        /\ views[i].inst <= views[j].inst
        /\ views[i].min_valid <= views[j].min_valid
        /\ views[i].seq.epoch <= views[j].seq.epoch

\* A client's sequencer, once created, is never replaced or set back while the
\* client lives (refresh_view reuses the Sequencer of the previous view).
SequencerKept ==
    [][\A c \in Clients :
          seq[c] # NoSequencer /\ status'[c] = status[c] =>
              seq'[c].epoch = seq[c].epoch /\ seq'[c].pos >= seq[c].pos]_vars

\* Every operation and every background expansion comes to an end.
OpsComplete == \A t \in Threads : th[t].pc # "idle" ~> th[t].pc = "idle"

\* Log::Open returns.
OpenCompletes == \A c \in Clients : status[c] = "opening" ~> status[c] # "opening"
==============================================================================
