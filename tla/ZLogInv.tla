------------------------------- MODULE ZLogInv -------------------------------
(***************************************************************************)
(* The inductive invariants behind the theorems of ZLogFenceProofs and     *)
(* ZLogLogProofs.                                                          *)
(***************************************************************************)
EXTENDS ZLog

-----------------------------------------------------------------------------
(* Threads and clients only use epochs whose view was accepted.            *)

HoldsView == {"tail", "io", "seal", "trim"}
HoldsCur == {"propose", "ewait", "apropose", "wait"}

ClientValid(c) ==
    /\ cview[c] <= Len(views)
    /\ status[c] \in {"opening", "open"} => cview[c] # 0
    /\ opener[c].pc # "none" => status[c] = "opening"
    /\ opener[c].pc \notin {"none", "begin"} =>
          opener[c].cur \in 1 .. Len(views)
    /\ status[c] # "open" => expand_pos[c] = NoPos /\ init_q[c] = <<>>

ClientsValid == \A c \in Clients : ClientValid(c)

ThreadValid(t, me) ==
    /\ me.pc # "idle" => status[ClientOf(t)] = "open"
    /\ me.pc \in HoldsView => me.view \in 1 .. Len(views)
    /\ me.pc \in HoldsCur => me.cur \in 1 .. Len(views)
    /\ me.pc # "done" => me.pos \in Positions
    /\ me.pc = "trim" => me.op = "trimTo"
    /\ me.pc = "seal" /\ me.op = "trimTo" => me.stripe \in StripeIds
    /\ me.pc \in {"expand", "propose", "ewait"} => me.retries # 0

ThreadsValid == \A t \in Threads : ThreadValid(t, th[t])

TypeInv == TypeOK /\ ClientsValid /\ ThreadsValid

\* The stripe initializer seals with the epoch of an accepted view, and no
\* object is sealed further ahead of the history than with the epoch of the one
\* view that an opener is about to propose (propose_sequencer).
JobsValid == \A c \in Clients : init_job[c].epoch <= Len(views)

SealedAhead == \A o \in Oids : objs[o].epoch <= Len(views) + 1

-----------------------------------------------------------------------------
(* The view history: mapping, minimum valid position and sequencer never go *)
(* back, and a sequencer config is the view's own or an older one.          *)

ViewsInv ==
    /\ ViewsMonotone
    /\ \A i \in 1 .. Len(views) : views[i].seq.epoch <= i

-----------------------------------------------------------------------------
(* Fencing *)

\* A thread about to advance the minimum valid position increases it; an append
\* has data and only writes a position that its view maps.
ThreadFence(me) ==
    /\ me.pc = "apropose" => me.pos + 1 > views[me.cur].min_valid
    /\ me.op = "append" => me.data # NoEntry
    /\ me.op = "append" /\ me.pc \in {"io", "seal"} =>
          Mapped(views[me.view].inst, me.pos)

ThreadsFence == \A t \in Threads : ThreadFence(th[t])

WroteMapped ==
    \A p \in Positions : wrote[p] # 0 => Mapped(views[Len(views)].inst, p)

\* What MaxPos can tell of the state x of the object o: it covers every append
\* the object took, and never points below the object's stripe.
ObjectCovers(o, x) ==
    /\ \A p \in Positions : Oid(p) = o /\ wrote[p] # 0 =>
         \/ x.entries[p] # NoEntry /\ p <= x.maxpos
         \/ p <= x.trim_limit
    /\ x.trim_limit # NoLimit => x.trim_limit >= MinPos(o[1])
    /\ (\E p \in Positions : x.entries[p] # NoEntry) => x.maxpos >= MinPos(o[1])

ObjectsCover == \A o \in Oids : ObjectCovers(o, objs[o])

\* Positions from a sequencer's seed on are sealed with the epoch of its view.
SeedSealed ==
    \A e \in 1 .. Len(views) :
        views[e].seq.epoch = e =>
            \A p \in Positions :
                p >= views[e].seq.position /\ Mapped(views[e].inst, p) =>
                    objs[Oid(p)].epoch >= e

\* The opener has sealed (measured) an object: it is past it in the order of
\* propose_sequencer, from the last stripe down, all Seals of a stripe before
\* its MaxPos calls.
HasSealed(me, o) ==
    \/ o[1] > me.stripe
    \/ o[1] = me.stripe /\ (me.pc # "seal" \/ o[2] < me.idx)

HasMeasured(me, o) ==
    \/ o[1] > me.stripe
    \/ o[1] = me.stripe /\ me.pc = "maxpos" /\ o[2] < me.idx
    \/ o[1] = me.stripe /\ me.pc = "propose"

\* While the view an opener started from is the latest, what it sealed is
\* closed to all views there are, so what it measured stays measured.
OpenerFence(me) ==
    me.pc \in {"seal", "maxpos", "propose"} /\ me.cur = Len(views) =>
        /\ \A p \in Positions : Mapped(views[me.cur].inst, p) =>
             /\ HasSealed(me, Oid(p)) => objs[Oid(p)].epoch > me.cur
             /\ HasMeasured(me, Oid(p)) /\ wrote[p] # 0 => p < me.seed
        /\ me.pc = "seal" => me.seed = 0
        /\ me.seed = 0 \/ me.seed > MinPos(me.stripe)
        /\ me.pc = "propose" => me.seed > 0 \/ me.stripe = 0

OpenersFence == \A c \in Clients : OpenerFence(opener[c])

FenceInv ==
    /\ ThreadsFence
    /\ WroteMapped
    /\ ObjectsCover
    /\ SeedSealed
    /\ OpenersFence
    /\ TakeoverFences

IndInv == TypeInv /\ ViewsInv /\ FenceInv

-----------------------------------------------------------------------------
(* The contents of the log *)

\* trimTo is past the object in the order it walks over them.
PastObject(me, o) == o[1] < me.stripe \/ (o[1] = me.stripe /\ o[2] < me.idx)

\* What an operation may rely on while others change the log: an append's data
\* is nowhere in it before the write, what a read saw consumed stays consumed,
\* a trim was asked for, and trimTo has trimmed what it is past.
ThreadLog(me) ==
    /\ me.op = "append" => me.data <= nops
    /\ me.op = "append" /\ me.pc # "done" =>
          \A p \in Positions : LogEntry(p) # me.data
    /\ me.op = "read" /\ me.seen # NoEntry =>
          IF me.pc = "done" THEN me.ret # "ENOENT"
          ELSE LogEntry(me.pos) # NoEntry
    /\ me.op = "trim" => me.pos \in asked
    /\ me.op = "trimTo" => \A p \in Positions : p <= me.pos => p \in asked
    /\ me.pc = "trim" =>
          /\ Mapped(views[me.view].inst, me.pos)
          /\ \A p \in Positions : p <= me.pos /\ PastObject(me, Oid(p)) =>
               Trimmed(objs[Oid(p)], p)

ThreadsLog == \A t \in Threads : ThreadLog(th[t])

\* No two appends carry the same data,
DataDistinct ==
    \A t, u \in Threads :
        t # u /\ th[t].op = "append" /\ th[u].op = "append" =>
            th[t].data # th[u].data

\* and the log only holds data of operations that were started.
LogBound == \A p \in Positions : LogEntry(p) <= nops

LogInv == ThreadsLog /\ DataDistinct /\ LogBound /\ TrimToComplete

-----------------------------------------------------------------------------
(* Sequencers and the order of appends *)

\* A view's sequencer config is the one of the view that installed it.
ConfigsOwn ==
    \A i \in 1 .. Len(views) :
        IF views[i].seq.epoch = 0 THEN views[i].seq = NoSeqConfig
        ELSE views[views[i].seq.epoch].seq = views[i].seq

\* A client is made the sequencer at most once,
TokenOnce ==
    \A i, j \in 1 .. Len(views) :
        views[i].seq.token = views[j].seq.token =>
            views[i].seq.epoch = views[j].seq.epoch

\* and never proposes itself again after that.
MayPropose(c) ==
    \/ status[c] = "closed"
    \/ opener[c].pc \in {"begin", "seal", "maxpos", "propose"}
    \/ opener[c].pc = "wait" /\ opener[c].ret = "ESPIPE"

ProposersNew ==
    \A c \in Clients : MayPropose(c) =>
        \A i \in 1 .. Len(views) : views[i].seq.token # c

\* The config epoch of a client's sequencer.
ConfigOf(c) == views[seq[c].epoch].seq.epoch

\* The position is past the seed of a sequencer newer than the client's.
Fenced(c, p) ==
    \E e \in 1 .. Len(views) :
        /\ views[e].seq.epoch = e /\ e > ConfigOf(c)
        /\ p >= views[e].seq.position

\* A live sequencer belongs to a view that names its client.
SequencerValid(c) ==
    /\ seq[c].epoch = 0 => seq[c] = NoSequencer
    /\ seq[c].epoch # 0 =>
          /\ seq[c].epoch \in 1 .. cview[c]
          /\ views[seq[c].epoch].seq.token = c
          /\ seq[c].pos >= views[seq[c].epoch].seq.position
    /\ status[c] \in {"opening", "open"} /\ views[cview[c]].seq.token = c =>
          seq[c].epoch # 0

SequencersValid == \A c \in Clients : SequencerValid(c)

\* An append that has found its client to be the sequencer finds the Sequencer.
ThreadSeq(t, me) ==
    me.op = "append" /\ me.pc \in {"tail", "io", "seal"} =>
        views[me.view].seq.token = ClientOf(t) /\ seq[ClientOf(t)].epoch # 0

ThreadsSeq == \A t \in Threads : ThreadSeq(t, th[t])

SeqInv ==
    ConfigsOwn /\ TokenOnce /\ ProposersNew /\ SequencersValid /\ ThreadsSeq

\* Somebody appended at the position or above it.
BelowTail(p) == \E q \in Positions : q >= p /\ wrote[q] # 0

\* Positions are written by the sequencer of some view, which has handed them
\* out or is gone.
WroteHanded ==
    \A p \in Positions : wrote[p] # 0 =>
        /\ wrote[p] \in 1 .. Len(views) /\ views[wrote[p]].seq.epoch = wrote[p]
        /\ \A c \in Clients : views[wrote[p]].seq.token = c =>
             IF seq[c].epoch = 0 THEN status[c] \in {"failed", "crashed"}
             ELSE p < seq[c].pos

\* If users only fill and trim below the tail, everything consumed is below it,
TailObject(x) ==
    /\ x.trim_limit # NoLimit => BelowTail(x.trim_limit)
    /\ x.maxpos # 0 \/ (\E p \in Positions : x.entries[p] # NoEntry) =>
          BelowTail(x.maxpos)

TailObjects == ~PastTail => \A o \in Oids : TailObject(objs[o])

\* so are the seeds measured from it,
TailSeeds ==
    ~PastTail => \A c \in Clients :
        opener[c].seed # 0 => BelowTail(opener[c].seed - 1)

\* and a superseded sequencer has handed out nothing above its successor's seed.
SupersededFenced ==
    ~PastTail => \A c \in Clients :
        seq[c].epoch # 0 /\ views[Len(views)].seq.epoch > ConfigOf(c) =>
            Fenced(c, seq[c].pos)

\* A position an append holds came from its client's sequencer; it is not below
\* what was the tail when the append began, or the write will be refused.
ThreadOrder(t, me) ==
    LET c == ClientOf(t) IN
    /\ me.op = "append" /\ me.pc \in {"io", "seal"} => me.position_epoch # 0
    /\ me.op = "append" /\ me.position_epoch # 0 /\ me.pc # "done" =>
          /\ seq[c].epoch # 0 /\ me.pos < seq[c].pos
          /\ ~PastTail => me.pos >= me.floor \/ Fenced(c, me.pos)
    /\ me.op = "append" /\ me.floor # 0 => BelowTail(me.floor - 1)
    /\ ~PastTail /\ me.op \in {"fill", "trim", "trimTo"} => BelowTail(me.pos)
    /\ ~PastTail /\ me.op = "append" /\ me.pc = "done" /\ me.ret = "OK" =>
          me.pos >= me.floor

ThreadsOrder == \A t \in Threads : ThreadOrder(t, th[t])

OrderInv ==
    /\ ThreadsOrder
    /\ WroteHanded
    /\ TailObjects
    /\ TailSeeds
    /\ SupersededFenced
==============================================================================
