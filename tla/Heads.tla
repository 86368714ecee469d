-------------------------------- MODULE Heads --------------------------------
(***************************************************************************)
(* Creating, opening and reopening one log: create_or_open and             *)
(* build_log_impl (libzlog/log.cc) on the head and link objects of the     *)
(* RAM, LMDB or Ceph backend, one of which Init chooses.  A step is one    *)
(* locked section (RAM), one transaction or one half of it (LMDB), or one  *)
(* request (Ceph); a client may crash between any two and come back.       *)
(*                                                                         *)
(* Sealing and log entries are the subject of ZLog; a view is here what    *)
(* tells sequencers apart, and an open log may at any time propose a view  *)
(* that expands the mapping and keeps the sequencer.                       *)
(***************************************************************************)
EXTENDS Integers, FiniteSetsExt

CONSTANTS
    Clients,
    Backends,        \* subset of {"ram", "lmdb", "ceph"}
    OptionSet,       \* the options create_if_missing, error_if_exists of an open
    ProposeRetries,  \* propose_sequencer's retries, 5 in the code
    MaxViewReads,    \* ZLOG_MAX_VIEW_READS, 100 in the code
    MaxOpens,        \* bound: calls of Log::Open
    MaxExpands,      \* bound: expansions
    MaxHeads,        \* bound: head objects created
    MayCrash         \* clients that may crash

ASSUME HeadsAssumption ==
    /\ Backends \subseteq {"ram", "lmdb", "ceph"}
    /\ OptionSet \subseteq SUBSET {"create_if_missing", "error_if_exists"}
    /\ ProposeRetries \in Nat \ {0} /\ MaxViewReads \in Nat \ {0}
    /\ MaxOpens \in Nat /\ MaxExpands \in Nat /\ MaxHeads \in Nat \ {0}

VARIABLES
    kind,     \* the backend in use
    store,    \* its head and link objects, by key
    cl,       \* cl[c]: client c's call of Log::Open, and the log it opened
    opens,    \* calls of Log::Open so far
    expands,  \* expansions so far
    tokens    \* history: the <<hoid, id>> handed out, and those handed out twice

vars == <<kind, store, cl, opens, expands, tokens>>

R == INSTANCE RAM
L == INSTANCE LMDB WITH Word <- 2^16
C == INSTANCE ClsZlog WITH OffsetMod <- 2^16, Word <- 2^16

Name == "log"
LinkKey == <<"link", Name>>
HeadKey(h) == <<"head", h>>
Uuids == 1 .. MaxHeads

NoHead == 0
NoSeq == [epoch |-> 0, token |-> -1]
InitialView == [seq |-> NoSeq]           \* View::create_initial
NoView == [epoch |-> 0, seq |-> NoSeq]

\* Steps of the calls; LMDB's write lock is held in the Committing ones.
Committing == {"uid_commit", "propose_commit"}
Busy == {"open_log", "get_head", "create", "first_view", "link", "uid",
         "uid_write", "refresh", "propose", "wait"} \cup Committing
Idle == {"closed", "open", "aborted"}

Closed == [pc |-> "closed", task |-> "open", hoid |-> NoHead, id |-> -1,
           options |-> {}, created |-> FALSE, view |-> NoView, cur |-> NoView, retries |-> 0, ret |-> "OK"]

Init ==
    /\ kind \in Backends
    /\ store = <<>>
    /\ cl = [c \in Clients |-> Closed]
    /\ opens = 0
    /\ expands = 0
    /\ tokens = [issued |-> {}, twice |-> {}]

Present(k) == k \in DOMAIN store
Set(c, r) == cl' = [cl EXCEPT ![c] = r]
Goto(c, pc) == Set(c, [cl[c] EXCEPT !.pc = pc])

\* Log::Open returns a failure; nothing of the log was built yet, and only
\* the caller learns the code.
Fail(c, ret) == Set(c, Closed)

\* LMDB admits one write transaction at a time.
WriteLockFree ==
    kind = "lmdb" => \A c \in Clients : cl[c].pc \notin Committing

(* create_or_open *)
Open(c) ==
    /\ cl[c].pc = "closed" /\ opens < MaxOpens
    /\ opens' = opens + 1
    /\ \E o \in OptionSet : Set(c, [Closed EXCEPT !.pc = "open_log", !.options = o])
    /\ UNCHANGED <<kind, store, expands, tokens>>

\* Seeded fault: the option is only looked at when the log is created.
FaultyOpened(c, ret) ==
    IF ret = "ENOENT" THEN
         IF "create_if_missing" \in cl[c].options THEN Goto(c, "create") ELSE Fail(c, "ENOENT")
    ELSE IF ret # "OK" THEN Fail(c, ret)
    ELSE Set(c, [cl[c] EXCEPT !.pc = "uid", !.hoid = store[LinkKey]])

\* What create_or_open makes of OpenLog's return code.
Opened(c, ret) ==
    IF ret = "ENOENT" THEN
         IF "create_if_missing" \in cl[c].options THEN Goto(c, "create") ELSE Fail(c, "ENOENT")
    ELSE IF ret # "OK" THEN Fail(c, ret)
    ELSE IF "error_if_exists" \in cl[c].options THEN Fail(c, "EEXIST")
    ELSE Set(c, [cl[c] EXCEPT !.pc = "uid", !.hoid = store[LinkKey]])

\* CephBackend::OpenLog reads the link first, and the head in a second request.
CephReadLink(c) ==
    IF Present(LinkKey)
    THEN Set(c, [cl[c] EXCEPT !.pc = "get_head", !.hoid = store[LinkKey]])
    ELSE Opened(c, "ENOENT")

OpenLog(c) ==
    /\ cl[c].pc = "open_log"
    /\ WriteLockFree
    /\ CASE kind = "ram"  -> Opened(c, R!OpenLog(store, Name))
         [] kind = "lmdb" -> Opened(c, L!OpenLog(store, Name))
         [] kind = "ceph" -> CephReadLink(c)
    /\ UNCHANGED <<kind, store, opens, expands, tokens>>

GetHead(c) ==
    /\ cl[c].pc = "get_head"
    /\ Opened(c, IF Present(HeadKey(cl[c].hoid)) THEN "OK" ELSE "EIO")
    /\ UNCHANGED <<kind, store, opens, expands, tokens>>

\* What create_or_open makes of CreateLog's return code.
Created(c, ret, h) ==
    IF ret = "OK" THEN Set(c, [cl[c] EXCEPT !.pc = "uid", !.hoid = h, !.created = TRUE])
    ELSE IF ret # "EEXIST" \/ "error_if_exists" \in cl[c].options THEN Fail(c, ret)
    ELSE Set(c, [cl[c] EXCEPT !.pc = "open_log", !.hoid = NoHead])

\* Random names: one nobody has used or, however unlikely, one in use.
RandomHeads ==
    LET used == {h \in Uuids : Present(HeadKey(h))} IN
    used \cup (IF used = Uuids THEN {} ELSE {Min(Uuids \ used)})

\* CephBackend::InitHeadObject
InitHeadObject(h) == C!head_init(IF Present(HeadKey(h)) THEN "OK" ELSE "ENOENT")

\* Seeded fault: the first view is left to whoever opens the log.
FaultyCephInitHead(c, h) ==
    IF InitHeadObject(h) = "OK"
    THEN /\ store' = C!With(store, HeadKey(h), C!HeadObject(0))
         /\ Set(c, [cl[c] EXCEPT !.pc = "link", !.hoid = h])
    ELSE UNCHANGED <<store, cl>>

\* Ceph: draw again when the name is taken.
CephInitHead(c, h) ==
    IF InitHeadObject(h) = "OK"
    THEN /\ store' = C!With(store, HeadKey(h), C!HeadObject(0))
         /\ Set(c, [cl[c] EXCEPT !.pc = "first_view", !.hoid = h])
    ELSE UNCHANGED <<store, cl>>

RamCreateHead(c, h) ==
    LET r == R!CreateHead(store, h, InitialView) IN
    /\ store' = r.store
    /\ IF r.ret = "OK" THEN Set(c, [cl[c] EXCEPT !.pc = "link", !.hoid = h])
       ELSE Created(c, r.ret, h)

LmdbCreateLog(c, h) ==
    LET r == L!CreateLog(store, Name, h, InitialView) IN
    store' = r.db /\ Created(c, r.ret, h)

\* CreateLog up to its first lock, transaction or request
CreateLog(c) ==
    /\ cl[c].pc = "create"
    /\ WriteLockFree
    /\ \E h \in RandomHeads :
         CASE kind = "ram"  -> RamCreateHead(c, h)
           [] kind = "lmdb" -> LmdbCreateLog(c, h)
           [] kind = "ceph" -> CephInitHead(c, h)
    /\ UNCHANGED <<kind, opens, expands, tokens>>

\* A request runs a method of the object class on head h, atomically.
Exec(h, reply) == store' = [store EXCEPT ![HeadKey(h)] = reply.obj]

CephProposeView(h, epoch, view) == C!view_create(store[HeadKey(h)], epoch, view)

\* Ceph: propose the first view in the new head.
FirstView(c) ==
    /\ cl[c].pc = "first_view"
    /\ LET r == CephProposeView(cl[c].hoid, 1, InitialView)
       IN  /\ Exec(cl[c].hoid, r)
           /\ IF r.ret = "OK" THEN Goto(c, "link") ELSE Fail(c, r.ret)
    /\ UNCHANGED <<kind, opens, expands, tokens>>

\* RAM's second locked section; CephBackend::CreateLinkObject, an exclusive
\* create
CreateLink(h) == R!CreateLink(store, Name, h)

Link(c) ==
    /\ cl[c].pc = "link"
    /\ LET r == CreateLink(cl[c].hoid)
       IN  store' = r.store /\ Created(c, r.ret, cl[c].hoid)
    /\ UNCHANGED <<kind, opens, expands, tokens>>

(* uniqueId *)
Issue(h, id) ==
    tokens' = [issued |-> tokens.issued \cup {<<h, id>>},
               twice  |-> tokens.twice \cup (tokens.issued \cap {<<h, id>>})]

\* create_or_open's options have been dealt with, and id is the next token.
Take(c, pc, id) == Set(c, [cl[c] EXCEPT !.pc = pc, !.options = {}, !.id = id])

\* The counter
RamUid(c) ==
    /\ store' = R!UniqueId(store).store
    /\ Take(c, "refresh", R!NextId(store))
    /\ Issue(cl[c].hoid, R!NextId(store))

\* The increment in place
LmdbUid(c) ==
    /\ store' = L!IdInPlace(store, cl[c].hoid)
    /\ Take(c, "uid_commit", store[HeadKey(cl[c].hoid)].unique_id)
    /\ UNCHANGED tokens

\* Read the stored id; the next one is written by the request that follows.
CephUid(c) ==
    /\ Take(c, "uid_write", C!unique_id_read(store[HeadKey(cl[c].hoid)]) + 1)
    /\ UNCHANGED <<store, tokens>>

Uid(c) ==
    /\ cl[c].pc = "uid"
    /\ WriteLockFree
    /\ CASE kind = "ram"  -> RamUid(c)
         [] kind = "lmdb" -> LmdbUid(c)
         [] kind = "ceph" -> CephUid(c)
    /\ UNCHANGED <<kind, opens, expands>>

UidCommit(c) ==
    /\ cl[c].pc = "uid_commit"
    /\ Goto(c, "refresh")
    /\ Issue(cl[c].hoid, cl[c].id)
    /\ UNCHANGED <<kind, store, opens, expands>>

\* Ceph: store the next id, or read again if somebody else was faster.
UidWrite(c) ==
    /\ cl[c].pc = "uid_write"
    /\ LET r == C!unique_id_write(store[HeadKey(cl[c].hoid)], cl[c].id)
       IN  /\ Exec(cl[c].hoid, r)
           /\ IF r.ret = "ESTALE" THEN Goto(c, "uid") /\ UNCHANGED tokens
              ELSE Goto(c, "refresh") /\ Issue(cl[c].hoid, cl[c].id)
    /\ UNCHANGED <<kind, opens, expands>>

(* build_log_impl *)
CephReadViews(h, epoch, max_views) == C!view_read(store[HeadKey(h)], epoch, max_views)

ReadViews(h, epoch, max_views) ==
    CASE kind = "ram"  -> R!ReadViews(store, h, epoch, max_views)
      [] kind = "lmdb" -> L!ReadViews(store, h, epoch, max_views)
      [] kind = "ceph" -> CephReadViews(h, epoch, max_views)

\* ViewReader::get_latest_view
Latest(c) == ReadViews(cl[c].hoid, 0, 1)
HasLatest(c) == Latest(c).ret = "OK" /\ DOMAIN Latest(c).views # {}
LatestView(c) ==
    LET e == Max(DOMAIN Latest(c).views) IN
    [epoch |-> e, seq |-> Latest(c).views[e].seq]

\* The reader's first refresh.  Without a view, Log::Open returns EIO and the
\* reader's destructor shuts it down.
FirstRefresh(c) ==
    /\ cl[c].pc = "refresh"
    /\ IF HasLatest(c)
       THEN Set(c, [cl[c] EXCEPT !.pc = "propose", !.view = LatestView(c),
                                 !.retries = ProposeRetries])
       ELSE Fail(c, "EIO")
    /\ UNCHANGED <<kind, store, opens, expands, tokens>>

\* The view that c proposes on top of its cached one.
Proposal(c) ==
    IF cl[c].task = "expand" THEN [seq |-> cl[c].view.seq]
    ELSE [seq |-> [epoch |-> cl[c].view.epoch + 1, token |-> cl[c].id]]

\* A failed propose_sequencer destroys the ViewManager without shutdown(): its
\* destructor asserts, and joinable threads end the process in any build.
\* Clients of the RAM backend share a process.
Abort(c) ==
    cl' = [d \in Clients |-> IF d = c \/ kind = "ram"
                             THEN [Closed EXCEPT !.pc = "aborted"] ELSE cl[d]]

\* ProposeView has returned; both outcomes wait for a newer view.
Proposed(c, ret) ==
    IF ret \in {"OK", "ESPIPE"}
    THEN Set(c, [cl[c] EXCEPT !.pc = "wait", !.cur = cl[c].view, !.ret = ret])
    ELSE Abort(c)

RamPropose(c, h, epoch) ==
    LET r == R!ProposeView(store, h, epoch, Proposal(c))
    IN  store' = r.store /\ Proposed(c, r.ret)

LmdbPropose(c, h, epoch) ==
    LET ret == L!ProposeRet(store, h, epoch) IN
    IF ret = "OK"
    THEN store' = L!EpochInPlace(store, h, epoch) /\ Goto(c, "propose_commit")
    ELSE UNCHANGED store /\ Proposed(c, ret)

CephPropose(c, h, epoch) ==
    LET r == CephProposeView(h, epoch, Proposal(c))
    IN  Exec(h, r) /\ Proposed(c, r.ret)

Propose(c) ==
    /\ cl[c].pc = "propose"
    /\ WriteLockFree
    /\ LET h == cl[c].hoid
           next == cl[c].view.epoch + 1
       IN  CASE kind = "ram"  -> RamPropose(c, h, next)
             [] kind = "lmdb" -> LmdbPropose(c, h, next)
             [] kind = "ceph" -> CephPropose(c, h, next)
    /\ UNCHANGED <<kind, opens, expands, tokens>>

ProposeCommit(c) ==
    /\ cl[c].pc = "propose_commit"
    /\ store' = L!ProposeCommit(store, cl[c].hoid, cl[c].view.epoch + 1, Proposal(c))
    /\ Proposed(c, "OK")
    /\ UNCHANGED <<kind, opens, expands, tokens>>

\* Seeded fault: wait for a view newer than the one just proposed.
FaultyNewer(c) == HasLatest(c) /\ LatestView(c).epoch > cl[c].cur.epoch + 1

Newer(c) == HasLatest(c) /\ LatestView(c).epoch > cl[c].cur.epoch

SequencerUnchanged(v, w) == v.seq = NoSeq \/ v.seq = w.seq

\* update_current_view, and what follows it in propose_sequencer: the log is
\* open, the proposal is repeated, or the open fails with EINTR or ETIMEDOUT.
Wait(c) ==
    /\ cl[c].pc = "wait"
    /\ Newer(c)
    /\ LET me == [cl[c] EXCEPT !.view = LatestView(c)] IN
       IF me.ret = "OK" \/ me.task = "expand"
       THEN Set(c, [me EXCEPT !.pc = "open", !.cur = NoView, !.retries = 0, !.ret = "OK"])
       ELSE IF SequencerUnchanged(me.view, me.cur) /\ me.retries > 1
            THEN Set(c, [me EXCEPT !.pc = "propose", !.retries = @ - 1])
            ELSE Abort(c)
    /\ UNCHANGED <<kind, store, opens, expands, tokens>>

(* An open log *)
\* The refresh thread
Refresh(c) ==
    /\ cl[c].pc = "open"
    /\ HasLatest(c)
    /\ Set(c, [cl[c] EXCEPT !.view = LatestView(c)])
    /\ UNCHANGED <<kind, store, opens, expands, tokens>>

\* The expander proposes a view, without retries of its own.
Expand(c) ==
    /\ cl[c].pc = "open" /\ expands < MaxExpands
    /\ expands' = expands + 1
    /\ Set(c, [cl[c] EXCEPT !.pc = "propose", !.task = "expand"])
    /\ UNCHANGED <<kind, store, opens, tokens>>

Close(c) ==
    /\ cl[c].pc = "open"
    /\ Set(c, Closed)
    /\ UNCHANGED <<kind, store, opens, expands, tokens>>

\* The process dies: its open transaction is gone, what it wrote in place is
\* not.  The RAM backend dies with its only process.
Crash(c) ==
    /\ c \in MayCrash /\ kind # "ram"
    /\ cl[c].pc \notin {"closed", "aborted"}
    /\ Set(c, Closed)
    /\ UNCHANGED <<kind, store, opens, expands, tokens>>

Step(c) ==
    \/ OpenLog(c)
    \/ GetHead(c)
    \/ CreateLog(c)
    \/ FirstView(c)
    \/ Link(c)
    \/ Uid(c)
    \/ UidCommit(c)
    \/ UidWrite(c)
    \/ FirstRefresh(c)
    \/ Propose(c)
    \/ ProposeCommit(c)
    \/ Wait(c)

Next ==
    \E c \in Clients :
      \/ Step(c)
      \/ Open(c)
      \/ Refresh(c)
      \/ Expand(c)
      \/ Close(c)
      \/ Crash(c)

Spec == Init /\ [][Next]_vars

\* A call that was begun goes on, and a contended LMDB write lock is handed on.
FairSpec == Spec /\ \A c \in Clients : SF_vars(Step(c))

(* Properties *)
Heads == {h \in Uuids : Present(HeadKey(h))}
Epoch(h) == store[HeadKey(h)].epoch

\* The views stored for head h, by epoch
Stored(h) ==
    CASE kind = "ram"  -> store[HeadKey(h)].projections
      [] kind = "ceph" -> store[HeadKey(h)].views
      [] kind = "lmdb" ->
           LET es == {e \in 1 .. Epoch(h) : Present(L!ProjectionKey(h, e))}
           IN  [e \in es |-> store[L!ProjectionKey(h, e)]]

\* An LMDB head whose epoch was changed in place, while its view is still in a
\* transaction or was lost with it.
Torn(h) == kind = "lmdb" /\ Epoch(h) \notin DOMAIN Stored(h)

\* Whoever races, crashes or comes back: all clients that got past
\* create_or_open use the head that the name links to, one of them at most
\* believes to have created it, and it is the only one that gets in with
\* error_if_exists (the loop of create_or_open, CreateLog's exclusive link).
OneLog ==
    /\ \A c \in Clients : cl[c].pc = "uid" \/ cl[c].id # -1 =>
         /\ Present(LinkKey) /\ cl[c].hoid = store[LinkKey]
         /\ "error_if_exists" \in cl[c].options => cl[c].created
    /\ \A c, d \in Clients : cl[c].created /\ cl[d].created => c = d

\* No two opens of a log, in whatever life of a client, get the same token: the
\* token decides whose sequencer a view names (uniqueId, ViewReader).
TokensUnique == tokens.twice = {}

\* A name never links to a half-created log: from the moment the link exists,
\* so do the head and the view of epoch 1, and ListLinks and ListHeads show
\* both (the order of the steps of CreateLog).
LinkedIsComplete ==
    Present(LinkKey) =>
        LET h == store[LinkKey] IN
        /\ h \in Heads /\ 1 \in DOMAIN Stored(h)
        /\ kind = "ram" => LinkKey \in R!ListLinks(store) /\ HeadKey(h) \in R!ListHeads(store)
        /\ kind = "lmdb" => LinkKey \in L!ListLinks(store) /\ HeadKey(h) \in L!ListHeads(store)

\* A head's views are those of the epochs 1 to its epoch, and ReadViews returns
\* the run of them that it was asked for, epoch 0 standing for the latest and
\* Ceph returning at most ZLOG_MAX_VIEW_READS of them; the one exception is a
\* torn LMDB head, whose last view is missing.
ReadViewsExact ==
    \A h \in Heads :
      LET last == IF Torn(h) THEN Epoch(h) - 1 ELSE Epoch(h)
          Most(m) == IF kind = "ceph" /\ m > MaxViewReads THEN MaxViewReads ELSE m
          Asked(e, m) == IF e = 0 THEN {last} \ {0}
                         ELSE {f \in e .. last : f < e + Most(m)}
      IN  /\ DOMAIN Stored(h) = 1 .. last
          /\ \A e \in 0 .. last + 2, m \in 1 .. MaxViewReads + 1 :
               LET r == ReadViews(h, e, m) IN
               IF Torn(h) /\ e = 0 THEN r.ret = "EIO"
               ELSE r.ret = "OK" /\ r.views = [f \in Asked(e, m) |-> Stored(h)[f]]

\* What was accepted stays: a link is never redirected, a stored view never
\* changes, and a head's epoch never goes back (the compare-and-set of
\* ProposeView, with clients whose views are stale).
HeadsAppendOnly ==
    [][/\ Present(LinkKey) => store'[LinkKey] = store[LinkKey]
       /\ \A h \in Heads : h \in Heads' /\ Epoch(h)' >= Epoch(h)
                           /\ \A e \in DOMAIN Stored(h) : e \in DOMAIN Stored(h)'
                                /\ Stored(h)'[e] = Stored(h)[e]]_vars

\* Log::Open comes back, also when other clients crash, come back and race;
\* unless an LMDB client has left a torn head behind (the loops of
\* create_or_open, uniqueId and propose_sequencer).
OpenEnds ==
    \A c \in Clients :
        cl[c].pc \in Busy ~> cl[c].pc \in Idle \/ \E h \in Heads : Torn(h)

\* "assert(shutdown_)" in ~ViewManager: no view manager is destroyed while its
\* threads run (build_log_impl's return after propose_sequencer).
ManagerShutDown == \A c \in Clients : cl[c].pc # "aborted"
==============================================================================
