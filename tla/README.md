# ZLog: a TLA+ model of the shared log

ZLog is a shared log in the style of CORFU: any number of client processes
append to, read, fill and trim one totally ordered log whose entries are
striped over storage objects. There is no log server. The *sequencer* that
hands out positions lives in one of the clients, and what the clients agree on
is a history of *views* kept in a head object of the storage, changed by
compare-and-set. Stale clients are kept out by *epochs*: every call to a log
object carries the epoch of the caller's view, and an object refuses a call
whose epoch is smaller than the one it was last sealed with.

## 1. The system

### Components

| Component | State | Operations | Interaction |
|---|---|---|---|
| **Object map, stripes** (`object_map.{h,cc}`, `stripe.{h,cc}`) | `stripes_by_pos_`, `next_stripe_id_`, `min_valid_position_`; immutable, part of a view | `map`, `map_stripe`, `map_to`, `expand_mapping`, `max_position`, `advance_min_valid_position` | read by every operation, rebuilt by proposals |
| **View, sequencer** (`view.{h,cc}`, `sequencer.{h,cc}`) | object map and `SequencerConfig` (epoch, token, position); an atomic counter per `Sequencer` | `create_initial`, `expand_mapping`, `advance_min_valid_position`, `with_sequencer_config`; `check_tail` | a `VersionedView` is shared by reference between threads |
| **View reader** (`view_reader.{h,cc}`) | `view_` (the cached view), the list of waiters, the refresh thread | `view`, `refresh_view`, `wait_for_newer_view`, `shutdown` | polls `ReadViews`; wakes operations and the view manager |
| **View manager** (`view_manager.{h,cc}`) | `expand_pos_`, `stripe_init_pos_`, expander and initializer threads | `map`, `try_expand_view`, `seal_stripe`, `advance_min_valid_position`, `propose_sequencer`, `async_expand_view`, `async_init_stripe`, `shutdown` | `Seal`, `MaxPos`, `ProposeView` on the backend |
| **Log operations** (`log_impl.{h,cc}`) | `pending_ops_`, `num_inflight_ops_`, per operation its position and the epoch it came from, finisher threads | `AppendOp`, `ReadOp`, `FillOp`, `TrimOp`, `TrimToOp`, `TailOp` (`run`), `queue_op`, `finisher_entry_` | calls the view manager and the backend, runs user callbacks |
| **Opening** (`log.cc`) | none of its own | `Log::Open`, `create_or_open`, `build_log_impl`, `OpenReadOnly` | creates the log, the reader, the manager; makes the client the sequencer |
| **Backend** (`include/zlog/backend.h`, `storage/ram/ram.cc`) | head objects (epoch, views), link objects, log objects (epoch, entries, maxpos, trim limit) | `CreateLog`, `OpenLog`, `uniqueId`, `ReadViews`, `ProposeView`, `ListLinks`, `ListHeads`; `Read`, `Write`, `Fill`, `Trim`, `Seal`, `MaxPos`, `Stat` | one lock around every call (`CreateLog`: two) |
| **LMDB backend** (`storage/lmdb/lmdb.cc`) | one key space in a memory-mapped file shared by processes | the same | one transaction per call; the head object is changed in place in the map |
| **Ceph backend** (`storage/ceph/ceph.cc`, `cls_zlog.{h,cc}`) | objects with a header, an omap and a byte stream | the same, as methods of an object class | one or several requests per call; a method is atomic on its object |
| **Cache and eviction** (`cache.cc`, `eviction/`) | the cached entries; LRU's list, ARC's four lists and their hash maps, `arc_p` | `put`, `get`, `remove` | not used by the log at this commit |
| Bindings, tools, benchmarks, monitoring, plugin loader, the old sequencer server | – | – | not part of the protocol |

### What is hard here

* **Takeover.** A client that opens the log becomes the sequencer: it seals the
  last stripe with an epoch no view has yet, asks every object of it for its
  largest position, walks back over empty stripes, and proposes a view with the
  seed. The old sequencer does not know and keeps appending.
* **Stale views.** Every proposal is computed from a cached view. Expansions,
  `trimTo` and takeovers of all clients compete for the same next epoch.
* **Retries.** An append meets `ESPIPE`, `ENOENT`, `EROFS` and unmapped
  positions in any order, and decides each time whether to keep its position.
* **Sealing on demand.** A missing object is created by sealing it, by an
  operation, by the stripe initializer or by a takeover, whichever comes first.
* **`trimTo`** is many calls on many objects while the log grows.
* **Crashes** between any two calls; **waiting** for a view that somebody else
  must propose.
* **Creating and opening** a log from several processes: creation is several
  requests on Ceph and two locked sections in RAM, and LMDB's head is changed
  before its transaction commits.
* **Reclaiming space** on Ceph: requests without an epoch, after the trim limit
  was set.
* **Integer widths**: a stripe's size is computed in 32 bits in some places and
  in 64 in others.
* The **operation queue**, the **refresh thread's waiters** and the **shutdown
  order** of all these threads.

`PROJECT.json` lists the hazards one by one, at the line where they bite, with
the properties that cover them.

### What makes each component correct

* Object map: positions and objects correspond one to one; growing a map never
  moves a position; the range of `map_to` covers exactly the positions up to the
  limit, and an object is reported whole only if it is.
* Views and sequencer: no proposal undoes another; a client's counter is never
  set back.
* View manager: after a takeover nothing from the seed on is written by an older
  sequencer; expansions requested are served; `Open` returns.
* Operations: the log is write-once; append order respects real time; reads do
  not miss what was consumed; `trimTo` is complete when it returns; every
  operation ends.
* Backend: one atomic, epoch-checked function of one object per call, the same
  for all three implementations.
* Opening: all clients of a name share one complete log, no two of their opens
  share a token, and an open returns.
* Cache: the lists stay within the size that was asked for, LRU forgets in the
  order of use.
* View reader: a waiter for a newer view is woken when one is there, the cached
  view never goes back.
* Operation queue: bounded number of operations in flight, every queued
  operation's callback runs once, destruction ends.

## 2. Modules

```
ObjectMap ── Backend ── ZLog ── ZLogInv ── MCZLog (+ 5 configurations)
                │         │        │
                │     SharedLog    │        (ZLog instantiates SharedLog)
                │                  │
                ZLogFenceProofs ── ZLogLogProofs

NewerView ── ViewReader (+ 1 configuration)     OpQueue (+ 1 configuration)
                 └── ViewReaderProofs              └── OpQueueProofs

Backend ──┐                              RAM ─────┐
LMDB ─────┼── Objects ── MCObjects       LMDB ────┼── Heads ── MCHeads (+ 2)
ClsZlog ──┤      └── ObjectsProofs       ClsZlog ─┘     └── HeadsProofs
ObjectSpec┘ (three times)
Update (maps that grow) is extended by RAM, LMDB and ClsZlog

ObjectMap ── Mapping ── MCMapping        Cache ── MCCache
                └── MappingProofs          └── CacheProofs
```

`ZLog` is the protocol between clients. `ViewReader` and `OpQueue` are the two
pieces of machinery inside one client that `ZLog` takes for granted: that a
thread waiting for a newer view goes on when there is one, and that a queued
operation is run and called back. Both are guarded by a mutex in the code, so
each has its own module with the steps between locking and unlocking. `Objects`
and `Heads` open up what `ZLog` takes for granted on the other side: that a call
on a log object is the atomic function of `Backend` whichever backend is loaded,
and that clients who open a name meet in one log with different tokens. `Mapping`
does the same for the arithmetic of `ObjectMap`.

**ObjectMap** — the mapping of positions to objects. Every map the program can
build has at most one `MultiStripe` (the initial view has none or one,
`expand_mapping` extends the last one), so a map is the number of its stripe
instances `inst`, and `map`, `map_to`, `expand_mapping` are arithmetic on it.

**Mapping** — the object map as the code keeps it: `stripes_by_pos_` is a function
from first positions to `MultiStripe` records, products of two `uint32_t` are
taken modulo `Word32` and all else modulo `Word64`. The state is one view's map
with the log's options: `create_initial`, `expand_mapping`,
`advance_min_valid_position` and a `Lookup` are the actions, and what becomes of
the process when an assert fails, a division is by zero or a loop makes no
progress is `status`. Every new map goes through `encode` and `decode`. The
initial states include stored maps of several `MultiStripe`s, which the code reads
and extends although it never makes one. `map` takes a position to the object
`position % width`, while `map_to` counts the objects of a stripe from the stripe's
first position (`CountedOid`); the two agree if every `MultiStripe` begins at a
multiple of its width (`Aligned`). The maps the program makes do; `valid()` and
the asserts do not ask for it, and neither does the model. Widths and slots of 0,
which the constructors' asserts end the process for (`object_map_test.cc:127-134`),
are left out.

**Backend** — the RAM backend's calls as functions from an object's state to a
return code and a new state (`Result(ret, obj)`). A lock is held for a whole
call, so a call is atomic. `Insert` is the common tail of `Write`, `Fill` and
`Trim`. An object that does not exist has epoch 0, which no caller may use.

**SharedLog** — what the log promises: each position is empty, data or junk;
empty becomes data or junk, data becomes junk only if a user asked for it, junk
stays junk, and no append appears twice.

**ZLog** — the composition. `views` is the head object (the view accepted at
epoch `e` is `views[e]`), `objs` the log objects; all else is indexed by client
or thread. A step is one backend call, one access to the cached view or to the
sequencer, or the end of one wait. What a thread does between two of these is
local. The correspondence with the code:

| Code | Actions |
|---|---|
| `build_log_impl`, `propose_sequencer`, `seal_stripe` | `Open`, `ProposeBegin`, `ProposeSeal` (per object), `ProposeMaxPos` (per object), `ProposeSequencer`, `OpenDone`, `ProposeRetry`, `OpenFail` |
| `ViewReader::refresh_view`, `wait_for_newer_view` | `RefreshView`, the guards `cview > cur` of the waiting steps, `WaitDone` |
| `AppendOp::run`, `TailOp::run` | `SeqGetView`, `AppendTail`, `WriteIo`, `SealObject`, `CheckTail` |
| `ReadOp`, `FillOp`, `TrimOp` | `PosGetView`, `ReadIo`, `FillIo`, `TrimIo`, `SealObject` |
| `TrimToOp`, `advance_min_valid_position` | `TrimToGetView`, `AdvanceRead`, `AdvancePropose`, `TrimToIo` (per object), `TrimToDone`, `SealObject` |
| `try_expand_view`, `expander_entry_` | `ExpandRead`, `ExpandPropose`, `ExpandWaited`, `ExpanderWake`, `ExpanderMap`, `ExpanderClear` |
| `stripe_init_entry_` | `InitTake`, `InitSeal` (per object) |
| `finisher_entry_` and the user | `StartOp`, `Callback` |
| loss of the process | `Crash` |

A finisher's local variables are one record in `th`: `pc`, the operation and
its position, the epoch `view` its next call carries, the epoch `cur` it waits
to see passed, and for the append `position_epoch`. The expander of a client is
the thread numbered 0. Three history variables serve the properties: `wrote`
(the epoch of the sequencer config under which a position was written), `asked`
(positions users asked to trim) and `trimmed_to`; two history fields of a thread
record the tail and the entry when the operation began.

Left out of these modules: the wording of return codes the callers treat alike,
the flatbuffer encoding (a view is the record it encodes), logging, statistics,
the caching of views between two epochs inside `refresh_view` (the cached view
may lag behind storage for as long as it likes).

**NewerView** — what the rest of a client may assume of its view reader: the
active view only moves forward, to views that exist, and a caller goes on when
there is a view newer than the one it named, or on shutdown. These are the
guards of the waiting steps of `ZLog`.

**ViewReader** — one client's reader. Reading the backend happens without
`ViewReader::lock_` and is a step of its own; everything else is a step from
locking to unlocking or to waiting.

| Code | Actions |
|---|---|
| `refresh_entry_` | `RefresherSleep`, `RefresherTimeout` (a wait ends without notification), `RefresherAwake` / `RefresherExit`, `RefresherView`, `RefresherScan` |
| `refresh_view` | `RefresherRead` / `RefresherReadFails`, `RefresherInstall`; for the thread that opens the log `OpenerRead` / `OpenerReadFails`, `OpenerInstall`, `OpenerCheck` |
| `wait_for_newer_view` | `WaitForNewerView` (adds the waiter, sets the timeout, notifies), `WaitDone` |
| `shutdown` | `ShutdownSet`, `ShutdownNotify`, `ShutdownJoin` |
| proposals of any client | `ProposeView` |

`refresh_cond_` is waited on without a predicate, so `NotifyRefresher` reaches
the thread only while it sleeps and is lost otherwise. Timeouts are compared and
doubled as in the code but measure nothing: a wait may end at any time. The
assertion in `refresh_view` sets `aborted`, after which nothing happens. The
history variable `unread` holds the callers that asked to be woken since the
thread last read the views.

**OpQueue** — `queue_op`, `finisher_entry_` and the destructor of `LogImpl`.
`QueueOp` and `QueueOpWait` are `queue_op` below and at the limit, `QueueOpWoken`
its continuation, `SyncReturn` the end of a synchronous call; `FinisherSleep`,
`FinisherTake`, `InvokeCallback`, `CallbackReturn`, `FinisherDone` and
`FinisherExit` are the finisher's loop; `Shutdown`, `ShutdownNotify` and
`ShutdownJoin` the destructor. The list of waiters is kept front first, as in the
code, where callers are added at the front and the one at the back is woken. An
operation's `run()` is one step that ends (what it does is in `ZLog`), and a
callback queues at most one operation. The application destroys a log that none
of its threads is using; callbacks may still be running then.
`OpQueueAssumption` requires a positive limit: `max_inflight_ops = 0`, which the
code does not refuse, makes the first caller wait for ever.

**ObjectSpec** — what the storage interface promises of one log object: an epoch,
a cell per position (empty, data or invalid) and the maximum position `MaxPos`
reports; each call with its refusals. The call and its answer are state: `call` is the request
with its epoch, position, data and limit, and a step does what *this* request
promises, so that a backend that skips the epoch check, or acts on another position,
takes a step that `ObjectSpec` does not have.

**LMDB** — the LMDB backend's transactions as functions of the key space. The
entries, the header with the trim limit, and the maximum of an object are
different keys; `Put`, `Get`, `GetAll`, `Delete`, `Commit` and `Abort` are the
transaction's methods. A head is changed *through the pointer `mdb_get` returned*,
before the put and the commit: `IdInPlace` and `EpochInPlace` are therefore steps
of their own, visible to other processes and not undone by an abort or a crash.

**ClsZlog** — the methods of Ceph's object class, each a function of the object it
runs on. Entries carry their bytes in the omap or point into the stream,
depending on the size the last sealer asked for (`ToStream`); a view is an omap
value; the unique id is an attribute.

**Objects** — one log object in all three. A client makes a call to all of them in
one step: `call` holds the request, the same for all, and `ans` the three answers; only Ceph's `Trim` with `trim_full`
goes on after that, with `TrimList`, `TrimRemove` and `TrimTruncate` per request
and `Crash` at any point. `RamSpec`, `LmdbSpec` and `CephSpec` are the
refinement mappings to `ObjectSpec`.

**RAM** — the in-memory backend's head and link objects. That a random head name
is free is asserted in the code; the model returns what a build without
assertions returns.

**Heads** — `Log::Open` by several clients, on a backend that `Init` chooses.

| Code | Actions |
|---|---|
| `create_or_open` | `Open`, `OpenLog` / `GetHead` (Ceph reads link and head apart), `CreateLog`, `FirstView` (Ceph), `Link` (RAM, Ceph), and `Opened`, `Created` for what it makes of return codes |
| `uniqueId` | `Uid`, `UidCommit` (LMDB), `UidWrite` (Ceph) |
| `build_log_impl` | `FirstRefresh`, `Propose`, `ProposeCommit` (LMDB), `Wait`; `Abort` for a failed `propose_sequencer` |
| an open log | `Refresh`, `Expand` followed by `Propose`, `Close` |
| loss of the process | `Crash` |

A view is here just the sequencer it names; sealing is in `ZLog`.

**Cache** — `Cache` with the policies `LRU` and `ARC`. Lists and hash maps are kept
separately, because the code consults now the one and now the other. `arc_p` is an
integer in units of `1/Scale`, or `NaN`; no constructor sets it, so `Init` chooses
it. One thread uses the cache and does not put a position again that it has
removed: after that the policies' lists hold a position twice and no size holds.

**ZLogInv** states the inductive invariants; **MCZLog** gives values to the
constants.

Operators marked `Mutant` or `Seeded fault` (`Faulty...`, `Late...`) are the seeded faults used to see that
each property can fail; no specification uses them.

## 3. Runs

Bounds: `MaxEpoch` (length of the view history), `MaxStripes` (size of a view's
map), `MaxOps` (operations started), and the thread and client sets. A proposal
beyond `MaxEpoch` and an append beyond the last stripe are not taken; the values
are chosen so that this happens only after the behaviour a run is about. Client
symmetry is used where `InitStripes` is off (only then is the creator a client
like all others) and no liveness is checked.

| Run | Instance | Checks |
|---|---|---|
| `takeover` | 2 clients with 3 threads, 3 appends, one of the clients may crash at any step; the log starts without a stripe and grows to one of 2 objects x 2 slots (285k states) | `TakeoverFences`, `ViewsMonotone`, `AppendOrder`, `SequencerKept` |
| `trimto` | append, fill, read and `trimTo`, 2 objects x 2 slots per stripe, `trimTo` inside the first and into the second stripe (1M states) | `TypeOK`, `ImplementsSharedLog`, `TrimToComplete`, `ReadsSeeConsumed` |
| `live` | all six operations, stripe initialization on, expansion needed, `FairSpec` | `OpsComplete`, `OpenCompletes` |
| `reader` | 2 callers, 3 views, reads may fail, timeouts 1 to 4, `FairSpec` (70k states) | `ImplementsNewerView`, `PromptRead`, `NobodyLeftBehind`, `WaitersServed`, `ShutdownEnds` |
| `queue` | 2 user threads, 2 finishers whose callbacks queue operations, room for 2, 5 operations, `FairSpec` (36k states) | `InflightExact`, `InflightBound`, `WaiterHasWaker`, `OpsHandedOn`, `DestroyedClean`, `OpsAnswered`, `DestructionEnds` |
| `objects` | 2 clients, 2 positions, limits at either, 2 epochs and the invalid epoch 0, entries of 0 and 1 bytes, one client putting large entries in the stream and one not (72k states) | `RamImplements`, `LmdbImplements`, `CephImplements`, `ReclaimedForGood` |
| `heads` | 2 clients, 3 opens, 1 expansion, 3 heads, each backend, both may crash, at most 2 views to a request in Ceph (100 in the code), `FairSpec` (117k states) | `OneLog`, `TokensUnique`, `LinkedIsComplete`, `ReadViewsExact`, `HeadsAppendOnly`, `OpenEnds` |
| `mapping` | widths and slots 1 to 4, positions to 13, `Word32` = 8, `Word64` = 64, stored maps of two and three `MultiStripe`s, one of them misaligned (6k states) | `MapExact`, `MapToExact`, `AbstractionExact`, `MappingStable`, `OnlyAtLimits` |
| `cache` | both policies, sizes 0 to 3, five positions, five values of `arc_p` (850k states) | `SizesBounded`, `PopsOnlyFilled`, `MostRecentKept` |

Two clients are the smallest number with a takeover; with both opening, each can
be overtaken and lose a proposal. Two threads of one client and one of the
other are the fewest that can put appends out of order: one append of the new
sequencer is late, the next one completes, and the old sequencer then uses the
position of the first. In `takeover` the log starts empty, so that expansions and
new sequencers compete for the same epochs; `trimto` and `fill_past_tail` have a
second stripe. Two objects per stripe make a seal of a stripe, and a `trimTo`, a
sequence of steps. `Trim` of a single position is left out of `trimto`, where it
would double the instance: it takes the steps of `Fill`, and its effect on an
object is checked in `objects`, its completion in `live`.
Two callers of the reader make one that joins, or is served, while the other
waits; a maximal timeout of four times the minimum leaves two doublings between
them; three views let one be installed while a second is read and a third
proposed. In the queue two user threads and two callbacks are four callers for two
places, and five operations are enough to fill it, wake a waiter twice and let a
new caller overtake it. In `objects` two clients let one reclaim space while
another does so too, writes, or seals; the second epoch makes the first one's calls
stale. In `heads` three opens are a creator, a rival and a return after a crash or
a close, and three heads an orphan, the log, and a third name to collide with. In
`mapping` the small words put stripes of less than, exactly and more than `Word32`
positions, and the largest position, inside the instance; `max_position` itself
never comes near `Word64`, which would take a map of 2^64 positions. Five
positions with a cache of two fill all four of ARC's lists.

`takeover` and `live` run without the deadlock check: after a crash, survivors may
be left waiting (see below); in `live`, a stuck thread is exactly a violation of
`OpsComplete`. `heads` stops when all opens are used up, `mapping` when the process
has ended or the map covers all positions, `cache` when an empty list was popped.

**Fairness** (`FairSpec`): weak fairness of each client's refresh thread, of the
opening thread, of the stripe initializer, and of each finisher and expander.
All are operating-system threads that block only in the waits that are guards
here, and the refresh thread wakes up by itself at least every
`max_refresh_timeout_ms`. No fairness is assumed of users, of opening a log or
of crashing. In `ViewReader` the same fairness is stated at the level of the
refresh thread's own steps (its waits have a timeout, so they end), with strong
fairness of a successful read: the backend may fail any read, but not every one
for ever. In `OpQueue` callers, finishers and a destructor that has begun are
scheduled; nobody has to queue an operation, and a callback may end without
queueing one. In `Heads` a call of `Log::Open` that has begun goes on (strong
fairness of `Step(c)`): LMDB's write lock is a robust process-shared mutex that is
handed on when its holder commits, aborts or dies, so a client that waits for it
again and again gets it. `OpenEnds` names its exception, a head that an LMDB client
left torn (see below).

`OpsAnswered` and `DestructionEnds` name their exception, `FinishersBlocked`:
callbacks run on finisher threads and count as in flight, so when every finisher
is inside a callback that waits for room in the queue, nobody can make room. The
code does not exclude it, and nothing in the repository promises otherwise.

### Findings

Three runs show the code disagreeing with what the repository says of it.

* `fill_past_tail` (`AppendOrder`): a takeover stops sealing at the first
  non-empty stripe. A `Fill` past the tail makes a later stripe non-empty, so
  earlier stripes stay unsealed and the overtaken client goes on appending there,
  below appends that were already completed. The comment in `propose_sequencer`
  says that sealing no further "should not affect correctness". The passing run
  `takeover` does not depend on this: from the seed on, the fence holds in any
  case, and without fills past the tail so does the order.
* `orphan_seal` (`OpsComplete`): a takeover seals with an epoch that no view has
  yet. If the client dies before its proposal, calls with the latest view's
  epoch get `ESPIPE` and the operation waits for a newer view that nobody
  proposes; `view_reader.h` takes `ESPIPE` to mean that the caller's view is out
  of date.
* `open_abort` (`ManagerShutDown`): two clients open the log at once. The loser's
  `propose_sequencer` returns `EINTR` and `build_log_impl` returns at once,
  destroying the view manager without `shutdown()`, which its destructor asserts;
  its joinable threads end the process in a build without assertions.

Further problems the models contain, without a run of their own:

* `CheckTail` answers from the sequencer of the cached view. A client that was
  superseded and has not noticed reports a tail below completed appends; the API
  document offers it for finding out "how much of the log must be read to be
  up-to-date with other processes" (`ZLog`, action `CheckTail`).
* `refresh_view` reads the latest view before it locks, and while a log is opened
  both the opener and the refresh thread call it. If a view is proposed between
  their reads and the older result is installed last, the assertion that epochs
  do not decrease fails (`ViewReader`, variable `aborted`).
* An LMDB client that dies between changing the head's epoch in place and
  committing the view leaves a head that cannot be opened: `ReadViews` returns
  `EIO` and a proposal of the missing epoch is refused. `ReadViewsExact` and
  `OpenEnds` state exactly this exception (`Torn`).
* A stripe of exactly 2^32 positions passes every assert and divides by zero on
  the first lookup; `trimTo` of the largest position does not end. `OnlyAtLimits`
  states that these are the only such cases.
* A stored map with a `MultiStripe` that begins at no multiple of its width is
  accepted by `valid()` and every assert (`object_map_test.cc:469-536` builds some,
  such as one of width 3 at position 10), but there `map` (`stripe.cc:15`) and
  `map_to` (`object_map.cc:87-97`) disagree about which object a position is in, so
  `trimTo` would delete the data of the wrong objects. `MapToExact` states it, with
  the condition. The program never builds such a map.
* ARC with a `NaN` in the uninitialised `arc_p` pops an empty list
  (`PopsOnlyFilled`).

## 4. Proofs

The proofs about the log hold for all constants that satisfy `LayoutAssumption`,
`MaxOpsAssumption` and `ZLogAssumption`: any set of clients and finishers, any
stripe width and number of slots, any bound on epochs, stripes and operations.
Those about the other components hold for all constants that satisfy the one
assumption of their module. Five theorems have a further hypothesis, which the
code needs and does not check; it is named with the theorem, and the passing runs
that check the same property satisfy it.

### The log

* **`TypeCorrect`** (ZLogFenceProofs) is `Spec => []` of `TypeOK`, `ClientsValid`,
  `ThreadsValid`, `JobsValid` and `SealedAhead`. `TypeOK` bounds epochs by the
  constant `MaxEpoch` only, and alone is not inductive: a step indexes `views` with an epoch a thread remembers, so one must
  know that the view was accepted. `TypeInv` adds `ClientsValid` (an opening or
  open client caches an accepted view, an opener's `cur` is accepted, only open
  clients have background requests) and `ThreadsValid` (a thread between reading
  a view and using it holds an accepted epoch; only finished operations may hold
  the position one past the end; retry counters are positive while retrying); it is
  inductive, with one lemma per action. `JobsValid` says that the stripe initializer
  seals with an accepted epoch, and `SealedAhead` that no object's epoch is above
  `Len(views) + 1`, the epoch of the one view that an opener proposes next. Both
  follow on top of `IndInv` (below), because the history only grows (`HistoryGrows`)
  and every `Seal` is with the epoch of a view its caller holds, or the next
  (`OpSeals`, `ClientSeals`).
* **`ViewsMonotonic`: `Spec => []ViewsMonotone`** (ZLogFenceProofs). Needs that a
  proposal is accepted only on top of the view it was computed from, that an
  expansion does not shrink the map, that `advance_min_valid_position` increased
  the bound *of the view it proposes on* (`ThreadFence`), and that a sequencer
  config is never from the future (`ViewsInv`).
* **`TakeoverSafe`: `Spec => []TakeoverFences`** (ZLogFenceProofs). The argument:
  1. `ObjectsCover`: `MaxPos` of an object covers every append the object took,
     also after fills, trims and the reclaiming of whole objects, and never points
     below the object's stripe.
  2. `OpenersFence`: while the view an opener started from is the latest, every
     object it has sealed has an epoch above all views, so no write gets through,
     and the seed stays above every append to the objects it has measured.
  3. Hence at `ProposeSequencer`, if accepted, everything from the seed on that is
     mapped is sealed with the new epoch and unwritten; what is not mapped is
     unwritten because appends only write what their view maps (`WroteMapped`).
  4. `SeedSealed` keeps this for ever, since epochs only rise; a later write of a
     position above the seed comes through a view at least as new as the seal, or
     through one that maps more than the installing view, which is newer too;
     and sequencer epochs are monotone along views (`WriteAllowed`).

  `IndInv` is the conjunction of all this. It was model-checked on instances like
  those of `takeover` and `trimto` before it was proved.
* **`LogImplements`: `Spec => ImplementsSharedLog`**, **`TrimToSafe`**
  (`TrimToComplete`) and **`ReadsSafe`** (`ReadsSeeConsumed`), in ZLogLogProofs
  from `LogInv` on top of `IndInv`. `LogInv` says what an operation may rely on
  while others change the log (`ThreadLog`): the data of an append is nowhere in
  the log before its write, and no two appends carry the same data, so the write
  the backend accepts is the only one; what a read saw consumed when it began is
  still consumed; trimTo has trimmed every position it is past in its walk, and the
  view it walks over maps the position it was asked for, so that objects added
  meanwhile hold nothing it must trim. For the refinement every write, fill and
  trim at an object is the step of `SharedLog` on the same position, a trimTo
  call on one object trims a set of positions that were asked for, and no other
  step changes what `LogEntry` shows.
* **`SequencerStable`: `Spec => SequencerKept`** (ZLogLogProofs). `refresh_view`
  makes a new Sequencer unless the client's views name it with the same config.
  That it never does so for a client that has one needs `SeqInv`: a config stays
  the one its view installed (`ConfigsOwn`), a client is made the sequencer at most once (`TokenOnce`) since it
  proposes itself only while it opens and never after it was accepted
  (`ProposersNew`), and a live client that its view names has a Sequencer
  (`SequencersValid`).
* **`AppendsOrdered`: `~PastTail => (Spec => []AppendOrder)`** (ZLogLogProofs).
  Real-time order across takeovers: a later append of the same sequencer draws
  from the same counter; one of a later sequencer starts from a seed above every
  append that objects took (`TakeoverFences`); and a superseded sequencer that has
  not learned of the takeover may hand out a position that is too small, but only
  one from its successor's seed on, where the write is refused. The last is the
  heart of `OrderInv`: everything consumed is below some append (`TailObjects`), so
  seeds are (`TailSeeds`); appends were handed out by their sequencer
  (`WroteHanded`), which is therefore already at or past its successor's seed
  (`SupersededFenced`). `~PastTail` is the hypothesis that users fill and trim only
  below the tail. The code does not enforce it; without it the property is false, which
  is what the run `fill_past_tail` shows.

Lemmas about the mapping (a stripe separates positions, growing a map keeps what
is mapped, a fully trimmed object has no position above the limit) and about the
backend's calls (what each returns and changes, `MaxPosCovers`) carry the data
part; both are at the beginning of `ZLogFenceProofs`.

### Inside a client

* **The view reader** (ViewReaderProofs, from `ViewReaderAssumption`):
  `ReaderPrompt` (`PromptRead`), `ReaderLeavesNobody` (`NobodyLeftBehind`) and
  `ReaderImplements`, which is `Spec => ImplementsNewerView`. The inductive
  invariant `ReaderInv` says that the list of waiters is exactly the callers that
  wait, that a released caller's view has been replaced (or the reader shuts
  down), that a view read or scanned with exists, and `PromptInv`: while a request
  is newer than the last read, the timeout the thread is going to use is the
  minimum. `PromptRead` needs the last one because between the request and the
  thread's next wait there are up to four steps, in which other callers arrive.
  For the refinement, `ProposeView` is the contract's `Publish`, an installation
  is `Install` or nothing, `WaitForNewerView` is `Wait`, `WaitDone` is `Return`,
  `ShutdownSet` is `Close`, and all else changes nothing the contract sees.
* **The operation queue** (OpQueueProofs, from `OpQueueAssumption`): `CountExact`
  (`InflightExact`), by counting the finishers that hold an operation;
  `LimitOvershotByOne` (`InflightBound`) and `NoWaiterForgotten`
  (`WaiterHasWaker`), which need that only the waiter at the back is ever woken
  and that there is no overshoot while a woken waiter has not gone on.
  `OpsHanded` (`OpsHandedOn`) is from `HandedInv`: an operation that was issued and
  not called back is held by one thread or once in the queue, and in no two places.
  `DestroyedDrained` (`DestroyedClean`) adds `DtorInv`: application threads are
  out of the log when the destructor runs, a finisher leaves only after `shutdown`
  and only when nothing is queued, the list of waiters names blocked threads. Its
  hypothesis is `Finishers # {}`: `finisher_threads` is an unchecked option
  (`options.h:49`, used at `log_impl.cc:34`), and without a finisher the destructor
  would return with operations still queued.

### Storage

* **Creating and opening** (HeadsProofs, from `HeadsAssumption`, for each
  backend): `LogIsOne` (`OneLog`), `TokensNew` (`TokensUnique`), `LinkComplete`
  (`LinkedIsComplete`), `ReadsExact` (`ReadViewsExact`) and `HeadsKept`, which is
  `Spec => HeadsAppendOnly`. The invariant `HeadsInv` has three parts. `StoreInv`:
  every head has all views up to its epoch, except that in LMDB the last may be
  missing, and the link leads to a head with its first view. `ClientInv`: what
  a call that is between two of its steps relies on (`Fits`), with one LMDB
  write transaction and one creator at a time. `TokenInv`: every token handed out
  is behind the counter it came from, and the token of an LMDB transaction that
  has not committed is not yet among them.
* **The log object of each backend implements `ObjectSpec`** (ObjectsProofs, from
  `ObjectsAssumption`). First the promise is stated as a relation between the
  abstract object before, after, and the answer (`Promised`), then each call of a
  backend is shown to keep it under the refinement mapping.
  * `RamCorrect`: `Spec => RamImplements`. Needs only that an object whose entries
    are gone has a limit that covers its maximum (`RamInv`).
  * `LmdbCorrect`: `LimitsFit => (Spec => LmdbImplements)`. `LmdbInv` says which
    keys are there and what they hold. `LimitsFit` is `2 * MaxLimit < Word`: a limit
    of 2^63 or more is stored in an `int64_t` (`lmdb.cc:603`) and reads back as none.
  * `CephCorrect`: `LimitsFit /\ OffsetsFit => (Spec => CephImplements)`. The header
    keeps the limit as LMDB does (`StoredLimit`, `cls_zlog.h:59-70`). `CephInv`: an entry in
    the stream has its bytes at its offset, the stream is no longer than the bytes
    written to used positions, and whoever reclaims space has set a limit that
    covers the object. Hence removing keys and truncating, one call at a time,
    with crashes and other clients in between, changes nothing `ObjectSpec` sees.
    `OffsetsFit` says that all bytes an object can take have offsets that fit
    into 32 bits, the width of `offset_` (`cls_zlog.h:241`). Beyond that an entry
    written at a wrapped offset overwrites the start of the stream (`Overwrite`).
  * `ReclaimedStays`: `LimitsFit /\ OffsetsFit => (Spec => []ReclaimedForGood)`, from
    `GoneInv`: the three backends agree on the epoch; from the class call on the
    object is covered, and empty in RAM and LMDB; a client that reclaims space in
    Ceph has removed all keys before the one it is at (`Reached`), so at
    truncation none is left.

### The object map

The proofs (MappingProofs) hold for words of any width, any options and positions.
`MappingAssumption` asks for three things. `Word64` is `Word32` squared. The positions
looked at and trimmed leave a head room of one 32-bit word below `Word64`, so that the
stripe that maps them ends inside the address space. A stored map is one that
a program wrote: typed, accepted by the asserts (`Sound`), with fewer than
2^32 positions per stripe and no `MultiStripe` beyond the address space
(`Straight`); it may mix any number of widths, and begin a `MultiStripe` anywhere.

The invariant `MapInv` (`MapHolds`) says of each `MultiStripe` by itself that it
ends where its size says, below `Word64`, and
that only stripes of the options' size can have exactly 2^32 positions. What the
properties need of the whole map follows from `valid()`'s pairwise conditions, and
there the induction over data that the prover lacks is replaced by least
counterexamples:

1. `Tiled`: the `MultiStripes` cover positions and stripe ids from 0 on without a gap
   or an overlap (`OkTiled`). The least stripe that does not begin where the one
   before it ends contradicts `valid()`.
2. Stripe ids correspond one to one to the first positions of stripes
   (`Counted`), so the number of stripes below a position, which the reference
   counts, is the stripe id the code computes with `/` and `%` (`LookupIsExact`).
3. The loop of `expand_mapping` has the closed form `Rounds(n)`: `n` rounds lengthen
   the last `MultiStripe` by `n` stripes, or add one of `n` (`GrownByIs`). The
   first round that reaches the position is where the loop ends, and because of the
   head room no product or sum has wrapped by then (`Expansion`).
4. `decode` after `encode` is the identity on such maps (`StoredBack`).
5. `map_to` numbers a stripe's objects from the stripe's first position
   (`CountedOid`). `TrimIsExact` is about these, on any map; they are those of `map`
   if and only if the map is `Aligned` (`SameObjects`).

From these follow **`LookupIsExact`** (`MapExact`), **`TrimIsExact`** (`MapToExact`),
**`MappingIsStable`** (`MappingStable`), **`WrapsOnlyAtLimits`** (`OnlyAtLimits`)
and **`NumberIsExact`** (`AbstractionExact`). The last one licenses the use of
`ObjectMap` in `Backend` and `ZLog`.

### Cache

The proofs (CacheProofs) need of the constants only `CacheAssumption`: sizes are
natural numbers, and the uninitialised `arc_p` is an integer in units of `1/Scale` or
`NaN`. `CacheInv` (`CacheHolds`) says that each list holds the keys of its hash map, each
once, and no position is in two lists; that what is cached is in a list from which it can
be evicted, and such a list holds nothing else but what the user removed; and, for
ARC, that the sizes of the lists keep their bounds *and there are ghosts only while the
cache is full* (`Sized`). The last conjunct is what makes the bounds inductive: the cases
of `ARC::cache_put_miss` compare sums of list sizes and evict in only some of them.
The other possibility in `ArcGood` is that an empty list was popped, which needs a
`NaN`. For LRU, the list is a prefix of the positions in the order of use (`LruGood`).

* **`SizesStay`** (`SizesBounded`), **`PopsFilled`** (`PopsOnlyFilled`) and
  **`LruMostRecent`** (`MostRecentKept`) are consequences of `CacheInv`.

### What stays with TLC

* Liveness, which is out of the prover's reach: `OpsComplete`, `OpenCompletes`,
  `WaitersServed`, `ShutdownEnds`, `OpsAnswered`, `DestructionEnds`, `OpenEnds`.
* The three findings, which are counterexamples.

Every safety invariant, action property and refinement of the passing runs is stated
by a theorem.

## 5. Plan

In order of importance; all of it is done.

1. `ObjectMap`, `Backend`, `ZLog`: the protocol, its safety runs, its findings.
2. Liveness under the code's scheduling.
3. Proofs: types, monotone views, the fence.
4. View reader (`ViewReader`, `NewerView`) with its proofs.
5. Operation queue (`OpQueue`) with its proofs.
6. Log objects of the three backends (`ObjectSpec`, `LMDB`, `ClsZlog`, `Objects`).
7. Creating and opening (`RAM`, `Heads`).
8. The general object map (`Mapping`).
9. Cache and eviction (`Cache`).
10. Proofs: what users see of the log, its sequencers, the rest of the operation
    queue, creating and opening, the log objects of the three backends.
11. Proofs: the general object map, the cache's lists.

### Not modelled

* The handshake of the view manager's own threads with `shutdown()`: the expander
  and the initializer leave their loops as the refresh thread does.
* The cache under several threads and a position put again after `remove`; the
  log does not use the cache.
* Setting up and taking down a backend (`Initialize`, `Init`, `Close`) and loading
  it as a plugin: pure I/O.
* Flatbuffer encoding except for the order of the map's fields, `dump`, statistics
  and logging.
* Language bindings, command line tools and benchmarks (among them all of
  `src/attic`, which is not built): users of the library without state of their own.
* The sequencer server and its client library: not part of the build.
* Vendored support code (`util`, `port`, `monitoring`, memory pools).
