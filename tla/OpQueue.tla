------------------------------- MODULE OpQueue -------------------------------
(***************************************************************************)
(* The queue of asynchronous operations of an open log (LogImpl::queue_op, *)
(* finisher_entry_ and the destructor).  User threads queue operations,    *)
(* finisher threads run them and call them back, and a limit on the        *)
(* operations in flight makes callers wait.  A callback runs on a finisher *)
(* thread and may itself queue an operation.                               *)
(*                                                                         *)
(* LogImpl::lock guards everything here, so the code between locking it    *)
(* and unlocking it, or waiting on a condition, is one step.               *)
(*                                                                         *)
(* What an operation does (LogOp::run) is the business of module ZLog; here*)
(* it is one step that ends.                                               *)
(***************************************************************************)
EXTENDS Integers, Sequences, FiniteSets

CONSTANTS
    Users,          \* threads of the application
    Finishers,      \* LogImpl::finishers_
    MaxInflight,    \* Options::max_inflight_ops
    CallbackQueues, \* may a callback queue an operation?
    MaxOps          \* bound: operations ever queued

ASSUME OpQueueAssumption ==
    /\ Users \cap Finishers = {}
    /\ IsFiniteSet(Finishers)
    /\ MaxInflight \in Nat \ {0}
    /\ CallbackQueues \in BOOLEAN
    /\ MaxOps \in Nat

VARIABLES
    pending_ops,       \* LogImpl::pending_ops_
    num_inflight_ops,  \* LogImpl::num_inflight_ops_
    queue_op_waiters,  \* LogImpl::queue_op_waiters_, front first
    shutdown,          \* LogImpl::shutdown
    dtor,              \* where ~LogImpl is
    th,                \* where each thread is
    issued,            \* history: operations created so far
    answered           \* history: how each operation was called back

vars == <<pending_ops, num_inflight_ops, queue_op_waiters, shutdown, dtor, th,
          issued, answered>>

Ops == 1 .. MaxOps

Threads == Users \cup Finishers

\* What a thread holds: `op' is the operation a user thread waits for or a
\* finisher processes, `new' the one it is handing to queue_op.
ThreadState ==
    [pc : {"idle", "blocked", "sync", "asleep", "run", "drop", "callback",
           "done", "exit"},
     op : 0 .. MaxOps, new : 0 .. MaxOps]

Idle == [pc |-> "idle", op |-> 0, new |-> 0]

\* A waiter's flag, false until it is woken, and whose it is.
Waiter == [thread : Threads, flag : {"waiting", "woken"}]

Init ==
    /\ pending_ops = <<>>
    /\ num_inflight_ops = 0
    /\ queue_op_waiters = <<>>
    /\ shutdown = FALSE
    /\ dtor = "up"
    /\ th = [t \in Threads |-> Idle]
    /\ issued = 0
    /\ answered = [o \in Ops |-> "no"]

-----------------------------------------------------------------------------
(* queue_op                                                                 *)

\* finishers_cond_.notify_all
NotifyAll(f) == [t \in Threads |->
    IF f[t].pc = "asleep" THEN [f[t] EXCEPT !.pc = "idle"] ELSE f[t]]

\* Where queue_op returns to: into a callback, or into the application, which
\* either goes on (the Async calls) or waits for the callback (Append, Read...).
Returned(t, o) ==
    IF t \in Finishers THEN {[th[t] EXCEPT !.pc = "done", !.new = 0]}
    ELSE {Idle, [Idle EXCEPT !.pc = "sync", !.op = o]}

\* Mutant: queue_op does not notify the finishers.
FaultyEnqueue(t, o) ==
    /\ num_inflight_ops' = num_inflight_ops + 1
    /\ pending_ops' = Append(pending_ops, o)
    /\ \E r \in Returned(t, o) : th' = [th EXCEPT ![t] = r]

\* The part of queue_op after the wait.
Enqueue(t, o) ==
    /\ num_inflight_ops' = num_inflight_ops + 1
    /\ pending_ops' = Append(pending_ops, o)
    /\ \E r \in Returned(t, o) : th' = NotifyAll([th EXCEPT ![t] = r])

\* Who may call queue_op: a user thread while the log exists, and a callback.
MayQueue(t) ==
    \/ t \in Users /\ th[t].pc = "idle" /\ dtor = "up"
    \/ t \in Finishers /\ th[t].pc = "callback" /\ CallbackQueues

\* The limit is tested once, before the wait.
QueueOp(t) ==
    /\ MayQueue(t) /\ issued < MaxOps
    /\ num_inflight_ops < MaxInflight
    /\ issued' = issued + 1
    /\ Enqueue(t, issued + 1)
    /\ UNCHANGED <<queue_op_waiters, shutdown, dtor, answered>>

QueueOpWait(t) ==
    /\ MayQueue(t) /\ issued < MaxOps
    /\ num_inflight_ops >= MaxInflight
    /\ issued' = issued + 1
    /\ queue_op_waiters' =
         <<[thread |-> t, flag |-> "waiting"]>> \o queue_op_waiters
    /\ th' = [th EXCEPT ![t] = [@ EXCEPT !.pc = "blocked", !.new = issued + 1]]
    /\ UNCHANGED <<pending_ops, num_inflight_ops, shutdown, dtor, answered>>

EraseWaiter(i) ==
    SubSeq(queue_op_waiters, 1, i - 1)
      \o SubSeq(queue_op_waiters, i + 1, Len(queue_op_waiters))

\* Mutant: a woken caller takes over the place in flight it was woken for.
FaultyQueueOpWoken(t) ==
    /\ th[t].pc = "blocked"
    /\ \E i \in DOMAIN queue_op_waiters :
         /\ queue_op_waiters[i] = [thread |-> t, flag |-> "woken"]
         /\ queue_op_waiters' = EraseWaiter(i)
    /\ pending_ops' = Append(pending_ops, th[t].new)
    /\ \E r \in Returned(t, th[t].new) : th' = NotifyAll([th EXCEPT ![t] = r])
    /\ UNCHANGED <<num_inflight_ops, shutdown, dtor, issued, answered>>

\* A caller that was woken goes on, whatever the number in flight is by now.
QueueOpWoken(t) ==
    /\ th[t].pc = "blocked"
    /\ \E i \in DOMAIN queue_op_waiters :
         /\ queue_op_waiters[i] = [thread |-> t, flag |-> "woken"]
         /\ queue_op_waiters' = EraseWaiter(i)
    /\ Enqueue(t, th[t].new)
    /\ UNCHANGED <<shutdown, dtor, issued, answered>>

\* A synchronous call returns once its callback has run.
SyncReturn(t) ==
    /\ th[t].pc = "sync" /\ answered[th[t].op] # "no"
    /\ th' = [th EXCEPT ![t] = Idle]
    /\ UNCHANGED <<pending_ops, num_inflight_ops, queue_op_waiters, shutdown,
                   dtor, issued, answered>>

-----------------------------------------------------------------------------
(* finisher_entry_                                                          *)

FinisherSleep(f) ==
    /\ th[f].pc = "idle" /\ pending_ops = <<>> /\ ~shutdown
    /\ th' = [th EXCEPT ![f] = [@ EXCEPT !.pc = "asleep"]]
    /\ UNCHANGED <<pending_ops, num_inflight_ops, queue_op_waiters, shutdown,
                   dtor, issued, answered>>

\* Mutant: the operation taken stays in the list.
FaultyFinisherTake(f) ==
    /\ th[f].pc = "idle" /\ pending_ops # <<>>
    /\ th' = [th EXCEPT ![f] = [@ EXCEPT
                !.pc = IF shutdown THEN "drop" ELSE "run",
                !.op = Head(pending_ops)]]
    /\ UNCHANGED <<pending_ops, num_inflight_ops, queue_op_waiters, shutdown,
                   dtor, issued, answered>>

\* Once the log shuts down, queued operations are called back without being run.
FinisherTake(f) ==
    /\ th[f].pc = "idle" /\ pending_ops # <<>>
    /\ pending_ops' = Tail(pending_ops)
    /\ th' = [th EXCEPT ![f] = [@ EXCEPT
                !.pc = IF shutdown THEN "drop" ELSE "run",
                !.op = Head(pending_ops)]]
    /\ UNCHANGED <<num_inflight_ops, queue_op_waiters, shutdown, dtor, issued,
                   answered>>

\* Mutant: a finisher leaves as soon as it sees the shutdown.
FaultyFinisherExit(f) ==
    /\ th[f].pc = "idle" /\ shutdown
    /\ th' = [th EXCEPT ![f] = [@ EXCEPT !.pc = "exit"]]
    /\ UNCHANGED <<pending_ops, num_inflight_ops, queue_op_waiters, shutdown,
                   dtor, issued, answered>>

FinisherExit(f) ==
    /\ th[f].pc = "idle" /\ pending_ops = <<>> /\ shutdown
    /\ th' = [th EXCEPT ![f] = [@ EXCEPT !.pc = "exit"]]
    /\ UNCHANGED <<pending_ops, num_inflight_ops, queue_op_waiters, shutdown,
                   dtor, issued, answered>>

\* op->run() ends, or is skipped, and the callback begins.
InvokeCallback(f) ==
    /\ th[f].pc \in {"run", "drop"}
    /\ answered' = [answered EXCEPT ![th[f].op] = th[f].pc]
    /\ th' = [th EXCEPT ![f] = [@ EXCEPT !.pc = "callback"]]
    /\ UNCHANGED <<pending_ops, num_inflight_ops, queue_op_waiters, shutdown,
                   dtor, issued>>

\* A callback ends that queues nothing.
CallbackReturn(f) ==
    /\ th[f].pc = "callback"
    /\ th' = [th EXCEPT ![f] = [@ EXCEPT !.pc = "done"]]
    /\ UNCHANGED <<pending_ops, num_inflight_ops, queue_op_waiters, shutdown,
                   dtor, issued, answered>>

\* Mutant: the end of an operation wakes every waiter.
FaultyWakeOldest(w) == [i \in DOMAIN w |-> [w[i] EXCEPT !.flag = "woken"]]

\* The oldest waiter is at the back of the list; it may have been woken before.
WakeOldest(w) ==
    IF w = <<>> THEN w ELSE [w EXCEPT ![Len(w)] = [@ EXCEPT !.flag = "woken"]]

\* Mutant: a waiter is woken only by the end that makes the first room.
FaultyFinisherDone(f) ==
    /\ th[f].pc = "done"
    /\ num_inflight_ops' = num_inflight_ops - 1
    /\ queue_op_waiters' = IF num_inflight_ops = MaxInflight
                           THEN WakeOldest(queue_op_waiters)
                           ELSE queue_op_waiters
    /\ th' = [th EXCEPT ![f] = Idle]
    /\ UNCHANGED <<pending_ops, shutdown, dtor, issued, answered>>

FinisherDone(f) ==
    /\ th[f].pc = "done"
    /\ num_inflight_ops' = num_inflight_ops - 1
    /\ queue_op_waiters' = WakeOldest(queue_op_waiters)
    /\ th' = [th EXCEPT ![f] = Idle]
    /\ UNCHANGED <<pending_ops, shutdown, dtor, issued, answered>>

-----------------------------------------------------------------------------
(* ~LogImpl.  The application destroys a log no thread of it is using.      *)

Shutdown ==
    /\ dtor = "up" /\ \A u \in Users : th[u].pc = "idle"
    /\ shutdown' = TRUE
    /\ dtor' = "notify"
    /\ UNCHANGED <<pending_ops, num_inflight_ops, queue_op_waiters, th, issued,
                   answered>>

\* Mutant: the destructor joins the finishers without waking them.
FaultyShutdownNotify ==
    /\ dtor = "notify"
    /\ dtor' = "join"
    /\ UNCHANGED <<pending_ops, num_inflight_ops, queue_op_waiters, shutdown,
                   th, issued, answered>>

ShutdownNotify ==
    /\ dtor = "notify"
    /\ dtor' = "join"
    /\ th' = NotifyAll(th)
    /\ UNCHANGED <<pending_ops, num_inflight_ops, queue_op_waiters, shutdown,
                   issued, answered>>

ShutdownJoin ==
    /\ dtor = "join" /\ \A f \in Finishers : th[f].pc = "exit"
    /\ dtor' = "gone"
    /\ UNCHANGED <<pending_ops, num_inflight_ops, queue_op_waiters, shutdown,
                   th, issued, answered>>

-----------------------------------------------------------------------------
CallerStep(t) == QueueOpWoken(t) \/ SyncReturn(t)

FinisherStep(f) ==
    \/ FinisherSleep(f) \/ FinisherTake(f) \/ FinisherExit(f)
    \/ InvokeCallback(f) \/ CallbackReturn(f) \/ FinisherDone(f)

DtorStep == ShutdownNotify \/ ShutdownJoin

\* Every finisher thread sits in a callback that waits for room in the queue
\* only a finisher could make.
FinishersBlocked == \A f \in Finishers : th[f].pc = "blocked"

\* The log has been destroyed, or no thread has anything to do.
Stopped ==
    \/ dtor = "gone"
    \/ FinishersBlocked
    \/ /\ \A f \in Finishers : th[f].pc = "asleep"
       /\ \A u \in Users : th[u].pc = "idle"

Next ==
    \/ \E t \in Threads : QueueOp(t) \/ QueueOpWait(t) \/ CallerStep(t)
    \/ \E f \in Finishers : FinisherStep(f)
    \/ Shutdown \/ DtorStep
    \/ Stopped /\ UNCHANGED vars

Spec == Init /\ [][Next]_vars

\* The threads are scheduled, operations end and the destructor, once begun,
\* goes on.  Nobody has to queue operations or destroy the log, and a callback
\* that queues an operation is not obliged to.
Fairness ==
    /\ \A t \in Threads : WF_vars(CallerStep(t))
    /\ \A f \in Finishers : WF_vars(FinisherStep(f))
    /\ WF_vars(DtorStep)

FairSpec == Spec /\ Fairness

-----------------------------------------------------------------------------
(* Properties *)

TypeOK ==
    /\ pending_ops \in Seq(Ops)
    /\ num_inflight_ops \in Int
    /\ queue_op_waiters \in Seq(Waiter)
    /\ shutdown \in BOOLEAN
    /\ dtor \in {"up", "notify", "join", "gone"}
    /\ th \in [Threads -> ThreadState]
    /\ issued \in 0 .. MaxOps
    /\ answered \in [Ops -> {"no", "run", "drop"}]

\* A finisher holds an operation it has not yet taken off the count.
Processing(f) == th[f].pc \in {"run", "drop", "callback", "blocked", "done"}

\* num_inflight_ops_ counts exactly the operations that are queued or with a
\* finisher, so the assertion that it is positive before finisher_entry_
\* decrements it holds and the unsigned count never wraps.
InflightExact ==
    num_inflight_ops =
        Len(pending_ops) + Cardinality({f \in Finishers : Processing(f)})

\* The limit max_inflight_ops is overshot by at most one: a caller that was
\* woken does not test it again, while another may have taken the free place,
\* but only one waiter is woken at a time (queue_op, finisher_entry_).
InflightBound == num_inflight_ops <= MaxInflight + 1

\* A caller waits in queue_op only while somebody will wake it: an operation is
\* in flight, whose end wakes the oldest waiter, or the oldest waiter has been
\* woken and will be in flight itself.  A second end that wakes a waiter
\* already woken loses no wakeup.
WaiterHasWaker ==
    queue_op_waiters # <<>> =>
        \/ num_inflight_ops > 0
        \/ queue_op_waiters[Len(queue_op_waiters)].flag = "woken"

\* Where an operation that was issued is.
Places(o) ==
    {t \in Threads : th[t].new = o}
      \cup {f \in Finishers : th[f].op = o /\ th[f].pc \in {"run", "drop"}}

\* An operation is handed on, never copied or dropped: until it is called back
\* it is with one caller of queue_op, once in pending_ops_, or with one
\* finisher; afterwards it is in none of them, so it is called back once.
OpsHandedOn ==
    \A o \in 1 .. issued :
        Cardinality(Places(o))
          + Cardinality({i \in DOMAIN pending_ops : pending_ops[i] = o})
        = IF answered[o] = "no" THEN 1 ELSE 0

\* When the destructor returns, every operation was called back and nothing is
\* left in the queue or waiting for it, also if callbacks queued operations
\* while the queue was drained (~LogImpl, finisher_entry_).
DestroyedClean ==
    dtor = "gone" =>
        /\ pending_ops = <<>> /\ queue_op_waiters = <<>>
        /\ num_inflight_ops = 0
        /\ \A o \in 1 .. issued : answered[o] # "no"

\* Every operation is called back and every call of queue_op returns, unless
\* all finisher threads are stuck in callbacks that wait for room in the queue.
OpsAnswered ==
    \A o \in Ops : issued >= o ~> answered[o] # "no" \/ FinishersBlocked

\* The destructor returns, unless all finisher threads are stuck in callbacks.
DestructionEnds == shutdown ~> dtor = "gone" \/ FinishersBlocked
==============================================================================
