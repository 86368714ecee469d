---------------------------- MODULE OpQueueProofs ----------------------------
(***************************************************************************)
(* The count of operations in flight is exact, it exceeds the limit by at  *)
(* most one, and a caller that waits for room is never forgotten, for any  *)
(* number of user threads, finishers and operations.                       *)
(***************************************************************************)
EXTENDS OpQueue, FiniteSetTheorems, TLAPS

\* The finishers that hold an operation.
Busy == {f \in Finishers : Processing(f)}

\* A caller in queue_op's wait holds the operation it is about to queue.
BlockedHasOp == \A t \in Threads : th[t].pc = "blocked" => th[t].new \in Ops

\* Only the waiter at the back of the list is ever woken.
OnlyOldestWoken ==
    \A i \in 1 .. Len(queue_op_waiters) :
        queue_op_waiters[i].flag = "woken" => i = Len(queue_op_waiters)

\* As long as a woken waiter has not gone on there is no overshoot.
WokenBound ==
    queue_op_waiters # <<>>
      /\ queue_op_waiters[Len(queue_op_waiters)].flag = "woken"
        => num_inflight_ops <= MaxInflight

\* The inductive invariant.
CountInv == TypeOK /\ BlockedHasOp /\ InflightExact

QueueInv == OnlyOldestWoken /\ WokenBound /\ InflightBound /\ WaiterHasWaker

-----------------------------------------------------------------------------
\* Numbers of operations, with 0 for none.
LEMMA OpNumbers ==
    0 \in 0 .. MaxOps /\ \A o \in Ops : o \in 0 .. MaxOps
BY OpQueueAssumption DEF Ops

\* An idle thread, and one that waits for the operation it queued.
LEMMA IdleType ==
    /\ Idle \in ThreadState /\ Idle.pc = "idle"
    /\ \A o \in 0 .. MaxOps :
         /\ [Idle EXCEPT !.pc = "sync", !.op = o] \in ThreadState
         /\ [Idle EXCEPT !.pc = "sync", !.op = o].pc = "sync"
BY OpNumbers DEF Idle, ThreadState

\* The busy finishers are finitely many.
LEMMA BusyFinite == IsFiniteSet(Busy) /\ Cardinality(Busy) \in Nat
<1>1. IsFiniteSet(Busy)
  BY OpQueueAssumption, FS_Subset DEF Busy
<1> QED BY <1>1, FS_CardinalityType

\* The part of queue_op after the wait keeps the count exact.
LEMMA EnqueueCounts ==
    ASSUME CountInv, NEW t \in Threads, NEW o \in Ops, Enqueue(t, o),
           \/ t \in Users
           \/ t \in Finishers /\ th[t].pc \in {"callback", "blocked"}
    PROVE  /\ pending_ops' \in Seq(Ops)
           /\ num_inflight_ops' = num_inflight_ops + 1
           /\ th' \in [Threads -> ThreadState]
           /\ BlockedHasOp' /\ InflightExact'
<1>1. TypeOK /\ BlockedHasOp /\ InflightExact
  BY DEF CountInv
<1>2. /\ pending_ops' \in Seq(Ops) /\ Len(pending_ops') = Len(pending_ops) + 1
      /\ num_inflight_ops' = num_inflight_ops + 1
  BY <1>1 DEF Enqueue, TypeOK
<1>3. PICK r \in Returned(t, o) : th' = NotifyAll([th EXCEPT ![t] = r])
  BY DEF Enqueue
<1>4. /\ r \in ThreadState /\ r.pc \in {"done", "idle", "sync"}
      /\ t \in Finishers => r.pc = "done"
  <2>1. th[t] \in ThreadState /\ o \in 0 .. MaxOps /\ 0 \in 0 .. MaxOps
    BY <1>1, OpNumbers DEF TypeOK
  <2>2. CASE t \in Finishers
    <3>1. r = [th[t] EXCEPT !.pc = "done", !.new = 0]
      BY <1>3, <2>2 DEF Returned
    <3> QED BY <2>1, <3>1 DEF ThreadState
  <2>3. CASE t \notin Finishers
    <3>1. r = Idle \/ r = [Idle EXCEPT !.pc = "sync", !.op = o]
      BY <1>3, <2>3 DEF Returned
    <3> QED BY <2>1, <2>3, <3>1, IdleType
  <2> QED BY <2>2, <2>3
<1>5. \A u \in Threads :
         th'[u] = IF u = t THEN r
                  ELSE IF th[u].pc = "asleep" THEN [th[u] EXCEPT !.pc = "idle"]
                  ELSE th[u]
  BY <1>1, <1>3, <1>4 DEF NotifyAll, TypeOK
<1>6. th' \in [Threads -> ThreadState]
  <2>1. \A u \in Threads : th'[u] \in ThreadState
    BY <1>1, <1>4, <1>5 DEF TypeOK, ThreadState
  <2>2. th' = [u \in Threads |-> th'[u]]
    BY <1>3 DEF NotifyAll
  <2> QED BY <2>1, <2>2
<1>7. BlockedHasOp'
  <2>1. ASSUME NEW u \in Threads, th'[u].pc = "blocked"
        PROVE  th'[u].new \in Ops
    <3>1. th[u] \in ThreadState
      BY <1>1 DEF TypeOK
    <3>2. th'[u] = th[u]
      BY <1>4, <1>5, <2>1, <3>1 DEF ThreadState
    <3> QED BY <1>1, <2>1, <3>2 DEF BlockedHasOp
  <2> QED BY <2>1 DEF BlockedHasOp, Ops
<1>8. Busy' = Busy
  <2>1. ASSUME NEW f \in Finishers
        PROVE  Processing(f)' <=> Processing(f)
    <3>1. th[f] \in ThreadState /\ f \in Threads
      BY <1>1 DEF TypeOK, Threads
    <3>2. CASE f = t
      <4>1. Processing(f)
        BY <3>2, OpQueueAssumption DEF Processing
      <4>2. Processing(f)'
        BY <1>4, <1>5, <3>1, <3>2 DEF Processing
      <4> QED BY <4>1, <4>2
    <3>3. CASE f # t
      BY <1>5, <3>1, <3>3 DEF Processing, ThreadState
    <3> QED BY <3>2, <3>3
  <2> QED BY <2>1 DEF Busy
<1>9. InflightExact'
  <2>1. num_inflight_ops = Len(pending_ops) + Cardinality(Busy)
    BY <1>1 DEF InflightExact, Busy
  <2>2. Len(pending_ops) \in Nat
    BY <1>1 DEF TypeOK
  <2>3. num_inflight_ops' = Len(pending_ops') + Cardinality(Busy')
    BY <1>2, <1>8, <2>1, <2>2, BusyFinite
  <2> QED BY <2>3 DEF InflightExact, Busy
<1> QED BY <1>2, <1>6, <1>7, <1>9

\* A step of one thread that moves nothing between the queue and the finishers.
LEMMA ThreadStepCounts ==
    ASSUME CountInv, NEW t \in Threads, NEW s \in ThreadState,
           th' = [th EXCEPT ![t] = s],
           s.pc = "blocked" => s.new \in Ops,
           UNCHANGED <<pending_ops, num_inflight_ops>>,
           LET busy == {"run", "drop", "callback", "blocked", "done"}
           IN  t \in Finishers => (s.pc \in busy <=> th[t].pc \in busy)
    PROVE  /\ th' \in [Threads -> ThreadState]
           /\ BlockedHasOp' /\ InflightExact'
<1>1. TypeOK /\ BlockedHasOp /\ InflightExact
  BY DEF CountInv
<1>2. th' \in [Threads -> ThreadState]
  BY <1>1 DEF TypeOK
<1>3. BlockedHasOp'
  BY <1>1 DEF BlockedHasOp, TypeOK, Ops
<1>4. Busy' = Busy
  <2>1. ASSUME NEW f \in Finishers
        PROVE  Processing(f)' <=> Processing(f)
    BY <1>1 DEF Processing, TypeOK, Threads
  <2> QED BY <2>1 DEF Busy
<1>5. InflightExact'
  BY <1>1, <1>4 DEF InflightExact, Busy
<1> QED BY <1>2, <1>3, <1>5

-----------------------------------------------------------------------------
\* Init establishes the invariant.
LEMMA InitCounts == Init => CountInv /\ QueueInv
<1> SUFFICES ASSUME Init PROVE CountInv /\ QueueInv
  OBVIOUS
<1> USE DEF Init
<1>1. TypeOK
  <2>1. issued \in 0 .. MaxOps
    BY OpNumbers
  <2>2. th \in [Threads -> ThreadState]
    BY IdleType
  <2>3. pending_ops \in Seq(Ops) /\ queue_op_waiters \in Seq(Waiter)
    OBVIOUS
  <2>4. shutdown \in BOOLEAN
    BY Zenon
  <2>5. num_inflight_ops \in Int
        /\ answered \in [Ops -> {"no", "run", "drop"}]
        /\ dtor \in {"up", "notify", "join", "gone"}
    OBVIOUS
  <2> QED BY ONLY <2>1, <2>2, <2>3, <2>4, <2>5 DEF TypeOK
<1>2. BlockedHasOp
  BY DEF BlockedHasOp, Idle
<1>3. InflightExact
  <2>1. {f \in Finishers : Processing(f)} = {}
    BY DEF Processing, Idle, Threads
  <2>2. Cardinality({f \in Finishers : Processing(f)}) = 0
    BY <2>1, FS_EmptySet
  <2> QED BY <2>2 DEF InflightExact
<1>4. OnlyOldestWoken
  BY DEF OnlyOldestWoken
<1>5. WokenBound /\ WaiterHasWaker
  BY DEF WokenBound, WaiterHasWaker
<1>6. InflightBound
  BY OpQueueAssumption DEF InflightBound
<1> QED BY <1>1, <1>2, <1>3, <1>4, <1>5, <1>6 DEF CountInv, QueueInv

\* queue_op below the limit.
LEMMA QueueOpCounts ==
    ASSUME CountInv, QueueInv, NEW t \in Threads, QueueOp(t)
    PROVE  CountInv' /\ QueueInv'
<1>1. TypeOK /\ num_inflight_ops < MaxInflight /\ issued < MaxOps
  BY DEF CountInv, QueueOp
<1>2. issued + 1 \in Ops
  BY <1>1, OpQueueAssumption DEF TypeOK, Ops
<1>3. /\ pending_ops' \in Seq(Ops)
      /\ num_inflight_ops' = num_inflight_ops + 1
      /\ th' \in [Threads -> ThreadState]
      /\ BlockedHasOp' /\ InflightExact'
  BY <1>2, EnqueueCounts DEF QueueOp, MayQueue
<1>4. CountInv'
  BY <1>1, <1>2, <1>3 DEF CountInv, TypeOK, QueueOp, Ops
<1>5. QueueInv'
  <2>1. queue_op_waiters' = queue_op_waiters /\ num_inflight_ops \in Int
        /\ MaxInflight \in Int
    BY <1>1, OpQueueAssumption DEF QueueOp, TypeOK
  <2> QED BY <1>1, <1>3, <2>1
        DEF QueueInv, OnlyOldestWoken, WokenBound, InflightBound, WaiterHasWaker
<1> QED BY <1>4, <1>5

\* queue_op at the limit: a new waiter at the front of the list.
LEMMA QueueOpWaitCounts ==
    ASSUME CountInv, QueueInv, NEW t \in Threads, QueueOpWait(t)
    PROVE  CountInv' /\ QueueInv'
<1> DEFINE s == [th[t] EXCEPT !.pc = "blocked", !.new = issued + 1]
           w == queue_op_waiters
           x == [thread |-> t, flag |-> "waiting"]
<1>1. /\ TypeOK /\ num_inflight_ops >= MaxInflight /\ issued < MaxOps
      /\ w \in Seq(Waiter) /\ num_inflight_ops \in Int /\ MaxInflight \in Nat \ {0}
  BY OpQueueAssumption DEF CountInv, QueueOpWait, TypeOK
<1>2. issued + 1 \in Ops
  BY <1>1, OpQueueAssumption DEF TypeOK, Ops
<1>3. s \in ThreadState /\ s.pc = "blocked" /\ s.new \in Ops
  <2>1. th[t] \in ThreadState /\ issued + 1 \in 0 .. MaxOps
    BY <1>1, <1>2, OpNumbers DEF TypeOK
  <2> QED BY <1>2, <2>1 DEF ThreadState
<1>4. th' = [th EXCEPT ![t] = s] /\ UNCHANGED <<pending_ops, num_inflight_ops>>
  BY DEF QueueOpWait
<1>5. t \in Finishers => th[t].pc = "callback"
  BY OpQueueAssumption DEF QueueOpWait, MayQueue
<1>6. th' \in [Threads -> ThreadState] /\ BlockedHasOp' /\ InflightExact'
  <2> HIDE DEF s
  <2> QED BY <1>3, <1>4, <1>5, ThreadStepCounts
<1>7. x \in Waiter /\ w' = <<x>> \o w
  BY DEF Waiter, QueueOpWait
<1> HIDE DEF x
<1>8. /\ w' \in Seq(Waiter) /\ Len(w') = Len(w) + 1 /\ w' # <<>>
      /\ w'[1] = x /\ \A i \in 2 .. Len(w') : w'[i] = w[i - 1]
  BY <1>1, <1>7
<1>9. CountInv'
  BY <1>1, <1>2, <1>4, <1>6, <1>8 DEF CountInv, TypeOK, QueueOpWait, Ops
<1>10. Len(w) \in Nat /\ (w # <<>> => Len(w) > 0) /\ x.flag = "waiting"
  BY <1>1 DEF x
<1> HIDE DEF w
<1>11. OnlyOldestWoken'
  <2>1. ASSUME NEW i \in 1 .. Len(w'), w'[i].flag = "woken"
        PROVE  i = Len(w')
    <3>1. i # 1
      BY <1>8, <1>10, <2>1
    <3>2. w'[i] = w[i - 1] /\ i - 1 \in 1 .. Len(w)
      BY <1>8, <1>10, <3>1
    <3> QED BY <1>8, <1>10, <2>1, <3>2 DEF QueueInv, OnlyOldestWoken, w
  <2> QED BY <2>1 DEF OnlyOldestWoken, w
<1>12. w'[Len(w')].flag = "woken" =>
           w # <<>> /\ w[Len(w)].flag = "woken"
  <2>1. CASE Len(w) = 0
    BY <1>8, <1>10, <2>1
  <2>2. CASE Len(w) > 0
    <3>1. w # <<>>
      BY <2>2 DEF w
    <3>2. w'[Len(w')] = w[Len(w)]
      BY <1>8, <1>10, <2>2
    <3> QED BY <3>1, <3>2
  <2> QED BY <1>10, <2>1, <2>2
<1>13. WokenBound'
  BY <1>4, <1>12 DEF QueueInv, WokenBound, w
<1>14. InflightBound' /\ WaiterHasWaker'
  BY <1>1, <1>4 DEF QueueInv, InflightBound, WaiterHasWaker
<1> QED BY <1>9, <1>11, <1>13, <1>14 DEF QueueInv

\* queue_op goes on after its wait: the woken waiter was the last of the list.
LEMMA QueueOpWokenCounts ==
    ASSUME CountInv, QueueInv, NEW t \in Threads, QueueOpWoken(t)
    PROVE  CountInv' /\ QueueInv'
<1> DEFINE w == queue_op_waiters
           o == th[t].new
<1>1. /\ TypeOK /\ BlockedHasOp /\ th[t].pc = "blocked"
      /\ w \in Seq(Waiter) /\ num_inflight_ops \in Int /\ MaxInflight \in Nat \ {0}
  BY OpQueueAssumption DEF CountInv, QueueOpWoken, TypeOK
<1>2. o \in Ops /\ Enqueue(t, o)
  BY <1>1 DEF BlockedHasOp, QueueOpWoken
<1>3. /\ pending_ops' \in Seq(Ops)
      /\ num_inflight_ops' = num_inflight_ops + 1
      /\ th' \in [Threads -> ThreadState]
      /\ BlockedHasOp' /\ InflightExact'
  <2> HIDE DEF o
  <2> QED BY <1>1, <1>2, EnqueueCounts DEF Threads
<1>4. PICK i \in DOMAIN w : w[i].flag = "woken" /\ w' = EraseWaiter(i)
  BY DEF QueueOpWoken
<1>5. i \in 1 .. Len(w) /\ Len(w) \in Nat
  BY <1>1
<1>6. i = Len(w) /\ w # <<>>
  BY <1>4, <1>5 DEF QueueInv, OnlyOldestWoken
<1>7. /\ w' \in Seq(Waiter) /\ Len(w') = Len(w) - 1
      /\ \A j \in 1 .. Len(w) - 1 : w'[j] = w[j]
  BY <1>1, <1>4, <1>5, <1>6 DEF EraseWaiter
<1>8. CountInv'
  BY <1>1, <1>3, <1>7 DEF CountInv, TypeOK, QueueOpWoken
<1>9. num_inflight_ops <= MaxInflight
  BY <1>4, <1>6 DEF QueueInv, WokenBound
<1>10. num_inflight_ops' > 0
  <2>1. num_inflight_ops = Len(pending_ops) + Cardinality(Busy)
    BY DEF CountInv, InflightExact, Busy
  <2>2. Len(pending_ops) \in Nat
    BY <1>1 DEF TypeOK
  <2> QED BY <1>3, <2>1, <2>2, BusyFinite
<1> HIDE DEF w
<1>11. \A j \in 1 .. Len(w') : w'[j].flag # "woken"
  <2>1. ASSUME NEW j \in 1 .. Len(w'), w'[j].flag = "woken" PROVE FALSE
    <3>1. j \in 1 .. Len(w) /\ j # Len(w) /\ w'[j] = w[j]
      BY <1>5, <1>7
    <3> QED BY <2>1, <3>1 DEF QueueInv, OnlyOldestWoken, w
  <2> QED BY <2>1
<1>12. w' # <<>> => Len(w') \in 1 .. Len(w')
  BY <1>7
<1>13. OnlyOldestWoken' /\ WokenBound'
  BY <1>11, <1>12 DEF OnlyOldestWoken, WokenBound, w
<1>14. InflightBound' /\ WaiterHasWaker'
  BY <1>1, <1>3, <1>9, <1>10 DEF InflightBound, WaiterHasWaker
<1> QED BY <1>8, <1>13, <1>14 DEF QueueInv

\* finisher_entry_ takes the first operation: one fewer queued, one more busy.
LEMMA FinisherTakeCounts ==
    ASSUME CountInv, QueueInv, NEW f \in Finishers, FinisherTake(f)
    PROVE  CountInv' /\ QueueInv'
<1> DEFINE s == [th[f] EXCEPT !.pc = IF shutdown THEN "drop" ELSE "run",
                              !.op = Head(pending_ops)]
<1>1. /\ TypeOK /\ BlockedHasOp /\ th[f].pc = "idle" /\ f \in Threads
      /\ pending_ops \in Seq(Ops) /\ pending_ops # <<>>
  BY DEF CountInv, FinisherTake, TypeOK, Threads
<1>2. /\ pending_ops' \in Seq(Ops) /\ Len(pending_ops') = Len(pending_ops) - 1
      /\ Len(pending_ops) \in Nat /\ Head(pending_ops) \in Ops
  BY <1>1 DEF FinisherTake
<1>3. s \in ThreadState /\ s.pc \in {"run", "drop"}
  <2>1. th[f] \in ThreadState /\ Head(pending_ops) \in 0 .. MaxOps
    BY <1>1, <1>2, OpNumbers DEF TypeOK
  <2> QED BY <2>1 DEF ThreadState
<1>4. th' = [th EXCEPT ![f] = s]
      /\ UNCHANGED <<num_inflight_ops, queue_op_waiters, shutdown, dtor, issued,
                     answered>>
  BY DEF FinisherTake
<1> HIDE DEF s
<1>5. th' \in [Threads -> ThreadState] /\ BlockedHasOp'
  BY <1>1, <1>3, <1>4 DEF TypeOK, BlockedHasOp, Ops
<1>6. Busy' = Busy \cup {f} /\ f \notin Busy
  BY <1>1, <1>3, <1>4 DEF Busy, Processing, TypeOK, Threads
<1>7. Cardinality(Busy') = Cardinality(Busy) + 1
  BY <1>6, BusyFinite, FS_AddElement
<1>8. InflightExact'
  <2>1. num_inflight_ops = Len(pending_ops) + Cardinality(Busy)
    BY DEF CountInv, InflightExact, Busy
  <2>2. num_inflight_ops' = Len(pending_ops') + Cardinality(Busy')
    BY <1>2, <1>4, <1>7, <2>1, BusyFinite
  <2> QED BY <2>2 DEF InflightExact, Busy
<1>9. TypeOK'
  BY <1>1, <1>2, <1>4, <1>5 DEF TypeOK
<1>10. QueueInv'
  BY <1>4 DEF QueueInv, OnlyOldestWoken, WokenBound, InflightBound, WaiterHasWaker
<1> QED BY <1>5, <1>8, <1>9, <1>10 DEF CountInv

\* finisher_entry_ takes the operation off the count and wakes the oldest
\* waiter, which may have been woken already.
LEMMA FinisherDoneCounts ==
    ASSUME CountInv, QueueInv, NEW f \in Finishers, FinisherDone(f)
    PROVE  CountInv' /\ QueueInv'
<1> DEFINE w == queue_op_waiters
           n == num_inflight_ops
<1>1. /\ TypeOK /\ BlockedHasOp /\ th[f].pc = "done" /\ f \in Threads
      /\ w \in Seq(Waiter) /\ n \in Int /\ MaxInflight \in Nat
  BY OpQueueAssumption DEF CountInv, FinisherDone, TypeOK, Threads
<1>2. /\ th' = [th EXCEPT ![f] = Idle] /\ n' = n - 1 /\ w' = WakeOldest(w)
      /\ UNCHANGED <<pending_ops, shutdown, dtor, issued, answered>>
  BY DEF FinisherDone
<1>3. th' \in [Threads -> ThreadState] /\ BlockedHasOp'
  BY <1>1, <1>2, IdleType DEF TypeOK, BlockedHasOp, Ops
<1>4. Busy' = Busy \ {f} /\ f \in Busy
  BY <1>1, <1>2, IdleType DEF Busy, Processing, TypeOK, Threads
<1>5. Cardinality(Busy') = Cardinality(Busy) - 1
  BY <1>4, BusyFinite, FS_RemoveElement
<1>6. InflightExact'
  <2>1. n = Len(pending_ops) + Cardinality(Busy) /\ Len(pending_ops) \in Nat
    BY <1>1 DEF CountInv, InflightExact, Busy, TypeOK
  <2>2. n' = Len(pending_ops') + Cardinality(Busy')
    BY <1>2, <1>5, <2>1, BusyFinite
  <2> QED BY <2>2 DEF InflightExact, Busy
<1>7. /\ w' \in Seq(Waiter) /\ Len(w') = Len(w) /\ Len(w) \in Nat
      /\ w # <<>> => w'[Len(w)].flag = "woken"
      /\ \A i \in 1 .. Len(w) : i # Len(w) => w'[i] = w[i]
  <2>1. CASE w = <<>>
    BY <1>1, <1>2, <2>1 DEF WakeOldest
  <2>2. CASE w # <<>>
    <3>1. w' = [w EXCEPT ![Len(w)] = [w[Len(w)] EXCEPT !.flag = "woken"]]
      BY <1>2, <2>2 DEF WakeOldest
    <3>2. Len(w) \in 1 .. Len(w) /\ w[Len(w)] \in Waiter
      BY <1>1, <2>2
    <3>3. [w[Len(w)] EXCEPT !.flag = "woken"] \in Waiter
          /\ [w[Len(w)] EXCEPT !.flag = "woken"].flag = "woken"
      BY <3>2 DEF Waiter
    <3> QED BY <1>1, <3>1, <3>2, <3>3
  <2> QED BY <2>1, <2>2
<1>8. CountInv'
  BY <1>1, <1>2, <1>3, <1>6, <1>7 DEF CountInv, TypeOK
<1>9. n' <= MaxInflight
  BY <1>1, <1>2 DEF QueueInv, InflightBound
<1>10. w' # <<>> => w # <<>>
  BY <1>1, <1>7
<1> HIDE DEF w
<1>11. OnlyOldestWoken'
  BY <1>7 DEF QueueInv, OnlyOldestWoken, w
<1>12. WaiterHasWaker'
  BY <1>7, <1>10 DEF WaiterHasWaker, w
<1>13. WokenBound' /\ InflightBound'
  BY <1>1, <1>2, <1>9 DEF WokenBound, InflightBound
<1> QED BY <1>8, <1>11, <1>12, <1>13 DEF QueueInv

\* The steps of a thread that leave the queue, the count and the waiters alone.
LEMMA OtherStepCounts ==
    ASSUME CountInv, QueueInv, NEW t \in Threads,
           \/ SyncReturn(t)
           \/ t \in Finishers /\ \/ FinisherSleep(t) \/ FinisherExit(t)
                                 \/ InvokeCallback(t) \/ CallbackReturn(t)
    PROVE  CountInv' /\ QueueInv'
<1>1. TypeOK /\ th[t] \in ThreadState
  BY DEF CountInv, TypeOK
<1>2. UNCHANGED <<pending_ops, num_inflight_ops, queue_op_waiters, shutdown,
                  dtor, issued>>
  BY DEF SyncReturn, FinisherSleep, FinisherExit, InvokeCallback, CallbackReturn
<1>3. answered' \in [Ops -> {"no", "run", "drop"}]
  <2>1. CASE InvokeCallback(t)
    BY <1>1, <2>1 DEF InvokeCallback, TypeOK
  <2>2. CASE ~InvokeCallback(t)
    BY <1>1, <2>2 DEF SyncReturn, FinisherSleep, FinisherExit, CallbackReturn,
                      TypeOK
  <2> QED BY <2>1, <2>2
<1>4. \E s \in ThreadState :
         /\ th' = [th EXCEPT ![t] = s] /\ s.pc # "blocked"
         /\ LET busy == {"run", "drop", "callback", "blocked", "done"}
            IN  t \in Finishers => (s.pc \in busy <=> th[t].pc \in busy)
  <2>1. CASE SyncReturn(t)
    <3>1. th' = [th EXCEPT ![t] = Idle] /\ th[t].pc = "sync"
      BY <2>1 DEF SyncReturn
    <3> QED BY <3>1, IdleType
  <2>2. CASE FinisherSleep(t)
    <3> DEFINE s == [th[t] EXCEPT !.pc = "asleep"]
    <3>1. s \in ThreadState /\ s.pc = "asleep"
      BY <1>1 DEF ThreadState
    <3>2. th' = [th EXCEPT ![t] = s] /\ th[t].pc = "idle"
      BY <2>2 DEF FinisherSleep
    <3> HIDE DEF s
    <3> QED BY <3>1, <3>2
  <2>3. CASE FinisherExit(t)
    <3> DEFINE s == [th[t] EXCEPT !.pc = "exit"]
    <3>1. s \in ThreadState /\ s.pc = "exit"
      BY <1>1 DEF ThreadState
    <3>2. th' = [th EXCEPT ![t] = s] /\ th[t].pc = "idle"
      BY <2>3 DEF FinisherExit
    <3> HIDE DEF s
    <3> QED BY <3>1, <3>2
  <2>4. CASE InvokeCallback(t)
    <3> DEFINE s == [th[t] EXCEPT !.pc = "callback"]
    <3>1. s \in ThreadState /\ s.pc = "callback"
      BY <1>1 DEF ThreadState
    <3>2. th' = [th EXCEPT ![t] = s] /\ th[t].pc \in {"run", "drop"}
      BY <2>4 DEF InvokeCallback
    <3> HIDE DEF s
    <3> QED BY <3>1, <3>2
  <2>5. CASE CallbackReturn(t)
    <3> DEFINE s == [th[t] EXCEPT !.pc = "done"]
    <3>1. s \in ThreadState /\ s.pc = "done"
      BY <1>1 DEF ThreadState
    <3>2. th' = [th EXCEPT ![t] = s] /\ th[t].pc = "callback"
      BY <2>5 DEF CallbackReturn
    <3> HIDE DEF s
    <3> QED BY <3>1, <3>2
  <2> QED BY <2>1, <2>2, <2>3, <2>4, <2>5
<1>5. th' \in [Threads -> ThreadState] /\ BlockedHasOp' /\ InflightExact'
  BY <1>2, <1>4, ThreadStepCounts
<1>6. CountInv'
  BY <1>1, <1>2, <1>3, <1>5 DEF CountInv, TypeOK
<1>7. QueueInv'
  BY <1>2 DEF QueueInv, OnlyOldestWoken, WokenBound, InflightBound, WaiterHasWaker
<1> QED BY <1>6, <1>7

\* The destructor's own steps.
LEMMA DtorCounts ==
    ASSUME CountInv, QueueInv, Shutdown \/ DtorStep
    PROVE  CountInv' /\ QueueInv'
<1>1. TypeOK
  BY DEF CountInv
<1>2. /\ UNCHANGED <<pending_ops, num_inflight_ops, queue_op_waiters, issued,
                     answered>>
      /\ shutdown' \in BOOLEAN /\ dtor' \in {"up", "notify", "join", "gone"}
  BY <1>1 DEF Shutdown, DtorStep, ShutdownNotify, ShutdownJoin, TypeOK
<1>3. th' = th \/ th' = NotifyAll(th)
  BY DEF Shutdown, DtorStep, ShutdownNotify, ShutdownJoin
<1>4. \A t \in Threads :
         th'[t] \in {th[t], [th[t] EXCEPT !.pc = "idle"]}
         /\ (th'[t] # th[t] => th[t].pc = "asleep")
  BY <1>3 DEF NotifyAll
<1>5. th' \in [Threads -> ThreadState]
  <2>1. ASSUME NEW t \in Threads PROVE th'[t] \in ThreadState
    <3>1. th[t] \in ThreadState
      BY <1>1 DEF TypeOK
    <3>2. [th[t] EXCEPT !.pc = "idle"] \in ThreadState
      BY <3>1 DEF ThreadState
    <3> QED BY <1>4, <3>1, <3>2
  <2>2. th' = [t \in Threads |-> th'[t]]
    BY <1>1, <1>3 DEF NotifyAll, TypeOK
  <2> QED BY <2>1, <2>2
<1>6. ASSUME NEW t \in Threads
      PROVE  \/ th'[t] = th[t]
             \/ th[t].pc = "asleep" /\ th'[t].pc = "idle"
  <2>1. th[t] \in ThreadState
    BY <1>1 DEF TypeOK
  <2> QED BY <1>4, <2>1 DEF ThreadState
<1>7. BlockedHasOp'
  BY <1>6 DEF CountInv, BlockedHasOp, Ops
<1>8. Busy' = Busy
  BY <1>6 DEF Busy, Processing, Threads
<1>9. InflightExact'
  BY <1>2, <1>8 DEF CountInv, InflightExact, Busy
<1>10. CountInv'
  BY <1>1, <1>2, <1>5, <1>7, <1>9 DEF CountInv, TypeOK
<1>11. QueueInv'
  BY <1>2 DEF QueueInv, OnlyOldestWoken, WokenBound, InflightBound, WaiterHasWaker
<1> QED BY <1>10, <1>11

-----------------------------------------------------------------------------
\* Every step keeps the invariant.
LEMMA NextCounts ==
    CountInv /\ QueueInv /\ [Next]_vars => CountInv' /\ QueueInv'
<1> SUFFICES ASSUME CountInv, QueueInv, [Next]_vars
             PROVE  CountInv' /\ QueueInv'
  OBVIOUS
<1>1. CASE UNCHANGED vars
  BY <1>1 DEF vars, CountInv, TypeOK, BlockedHasOp, InflightExact, Processing,
              QueueInv, OnlyOldestWoken, WokenBound, InflightBound, WaiterHasWaker
<1>2. ASSUME NEW t \in Threads,
             QueueOp(t) \/ QueueOpWait(t) \/ CallerStep(t)
      PROVE  CountInv' /\ QueueInv'
  BY <1>2, QueueOpCounts, QueueOpWaitCounts, QueueOpWokenCounts, OtherStepCounts
     DEF CallerStep
<1>3. ASSUME NEW f \in Finishers, FinisherStep(f)
      PROVE  CountInv' /\ QueueInv'
  <2>1. f \in Threads
    BY DEF Threads
  <2> QED BY <1>3, <2>1, FinisherTakeCounts, FinisherDoneCounts, OtherStepCounts
          DEF FinisherStep
<1>4. CASE Shutdown \/ DtorStep
  BY <1>4, DtorCounts
<1> QED BY <1>1, <1>2, <1>3, <1>4 DEF Next

\* num_inflight_ops_ is exactly the number of operations queued or with a
\* finisher, so finisher_entry_'s assertion that it is positive holds.
THEOREM CountExact == Spec => []InflightExact
<1>1. CountInv => InflightExact
  BY DEF CountInv
<1> QED BY <1>1, InitCounts, NextCounts, PTL DEF Spec

\* The operations in flight exceed max_inflight_ops by at most one.
THEOREM LimitOvershotByOne == Spec => []InflightBound
<1>1. QueueInv => InflightBound
  BY DEF QueueInv
<1> QED BY <1>1, InitCounts, NextCounts, PTL DEF Spec

\* A caller that waits in queue_op always has somebody who will wake it.
THEOREM NoWaiterForgotten == Spec => []WaiterHasWaker
<1>1. QueueInv => WaiterHasWaker
  BY DEF QueueInv
<1> QED BY <1>1, InitCounts, NextCounts, PTL DEF Spec

-----------------------------------------------------------------------------
(* Operations are handed on *)

\* The thread is responsible for the operation: it is about to queue it, or to
\* call it back.
Held(t, o) ==
    \/ th[t].new = o
    \/ t \in Finishers /\ th[t].op = o /\ th[t].pc \in {"run", "drop"}

Queued(i, o) == pending_ops[i] = o

\* An operation is in exactly one place until it is called back, and in none
\* before it is issued and afterwards.
Handed(o) ==
    /\ \A t, u \in Threads : Held(t, o) /\ Held(u, o) => t = u
    /\ \A i, j \in 1 .. Len(pending_ops) : Queued(i, o) /\ Queued(j, o) => i = j
    /\ \A t \in Threads, i \in 1 .. Len(pending_ops) : ~(Held(t, o) /\ Queued(i, o))
    /\ o <= issued /\ answered[o] = "no" <=>
         \/ \E t \in Threads : Held(t, o)
         \/ \E i \in 1 .. Len(pending_ops) : Queued(i, o)
    /\ answered[o] # "no" => o <= issued

\* Only callers in queue_op's wait hold an operation to queue, and finishers
\* process operations.
HoldersValid ==
    \A t \in Threads :
        /\ th[t].new # 0 => th[t].pc = "blocked"
        /\ th[t].pc \in {"run", "drop"} => th[t].op \in Ops

HandedInv == HoldersValid /\ \A o \in Ops : Handed(o)

\* An operation nobody touches.
LEMMA HandedRests ==
    ASSUME NEW o \in Ops, Handed(o),
           \A t \in Threads : Held(t, o)' <=> Held(t, o),
           \/ pending_ops' = pending_ops
           \/ /\ pending_ops \in Seq(Ops)
              /\ \E o1 \in Ops : o1 # o /\ pending_ops' = Append(pending_ops, o1)
           \/ /\ pending_ops \in Seq(Ops) /\ pending_ops # <<>>
              /\ Head(pending_ops) # o /\ pending_ops' = Tail(pending_ops),
           o <= issued' <=> o <= issued, answered'[o] = answered[o]
    PROVE  Handed(o)'
<1>1. CASE pending_ops' = pending_ops
  BY <1>1 DEF Handed, Queued
<1>2. ASSUME NEW o1 \in Ops, pending_ops \in Seq(Ops), o1 # o,
             pending_ops' = Append(pending_ops, o1)
      PROVE  Handed(o)'
  <2>1. /\ Len(pending_ops) \in Nat /\ Len(pending_ops') = Len(pending_ops) + 1
        /\ \A i \in 1 .. Len(pending_ops) : pending_ops'[i] = pending_ops[i]
        /\ pending_ops'[Len(pending_ops) + 1] = o1
    BY <1>2
  <2>2. \A i \in 1 .. Len(pending_ops') : Queued(i, o)' =>
          i \in 1 .. Len(pending_ops) /\ Queued(i, o)
    BY <1>2, <2>1 DEF Queued
  <2>3. \A i \in 1 .. Len(pending_ops) : Queued(i, o) =>
          i \in 1 .. Len(pending_ops') /\ Queued(i, o)'
    BY <2>1 DEF Queued
  <2> QED BY <2>2, <2>3 DEF Handed
<1>3. CASE /\ pending_ops \in Seq(Ops) /\ pending_ops # <<>>
           /\ Head(pending_ops) # o /\ pending_ops' = Tail(pending_ops)
  <2>1. /\ Len(pending_ops) \in Nat /\ Len(pending_ops') = Len(pending_ops) - 1
        /\ \A i \in 1 .. Len(pending_ops') : pending_ops'[i] = pending_ops[i + 1]
        /\ pending_ops[1] # o
    BY <1>3
  <2>2. \A i \in 1 .. Len(pending_ops') : Queued(i, o)' =>
          i + 1 \in 1 .. Len(pending_ops) /\ Queued(i + 1, o)
    BY <2>1 DEF Queued
  <2>3. \A i \in 1 .. Len(pending_ops) : Queued(i, o) =>
          i - 1 \in 1 .. Len(pending_ops') /\ Queued(i - 1, o)'
    BY <2>1 DEF Queued
  <2>4. \A i, j \in 1 .. Len(pending_ops') : Queued(i, o)' /\ Queued(j, o)' => i = j
    <3> SUFFICES ASSUME NEW i \in 1 .. Len(pending_ops'), NEW j \in 1 .. Len(pending_ops'),
                        Queued(i, o)', Queued(j, o)'
                 PROVE  i = j
      OBVIOUS
    <3>1. i + 1 = j + 1
      BY <2>2 DEF Handed
    <3> QED BY <2>1, <3>1
  <2>5. (\E i \in 1 .. Len(pending_ops') : Queued(i, o)') <=>
        (\E i \in 1 .. Len(pending_ops) : Queued(i, o))
    BY <2>2, <2>3
  <2> QED BY <2>4, <2>5 DEF Handed
<1> QED BY <1>1, <1>2, <1>3

\* An operation that goes to the end of the queue.
LEMMA HandedQueued ==
    ASSUME NEW o \in Ops, pending_ops \in Seq(Ops),
           pending_ops' = Append(pending_ops, o),
           \A i \in 1 .. Len(pending_ops) : ~Queued(i, o),
           \A t \in Threads : ~Held(t, o)', o <= issued', answered'[o] = "no"
    PROVE  Handed(o)'
<1>1. /\ Len(pending_ops) \in Nat /\ Len(pending_ops') = Len(pending_ops) + 1
      /\ \A i \in 1 .. Len(pending_ops) : pending_ops'[i] = pending_ops[i]
      /\ pending_ops'[Len(pending_ops) + 1] = o
  OBVIOUS
<1>2. \A i \in 1 .. Len(pending_ops') : Queued(i, o)' <=> i = Len(pending_ops) + 1
  BY <1>1 DEF Queued
<1>3. \E i \in 1 .. Len(pending_ops') : Queued(i, o)'
  BY <1>1, <1>2
<1> QED BY <1>2, <1>3 DEF Handed

\* An operation that goes to a thread.
LEMMA HandedOver ==
    ASSUME NEW o \in Ops, NEW t \in Threads,
           \A u \in Threads : Held(u, o)' <=> u = t,
           \A i \in 1 .. Len(pending_ops') : ~Queued(i, o)',
           o <= issued', answered'[o] = "no"
    PROVE  Handed(o)'
BY DEF Handed

\* Threads that are not woken for anything they hold.
LEMMA HeldRests ==
    ASSUME TypeOK, NEW t \in Threads, NEW u \in Threads, u # t, NEW s,
           th' = [th EXCEPT ![t] = s] \/ th' = NotifyAll([th EXCEPT ![t] = s])
    PROVE  /\ \A o \in Ops : Held(u, o)' <=> Held(u, o)
           /\ th'[u].new = th[u].new /\ th'[u].op = th[u].op
           /\ \/ th'[u].pc = th[u].pc
              \/ th[u].pc = "asleep" /\ th'[u].pc = "idle"
<1>1. th[u] \in ThreadState
  BY DEF TypeOK
<1>2. \/ th'[u] = th[u]
      \/ th[u].pc = "asleep" /\ th'[u] = [th[u] EXCEPT !.pc = "idle"]
  BY DEF NotifyAll, TypeOK
<1>3. /\ th'[u].new = th[u].new /\ th'[u].op = th[u].op
      /\ \/ th'[u].pc = th[u].pc
         \/ th[u].pc = "asleep" /\ th'[u].pc = "idle"
  BY <1>1, <1>2 DEF ThreadState
<1>4. \A o \in Ops : Held(u, o)' <=> Held(u, o)
  BY <1>3 DEF Held
<1> QED BY <1>3, <1>4

\* A thread that returns from queue_op holds nothing to queue.
LEMMA ReturnedIdle ==
    ASSUME TypeOK, NEW t \in Threads, NEW o, NEW r \in Returned(t, o)
    PROVE  r.new = 0 /\ r.pc \in {"done", "idle", "sync"}
<1>1. th[t] \in ThreadState
  BY DEF TypeOK
<1>2. CASE t \in Finishers
  <2>1. r = [th[t] EXCEPT !.pc = "done", !.new = 0]
    BY <1>2 DEF Returned
  <2> QED BY <1>1, <2>1 DEF ThreadState
<1>3. CASE t \notin Finishers
  <2>1. r = Idle \/ r = [Idle EXCEPT !.pc = "sync", !.op = o]
    BY <1>3 DEF Returned
  <2>2. CASE r = Idle
    BY <2>2 DEF Idle
  <2>3. CASE r = [Idle EXCEPT !.pc = "sync", !.op = o]
    BY <2>3 DEF Idle
  <2> QED BY <2>1, <2>2, <2>3
<1> QED BY <1>2, <1>3

\* The part of queue_op after the wait puts the operation in the queue, a new
\* one or the one the thread waited with.
LEMMA EnqueueHands ==
    ASSUME TypeOK, HandedInv, NEW t \in Threads, NEW o \in Ops, Enqueue(t, o),
           answered' = answered,
           \/ o = issued + 1 /\ issued' = issued + 1 /\ th[t].pc \in {"idle", "callback"}
           \/ issued' = issued /\ th[t].pc = "blocked" /\ th[t].new = o
    PROVE  HandedInv'
<1>1. HoldersValid /\ pending_ops \in Seq(Ops) /\ issued \in Int /\ Ops \subseteq Int
      /\ 0 \notin Ops
  BY OpQueueAssumption DEF HandedInv, TypeOK, Ops
<1>2. PICK r \in Returned(t, o) : th' = NotifyAll([th EXCEPT ![t] = r])
  BY DEF Enqueue
<1>3. r.new = 0 /\ r.pc \in {"done", "idle", "sync"}
  BY <1>2, ReturnedIdle
<1>4. th'[t] = r
  BY <1>2, <1>3 DEF NotifyAll, TypeOK
<1>5. \A u \in Threads : u # t =>
        /\ \A q \in Ops : Held(u, q)' <=> Held(u, q)
        /\ th'[u].new = th[u].new /\ th'[u].op = th[u].op
        /\ \/ th'[u].pc = th[u].pc
           \/ th[u].pc = "asleep" /\ th'[u].pc = "idle"
  BY <1>2, HeldRests
<1>6. HoldersValid'
  <2> SUFFICES ASSUME NEW u \in Threads
               PROVE  /\ th'[u].new # 0 => th'[u].pc = "blocked"
                      /\ th'[u].pc \in {"run", "drop"} => th'[u].op \in Ops
    BY DEF HoldersValid, Ops
  <2> QED BY <1>1, <1>3, <1>4, <1>5 DEF HoldersValid
<1>7. \A q \in Ops : ~Held(t, q)'
  BY <1>1, <1>3, <1>4 DEF Held
<1>8. \A q \in Ops : q # o => ~Held(t, q)
  BY <1>1 DEF Held, HoldersValid
<1>9. pending_ops' = Append(pending_ops, o)
  BY DEF Enqueue
<1>10. ASSUME NEW q \in Ops, q # o PROVE Handed(q)'
  <2>1. q <= issued' <=> q <= issued
    BY <1>1, <1>10
  <2>2. \A u \in Threads : Held(u, q)' <=> Held(u, q)
    BY <1>5, <1>7, <1>8, <1>10
  <2> QED BY <1>1, <1>9, <1>10, <2>1, <2>2, HandedRests DEF HandedInv
<1>11. Handed(o)'
  <2>1. Handed(o)
    BY DEF HandedInv
  <2>2. /\ o <= issued' /\ answered[o] = "no"
        /\ \A i \in 1 .. Len(pending_ops) : ~Queued(i, o)
        /\ \A u \in Threads : Held(u, o) => u = t
    <3>1. CASE o = issued + 1 /\ issued' = issued + 1
      BY <1>1, <2>1, <3>1 DEF Handed
    <3>2. CASE issued' = issued /\ th[t].new = o
      <4>1. Held(t, o)
        BY <3>2 DEF Held
      <4> QED BY <2>1, <3>2, <4>1 DEF Handed
    <3> QED BY <3>1, <3>2
  <2>3. \A u \in Threads : ~Held(u, o)'
    BY <1>5, <1>7, <2>2
  <2> QED BY <1>1, <1>9, <2>2, <2>3, HandedQueued
<1> QED BY <1>6, <1>10, <1>11 DEF HandedInv, Ops

\* A thread in this state holds one operation.
HoldsOne(t, s, o) ==
    /\ \A q \in Ops : (t \in Finishers /\ s.op = q /\ s.pc \in {"run", "drop"})
                       \/ s.new = q <=> q = o
    /\ s.new # 0 => s.pc = "blocked"
    /\ s.pc \in {"run", "drop"} => s.op \in Ops

\* A thread that takes an operation it did not hold.
LEMMA TakeHands ==
    ASSUME TypeOK, HandedInv, NEW t \in Threads, NEW s, NEW o \in Ops,
           th' = [th EXCEPT ![t] = s], answered' = answered,
           th[t].pc \in {"idle", "callback"},
           HoldsOne(t, s, o),
           \/ o = issued + 1 /\ issued' = issued + 1 /\ pending_ops' = pending_ops
           \/ /\ pending_ops # <<>> /\ o = Head(pending_ops)
              /\ pending_ops' = Tail(pending_ops) /\ issued' = issued
    PROVE  HandedInv'
<1>1. HoldersValid /\ pending_ops \in Seq(Ops) /\ issued \in Int /\ Ops \subseteq Int
      /\ 0 \notin Ops
  BY OpQueueAssumption DEF HandedInv, TypeOK, Ops
<1>2. th'[t] = s /\ \A u \in Threads : u # t => th'[u] = th[u]
  BY DEF TypeOK
<1>3. \A u \in Threads, q \in Ops : u # t => (Held(u, q)' <=> Held(u, q))
  BY <1>2 DEF Held
<1>4. \A q \in Ops : Held(t, q)' <=> q = o
  BY <1>2 DEF Held, HoldsOne
<1>5. \A q \in Ops : ~Held(t, q)
  BY <1>1 DEF Held, HoldersValid
<1>6. HoldersValid'
  BY <1>1, <1>2 DEF HoldersValid, HoldsOne, Ops
<1>7. ASSUME NEW q \in Ops, q # o PROVE Handed(q)'
  <2>1. \A u \in Threads : Held(u, q)' <=> Held(u, q)
    BY <1>3, <1>4, <1>5, <1>7
  <2>2. q <= issued' <=> q <= issued
    BY <1>1, <1>7
  <2> QED BY <1>1, <1>7, <2>1, <2>2, HandedRests DEF HandedInv
<1>8. Handed(o)'
  <2>1. Handed(o)
    BY DEF HandedInv
  <2>2. /\ o <= issued' /\ answered[o] = "no"
        /\ \A i \in 1 .. Len(pending_ops') : ~Queued(i, o)'
        /\ \A u \in Threads : ~Held(u, o)
    <3>1. CASE o = issued + 1 /\ issued' = issued + 1 /\ pending_ops' = pending_ops
      BY <1>1, <2>1, <3>1 DEF Handed, Queued
    <3>2. CASE /\ pending_ops # <<>> /\ o = Head(pending_ops)
               /\ pending_ops' = Tail(pending_ops) /\ issued' = issued
      <4>1. /\ Len(pending_ops) \in Nat /\ Len(pending_ops') = Len(pending_ops) - 1
            /\ \A i \in 1 .. Len(pending_ops') : pending_ops'[i] = pending_ops[i + 1]
            /\ pending_ops[1] = o /\ 1 \in 1 .. Len(pending_ops)
        BY <1>1, <3>2
      <4>2. Queued(1, o)
        BY <4>1 DEF Queued
      <4>3. ASSUME NEW i \in 1 .. Len(pending_ops'), Queued(i, o)' PROVE FALSE
        <5>1. i + 1 \in 1 .. Len(pending_ops) /\ Queued(i + 1, o)
          BY <4>1, <4>3 DEF Queued
        <5>2. i + 1 = 1
          BY <2>1, <4>1, <4>2, <5>1 DEF Handed
        <5> QED BY <5>2
      <4> QED BY <2>1, <3>2, <4>1, <4>2, <4>3 DEF Handed
    <3> QED BY <3>1, <3>2
  <2>3. \A u \in Threads : Held(u, o)' <=> u = t
    BY <1>3, <1>4, <2>2
  <2> QED BY <2>2, <2>3, HandedOver
<1> QED BY <1>6, <1>7, <1>8 DEF HandedInv, Ops

\* queue_op.
LEMMA QueueOpHands ==
    ASSUME CountInv, HandedInv, NEW t \in Threads,
           QueueOp(t) \/ QueueOpWait(t) \/ QueueOpWoken(t)
    PROVE  HandedInv'
<1>1. TypeOK /\ BlockedHasOp /\ th[t] \in ThreadState
  BY DEF CountInv, TypeOK
<1>2. MayQueue(t) => th[t].pc \in {"idle", "callback"}
  BY DEF MayQueue
<1>3. issued < MaxOps => issued + 1 \in Ops
  BY <1>1, OpQueueAssumption DEF TypeOK, Ops
<1>4. CASE QueueOp(t)
  BY <1>1, <1>2, <1>3, <1>4, EnqueueHands DEF QueueOp
<1>5. CASE QueueOpWoken(t)
  BY <1>1, <1>5, EnqueueHands DEF QueueOpWoken, BlockedHasOp
<1>6. CASE QueueOpWait(t)
  <2> DEFINE s == [th[t] EXCEPT !.pc = "blocked", !.new = issued + 1]
  <2>1. /\ th' = [th EXCEPT ![t] = s] /\ issued' = issued + 1
        /\ issued + 1 \in Ops /\ answered' = answered
        /\ pending_ops' = pending_ops /\ th[t].pc \in {"idle", "callback"}
    BY <1>2, <1>3, <1>6 DEF QueueOpWait
  <2>2. s.pc = "blocked" /\ s.new = issued + 1
    BY <1>1 DEF ThreadState
  <2> HIDE DEF s
  <2>3. PICK r : r = s
    OBVIOUS
  <2>4. PICK o \in Ops : o = issued + 1
    BY <2>1
  <2>5. HoldsOne(t, r, o)
    BY <2>2, <2>3, <2>4 DEF HoldsOne
  <2>6. th' = [th EXCEPT ![t] = r]
    BY <2>1, <2>3
  <2>7. o = issued + 1 /\ issued' = issued + 1 /\ pending_ops' = pending_ops
    BY <2>1, <2>4
  <2>8. answered' = answered /\ th[t].pc \in {"idle", "callback"}
    BY <2>1
  <2> QED BY <1>1, <2>5, <2>6, <2>7, <2>8, TakeHands
<1> QED BY <1>4, <1>5, <1>6

\* finisher_entry_ takes an operation,
LEMMA FinisherTakeHands ==
    ASSUME CountInv, HandedInv, NEW f \in Finishers, FinisherTake(f)
    PROVE  HandedInv'
<1> DEFINE o == Head(pending_ops)
           s == [th[f] EXCEPT !.pc = IF shutdown THEN "drop" ELSE "run", !.op = o]
<1>1. TypeOK /\ f \in Threads /\ th[f] \in ThreadState /\ HoldersValid
  BY DEF CountInv, TypeOK, Threads, HandedInv
<1>2. /\ th[f].pc = "idle" /\ pending_ops # <<>> /\ pending_ops' = Tail(pending_ops)
      /\ th' = [th EXCEPT ![f] = s] /\ issued' = issued /\ answered' = answered
  BY DEF FinisherTake
<1>3. o \in Ops /\ 0 \notin Ops
  <2>1. pending_ops \in Seq(Ops) /\ pending_ops # <<>>
    BY <1>1, <1>2 DEF TypeOK
  <2>2. o \in Ops
    BY <2>1
  <2> QED BY <2>2, OpQueueAssumption DEF Ops
<1>4. s.pc \in {"run", "drop"} /\ s.op = o /\ s.new = 0
  <2>1. th[f].new = 0
    BY <1>1, <1>2 DEF HoldersValid
  <2> QED BY <1>1, <2>1 DEF ThreadState
<1> HIDE DEF s, o
<1>5. PICK r : r = s
  OBVIOUS
<1>6. PICK p \in Ops : p = o
  BY <1>3
<1>7. p = Head(pending_ops)
  BY <1>6 DEF o
<1>8. HoldsOne(f, r, p)
  BY <1>3, <1>4, <1>5, <1>6 DEF HoldsOne
<1>9. th' = [th EXCEPT ![f] = r] /\ th[f].pc \in {"idle", "callback"}
  BY <1>2, <1>5
<1> QED BY <1>1, <1>2, <1>7, <1>8, <1>9, TakeHands

\* and calls it back.
LEMMA CallbackHands ==
    ASSUME CountInv, HandedInv, NEW f \in Finishers, InvokeCallback(f)
    PROVE  HandedInv'
<1> DEFINE o == th[f].op
<1>1. TypeOK /\ f \in Threads /\ th[f] \in ThreadState /\ HoldersValid
  BY DEF CountInv, TypeOK, Threads, HandedInv
<1>2. /\ th[f].pc \in {"run", "drop"} /\ pending_ops' = pending_ops /\ issued' = issued
      /\ th' = [th EXCEPT ![f] = [th[f] EXCEPT !.pc = "callback"]]
      /\ answered' = [answered EXCEPT ![o] = th[f].pc]
  BY DEF InvokeCallback
<1>3. o \in Ops /\ 0 \notin Ops /\ th[f].new = 0
  BY <1>1, <1>2 DEF HoldersValid, Ops
<1>4. th'[f].pc = "callback" /\ th'[f].new = 0
  BY <1>1, <1>2, <1>3 DEF TypeOK, ThreadState
<1>5. \A u \in Threads : u # f => th'[u] = th[u]
  BY <1>1, <1>2 DEF TypeOK
<1>6. \A u \in Threads, q \in Ops : u # f => (Held(u, q)' <=> Held(u, q))
  BY <1>5 DEF Held
<1>7. \A q \in Ops : ~Held(f, q)' /\ (Held(f, q) <=> q = o)
  BY <1>2, <1>3, <1>4 DEF Held
<1>8. HoldersValid'
  BY <1>1, <1>4, <1>5 DEF HoldersValid, Ops
<1>9. /\ answered'[o] # "no"
      /\ \A q \in Ops : q # o => answered'[q] = answered[q]
  BY <1>1, <1>2, <1>3 DEF TypeOK
<1>10. PICK p \in Ops : p = o
  BY <1>3
<1>11. ASSUME NEW q \in Ops, q # p PROVE Handed(q)'
  <2>1. \A u \in Threads : Held(u, q)' <=> Held(u, q)
    BY <1>6, <1>7, <1>10, <1>11
  <2> QED BY <1>2, <1>9, <1>10, <1>11, <2>1, HandedRests DEF HandedInv
<1>12. Handed(p)'
  <2>1. Handed(p) /\ Held(f, p)
    BY <1>7, <1>10 DEF HandedInv
  <2>2. \A u \in Threads : ~Held(u, p)'
    BY <1>1, <1>6, <1>7, <2>1 DEF Handed
  <2>3. \A i \in 1 .. Len(pending_ops') : ~Queued(i, p)'
    BY <1>1, <1>2, <2>1 DEF Handed, Queued
  <2>4. p <= issued' /\ answered'[p] # "no"
    BY <1>1, <1>2, <1>9, <1>10, <2>1 DEF Handed
  <2> QED BY <2>2, <2>3, <2>4 DEF Handed
<1> QED BY <1>8, <1>11, <1>12 DEF HandedInv, Ops

\* A step that touches no operation.
LEMMA RestsHands ==
    ASSUME TypeOK, HandedInv,
           pending_ops' = pending_ops, issued' = issued, answered' = answered,
           \A t \in Threads, o \in Ops : Held(t, o)' <=> Held(t, o),
           HoldersValid'
    PROVE  HandedInv'
<1>1. ASSUME NEW o \in Ops PROVE Handed(o)'
  <2>1. Handed(o) /\ \A t \in Threads : Held(t, o)' <=> Held(t, o)
    BY DEF HandedInv
  <2> QED BY <2>1, HandedRests
<1> QED BY <1>1 DEF HandedInv, Ops

\* A thread goes on that holds no operation before or after.
LEMMA QuietHands ==
    ASSUME TypeOK, HandedInv, NEW t \in Threads, NEW s,
           th' = [th EXCEPT ![t] = s], s.new = 0, s.pc \notin {"run", "drop"},
           th[t].pc \notin {"run", "drop", "blocked"},
           pending_ops' = pending_ops, issued' = issued, answered' = answered
    PROVE  HandedInv'
<1>1. HoldersValid /\ 0 \notin Ops
  BY OpQueueAssumption DEF HandedInv, Ops
<1>2. th'[t] = s /\ \A u \in Threads : u # t => th'[u] = th[u]
  BY DEF TypeOK
<1>3. \A o \in Ops : ~Held(t, o) /\ ~Held(t, o)'
  BY <1>1, <1>2 DEF Held, HoldersValid
<1>4. \A u \in Threads, o \in Ops : Held(u, o)' <=> Held(u, o)
  BY <1>2, <1>3 DEF Held
<1>5. HoldersValid'
  BY <1>1, <1>2 DEF HoldersValid, Ops
<1> QED BY <1>4, <1>5, RestsHands

\* Waking the finishers changes nothing they hold.
LEMMA NotifyHands ==
    ASSUME TypeOK, HandedInv, th' = th \/ th' = NotifyAll(th),
           pending_ops' = pending_ops, issued' = issued, answered' = answered
    PROVE  HandedInv'
<1>1. HoldersValid
  BY DEF HandedInv
<1>2. ASSUME NEW u \in Threads
      PROVE  /\ \A o \in Ops : Held(u, o)' <=> Held(u, o)
             /\ th'[u].new = th[u].new /\ th'[u].op = th[u].op
             /\ \/ th'[u].pc = th[u].pc
                \/ th[u].pc = "asleep" /\ th'[u].pc = "idle"
  <2>1. th[u] \in ThreadState
    BY DEF TypeOK
  <2>2. \/ th'[u] = th[u]
        \/ th[u].pc = "asleep" /\ th'[u] = [th[u] EXCEPT !.pc = "idle"]
    BY DEF NotifyAll, TypeOK
  <2>3. /\ th'[u].new = th[u].new /\ th'[u].op = th[u].op
        /\ \/ th'[u].pc = th[u].pc
           \/ th[u].pc = "asleep" /\ th'[u].pc = "idle"
    BY <2>1, <2>2 DEF ThreadState
  <2>4. \A o \in Ops : Held(u, o)' <=> Held(u, o)
    BY <2>3 DEF Held
  <2> QED BY <2>3, <2>4
<1>3. HoldersValid'
  BY <1>1, <1>2 DEF HoldersValid, Ops
<1>4. \A u \in Threads, o \in Ops : Held(u, o)' <=> Held(u, o)
  BY <1>2
<1> QED BY <1>3, <1>4, RestsHands

\* The steps of a caller or a finisher that neither take nor hand on anything.
LEMMA OtherStepHands ==
    ASSUME TypeOK, HandedInv, NEW t \in Threads,
           SyncReturn(t) \/ FinisherSleep(t) \/ FinisherExit(t)
             \/ CallbackReturn(t) \/ FinisherDone(t)
    PROVE  HandedInv'
<1>1. HoldersValid /\ th[t] \in ThreadState
  BY DEF HandedInv, TypeOK
<1>2. /\ pending_ops' = pending_ops /\ issued' = issued /\ answered' = answered
      /\ th[t].pc \notin {"run", "drop", "blocked"}
  BY DEF SyncReturn, FinisherSleep, FinisherExit, CallbackReturn, FinisherDone
<1>3. th[t].new = 0
  BY <1>1, <1>2 DEF HoldersValid
<1>4. PICK s : /\ th' = [th EXCEPT ![t] = s]
               /\ s.new = 0 /\ s.pc \notin {"run", "drop"}
  <2>1. CASE th' = [th EXCEPT ![t] = Idle]
    <3>1. Idle.new = 0 /\ Idle.pc \notin {"run", "drop"}
      BY DEF Idle
    <3> QED BY <2>1, <3>1
  <2>2. ASSUME NEW pc \in {"asleep", "exit", "done"},
               th' = [th EXCEPT ![t] = [th[t] EXCEPT !.pc = pc]]
        PROVE  \E s : /\ th' = [th EXCEPT ![t] = s]
                      /\ s.new = 0 /\ s.pc \notin {"run", "drop"}
    <3> DEFINE r == [th[t] EXCEPT !.pc = pc]
    <3>1. r.new = 0 /\ r.pc \notin {"run", "drop"}
      BY <1>1, <1>3 DEF ThreadState
    <3>2. th' = [th EXCEPT ![t] = r]
      BY <2>2
    <3> HIDE DEF r
    <3> QED BY <3>1, <3>2
  <2>3. \/ th' = [th EXCEPT ![t] = Idle]
        \/ \E pc \in {"asleep", "exit", "done"} :
             th' = [th EXCEPT ![t] = [th[t] EXCEPT !.pc = pc]]
    BY DEF SyncReturn, FinisherSleep, FinisherExit, CallbackReturn, FinisherDone
  <2> QED BY <2>1, <2>2, <2>3
<1> QED BY <1>2, <1>4, QuietHands

\* Before the first operation nobody holds any.
LEMMA InitHands == Init => HandedInv
<1> SUFFICES ASSUME Init PROVE HandedInv
  OBVIOUS
<1>1. \A t \in Threads : th[t].new = 0 /\ th[t].pc = "idle"
  BY DEF Init, Idle
<1>2. HoldersValid
  BY <1>1 DEF HoldersValid
<1>3. ASSUME NEW o \in Ops PROVE Handed(o)
  <2>1. o > 0 /\ issued = 0 /\ answered[o] = "no" /\ o \in Int
    BY OpQueueAssumption DEF Init, Ops
  <2>2. \A t \in Threads : ~Held(t, o)
    BY <1>1, <2>1 DEF Held
  <2>3. Len(pending_ops) = 0
    BY DEF Init
  <2> QED BY <2>1, <2>2, <2>3 DEF Handed
<1> QED BY <1>2, <1>3 DEF HandedInv

\* Every step keeps every operation in one place.
LEMMA NextHands == CountInv /\ HandedInv /\ [Next]_vars => HandedInv'
<1> SUFFICES ASSUME CountInv, HandedInv, [Next]_vars PROVE HandedInv'
  OBVIOUS
<1>1. TypeOK
  BY DEF CountInv
<1>2. ASSUME NEW t \in Threads, QueueOp(t) \/ QueueOpWait(t) \/ CallerStep(t)
      PROVE  HandedInv'
  BY <1>1, <1>2, QueueOpHands, OtherStepHands DEF CallerStep
<1>3. ASSUME NEW f \in Finishers, FinisherStep(f) PROVE HandedInv'
  <2>1. f \in Threads
    BY DEF Threads
  <2> QED BY <1>1, <1>3, <2>1, FinisherTakeHands, CallbackHands, OtherStepHands
           DEF FinisherStep
<1>4. CASE Shutdown \/ DtorStep \/ UNCHANGED vars
  <2>1. /\ th' = th \/ th' = NotifyAll(th)
        /\ pending_ops' = pending_ops /\ issued' = issued /\ answered' = answered
    BY <1>4 DEF Shutdown, DtorStep, ShutdownNotify, ShutdownJoin, vars
  <2> QED BY <1>1, <2>1, NotifyHands
<1> QED BY <1>2, <1>3, <1>4 DEF Next

\* With every operation in exactly one place, the sets OpsHandedOn counts are
\* singletons or empty.
LEMMA HandedOnCounts == TypeOK /\ HandedInv => OpsHandedOn
<1> SUFFICES ASSUME TypeOK, HandedInv, NEW o \in 1 .. issued
             PROVE  Cardinality(Places(o))
                      + Cardinality({i \in DOMAIN pending_ops : pending_ops[i] = o})
                    = IF answered[o] = "no" THEN 1 ELSE 0
  BY DEF OpsHandedOn
<1> DEFINE Q == {i \in DOMAIN pending_ops : pending_ops[i] = o}
<1>1. o \in Ops /\ o <= issued
  BY OpQueueAssumption DEF TypeOK, Ops
<1>2. Handed(o)
  BY <1>1 DEF HandedInv
<1>3. \A t : t \in Places(o) <=> t \in Threads /\ Held(t, o)
  BY DEF Places, Held, Threads
<1>4. \A i : i \in Q <=> i \in 1 .. Len(pending_ops) /\ Queued(i, o)
  BY DEF Queued, TypeOK
<1> HIDE DEF Q
<1>5. CASE answered[o] # "no"
  <2>1. Places(o) = {} /\ Q = {}
    BY <1>2, <1>3, <1>4, <1>5 DEF Handed
  <2> QED BY <1>5, <2>1, FS_EmptySet DEF Q
<1>6. ASSUME answered[o] = "no", NEW t \in Threads, Held(t, o)
      PROVE  Cardinality(Places(o)) = 1 /\ Cardinality(Q) = 0
  <2>1. Places(o) = {t} /\ Q = {}
    BY <1>2, <1>3, <1>4, <1>6 DEF Handed
  <2> QED BY <2>1, FS_EmptySet, FS_Singleton
<1>7. ASSUME answered[o] = "no", NEW i \in 1 .. Len(pending_ops), Queued(i, o)
      PROVE  Cardinality(Places(o)) = 0 /\ Cardinality(Q) = 1
  <2>1. Places(o) = {} /\ Q = {i}
    BY <1>2, <1>3, <1>4, <1>7 DEF Handed
  <2> QED BY <2>1, FS_EmptySet, FS_Singleton
<1>8. CASE answered[o] = "no"
  <2>1. (\E t \in Threads : Held(t, o)) \/ \E i \in 1 .. Len(pending_ops) : Queued(i, o)
    BY <1>1, <1>2, <1>8 DEF Handed
  <2>2. Cardinality(Places(o)) + Cardinality(Q) = 1
    BY <1>6, <1>7, <1>8, <2>1
  <2> QED BY <1>8, <2>2 DEF Q
<1> QED BY <1>5, <1>8

\* An operation queued with queue_op is with one thread or in the queue once
\* until it is called back, and nowhere afterwards, for any number of threads
\* and operations.
THEOREM OpsHanded == Spec => []OpsHandedOn
<1>1. CountInv => TypeOK
  BY DEF CountInv
<1> QED BY <1>1, InitCounts, NextCounts, InitHands, NextHands, HandedOnCounts, PTL
         DEF Spec

-----------------------------------------------------------------------------
(* The destructor *)

\* The application's threads are out of the log once the destructor runs, a
\* finisher leaves only then and only when nothing is queued, and the destructor
\* returns when the last one has left.
DtorPhases ==
    /\ dtor = "up" <=> ~shutdown
    /\ dtor # "up" => \A u \in Users : th[u].pc = "idle"
    /\ \A f \in Finishers : th[f].pc = "exit" => shutdown
    /\ (\A f \in Finishers : th[f].pc = "exit") => pending_ops = <<>>
    /\ dtor = "gone" => \A f \in Finishers : th[f].pc = "exit"

\* The list of waiters names blocked threads, each once.
WaitersBlocked ==
    /\ \A i \in 1 .. Len(queue_op_waiters) :
         th[queue_op_waiters[i].thread].pc = "blocked"
    /\ \A i, j \in 1 .. Len(queue_op_waiters) :
         queue_op_waiters[i].thread = queue_op_waiters[j].thread => i = j

DtorInv == DtorPhases /\ WaitersBlocked

\* Where the other threads are after a step of thread t.
OthersStay(t) ==
    \A u \in Threads : u # t =>
        \/ th'[u].pc = th[u].pc
        \/ th[u].pc = "asleep" /\ th'[u].pc = "idle"

\* What the step of a caller or a finisher may do to the phases of destruction.
ActorStep(t) ==
    /\ OthersStay(t)
    /\ th[t].pc # "exit"
    /\ t \in Users => th[t].pc # "idle" \/ dtor = "up"
    /\ th'[t].pc = "exit" => shutdown /\ pending_ops' = <<>>
    /\ dtor' = dtor /\ shutdown' = shutdown

\* A step that changes one thread, and may wake sleeping finishers.
LEMMA OneThreadMoves ==
    ASSUME TypeOK, NEW t \in Threads, NEW s, s.pc # "asleep",
           th' = [th EXCEPT ![t] = s] \/ th' = NotifyAll([th EXCEPT ![t] = s])
    PROVE  OthersStay(t) /\ th'[t] = s
<1>1. OthersStay(t)
  BY HeldRests DEF OthersStay
<1>2. th'[t] = s
  BY DEF NotifyAll, TypeOK
<1> QED BY <1>1, <1>2

\* Putting an operation in the queue is such a step.
LEMMA EnqueueMoves ==
    ASSUME TypeOK, NEW t \in Threads, NEW o, Enqueue(t, o)
    PROVE  OthersStay(t) /\ th'[t].pc \in {"done", "idle", "sync"}
<1>1. PICK r \in Returned(t, o) : th' = NotifyAll([th EXCEPT ![t] = r])
  BY DEF Enqueue
<1>2. r.pc \in {"done", "idle", "sync"}
  BY <1>1, ReturnedIdle
<1> QED BY <1>1, <1>2, OneThreadMoves

\* So is every step that changes only the place of a thread.
LEMMA PcMoves ==
    ASSUME TypeOK, NEW t \in Threads, NEW pc,
           th' = [th EXCEPT ![t] = [th[t] EXCEPT !.pc = pc]]
    PROVE  OthersStay(t) /\ th'[t].pc = pc
<1>1. th[t] \in ThreadState
  BY DEF TypeOK
<1>2. th'[t].pc = pc /\ \A u \in Threads : u # t => th'[u] = th[u]
  BY <1>1 DEF TypeOK, ThreadState
<1> QED BY <1>2 DEF OthersStay

\* The calls of queue_op.
LEMMA CallerMoves ==
    ASSUME TypeOK, NEW t \in Threads,
           QueueOp(t) \/ QueueOpWait(t) \/ QueueOpWoken(t)
    PROVE  /\ ActorStep(t)
           /\ QueueOpWait(t) => th[t].pc # "blocked" /\ th'[t].pc = "blocked"
           /\ QueueOp(t) => th[t].pc # "blocked"
<1>1. MayQueue(t) => /\ th[t].pc \in {"idle", "callback"}
                     /\ t \in Users => th[t].pc # "idle" \/ dtor = "up"
  BY DEF MayQueue
<1>2. CASE QueueOp(t)
  <2>1. Enqueue(t, issued + 1) /\ MayQueue(t) /\ dtor' = dtor /\ shutdown' = shutdown
    BY <1>2 DEF QueueOp
  <2>2. OthersStay(t) /\ th'[t].pc \in {"done", "idle", "sync"}
    BY <2>1, EnqueueMoves
  <2>3. ~QueueOpWait(t)
    BY <1>2, OpQueueAssumption DEF QueueOp, QueueOpWait, TypeOK
  <2> QED BY <1>1, <2>1, <2>2, <2>3 DEF ActorStep
<1>3. CASE QueueOpWoken(t)
  <2>1. /\ Enqueue(t, th[t].new) /\ th[t].pc = "blocked"
        /\ dtor' = dtor /\ shutdown' = shutdown
    BY <1>3 DEF QueueOpWoken
  <2>2. OthersStay(t) /\ th'[t].pc \in {"done", "idle", "sync"}
    BY <2>1, EnqueueMoves
  <2>3. ~QueueOpWait(t) /\ ~QueueOp(t)
    BY <1>1, <2>1 DEF QueueOp, QueueOpWait
  <2> QED BY <2>1, <2>2, <2>3 DEF ActorStep
<1>4. CASE QueueOpWait(t)
  <2> DEFINE s == [th[t] EXCEPT !.pc = "blocked", !.new = issued + 1]
  <2>1. /\ th' = [th EXCEPT ![t] = s] /\ MayQueue(t)
        /\ dtor' = dtor /\ shutdown' = shutdown
    BY <1>4 DEF QueueOpWait
  <2>2. th[t] \in ThreadState
    BY DEF TypeOK
  <2>3. s.pc = "blocked"
    BY <2>2 DEF ThreadState
  <2> HIDE DEF s
  <2>4. OthersStay(t) /\ th'[t].pc = "blocked"
    BY <2>1, <2>3, OneThreadMoves
  <2>5. ~QueueOp(t)
    BY <1>4, OpQueueAssumption DEF QueueOp, QueueOpWait, TypeOK
  <2> QED BY <1>1, <2>1, <2>4, <2>5 DEF ActorStep
<1> QED BY <1>2, <1>3, <1>4

\* The other steps of callers and finishers.
LEMMA OtherMoves ==
    ASSUME TypeOK, NEW t \in Threads,
           SyncReturn(t) \/ (t \in Finishers /\ FinisherStep(t))
    PROVE  ActorStep(t) /\ th[t].pc # "blocked"
<1>1. Users \cap Finishers = {} /\ th[t] \in ThreadState
  BY OpQueueAssumption DEF TypeOK
<1>2. dtor' = dtor /\ shutdown' = shutdown /\ th[t].pc \notin {"exit", "blocked"}
      /\ (t \in Users => th[t].pc # "idle")
  BY <1>1 DEF SyncReturn, FinisherStep, FinisherSleep, FinisherTake, FinisherExit,
              InvokeCallback, CallbackReturn, FinisherDone
<1>3. OthersStay(t) /\ (th'[t].pc = "exit" => shutdown /\ pending_ops' = <<>>)
  <2>1. CASE SyncReturn(t) \/ FinisherDone(t)
    <3>1. th' = [th EXCEPT ![t] = Idle]
      BY <2>1 DEF SyncReturn, FinisherDone
    <3>2. Idle.pc = "idle"
      BY DEF Idle
    <3> QED BY <3>1, <3>2, OneThreadMoves
  <2>2. CASE FinisherTake(t)
    <3> DEFINE s == [th[t] EXCEPT !.pc = IF shutdown THEN "drop" ELSE "run",
                                  !.op = Head(pending_ops)]
    <3>1. th' = [th EXCEPT ![t] = s]
      BY <2>2 DEF FinisherTake
    <3>2. s.pc \in {"run", "drop"}
      BY <1>1 DEF ThreadState
    <3> HIDE DEF s
    <3> QED BY <3>1, <3>2, OneThreadMoves
  <2>3. CASE FinisherSleep(t)
    BY <2>3, PcMoves DEF FinisherSleep
  <2>4. CASE FinisherExit(t)
    BY <2>4, PcMoves DEF FinisherExit
  <2>5. CASE InvokeCallback(t)
    BY <2>5, PcMoves DEF InvokeCallback
  <2>6. CASE CallbackReturn(t)
    BY <2>6, PcMoves DEF CallbackReturn
  <2> QED BY <2>1, <2>2, <2>3, <2>4, <2>5, <2>6 DEF FinisherStep
<1> QED BY <1>2, <1>3 DEF ActorStep

\* Such a step keeps the phases: an application thread moves only while the log
\* is up, when no finisher has left yet.
LEMMA ActorPhases ==
    ASSUME TypeOK, Finishers # {}, DtorPhases, NEW t \in Threads, ActorStep(t)
    PROVE  DtorPhases'
<1>1. t \in Users => dtor = "up"
  BY DEF ActorStep, DtorPhases
<1>2. Finishers \subseteq Threads /\ Users \subseteq Threads
      /\ (t \in Users \/ t \in Finishers)
  BY DEF Threads
<1>3. \A u \in Threads : u # t => (th'[u].pc = "exit" <=> th[u].pc = "exit")
  BY DEF ActorStep, OthersStay
<1>4. dtor' = dtor /\ shutdown' = shutdown
  BY DEF ActorStep
<1>5. dtor' # "up" => \A u \in Users : th'[u].pc = "idle"
  BY <1>1, <1>2, <1>4 DEF ActorStep, OthersStay, DtorPhases
<1>6. \A f \in Finishers : th'[f].pc = "exit" => shutdown'
  BY <1>2, <1>3, <1>4 DEF ActorStep, DtorPhases
<1>7. ASSUME \A f \in Finishers : th'[f].pc = "exit" PROVE pending_ops' = <<>>
  <2>1. CASE t \in Finishers
    BY <1>7, <2>1 DEF ActorStep
  <2>2. CASE t \notin Finishers
    <3>1. dtor = "up" /\ ~shutdown
      BY <1>1, <1>2, <2>2 DEF DtorPhases
    <3>2. \E f \in Finishers : th[f].pc = "exit"
      BY <1>2, <1>3, <1>7, <2>2
    <3> QED BY <3>1, <3>2 DEF DtorPhases
  <2> QED BY <2>1, <2>2
<1>8. dtor' = "gone" => \A f \in Finishers : th'[f].pc = "exit"
  BY <1>1, <1>2, <1>3, <1>4 DEF ActorStep, DtorPhases
<1> QED BY <1>4, <1>5, <1>6, <1>7, <1>8 DEF DtorPhases

\* A thread in the list of waiters stays blocked while another one moves.
LEMMA BlockedStays ==
    ASSUME TypeOK, WaitersBlocked, NEW t \in Threads, OthersStay(t),
           NEW i \in 1 .. Len(queue_op_waiters), queue_op_waiters[i].thread # t
    PROVE  th'[queue_op_waiters[i].thread].pc = "blocked"
<1>1. queue_op_waiters[i] \in Waiter
  BY DEF TypeOK
<1>2. PICK u \in Threads : u = queue_op_waiters[i].thread
  BY <1>1 DEF Waiter
<1>3. th[u].pc = "blocked"
  BY <1>2 DEF WaitersBlocked
<1>4. th'[u].pc = "blocked"
  BY <1>2, <1>3 DEF OthersStay
<1> QED BY <1>2, <1>4

\* Steps that leave the list alone but for the flags.
LEMMA SameWaiters ==
    ASSUME TypeOK, WaitersBlocked, NEW t \in Threads, OthersStay(t),
           th[t].pc # "blocked",
           Len(queue_op_waiters') = Len(queue_op_waiters),
           \A i \in 1 .. Len(queue_op_waiters) :
               queue_op_waiters'[i].thread = queue_op_waiters[i].thread
    PROVE  WaitersBlocked'
<1>1. \A i \in 1 .. Len(queue_op_waiters) : queue_op_waiters[i].thread # t
  BY DEF WaitersBlocked
<1>2. \A i \in 1 .. Len(queue_op_waiters) :
        th'[queue_op_waiters[i].thread].pc = "blocked"
  BY <1>1, BlockedStays
<1> QED BY <1>2 DEF WaitersBlocked

\* queue_op puts a caller in front of the list that was not in it.
LEMMA WaitBlocks ==
    ASSUME TypeOK, WaitersBlocked, NEW t \in Threads, QueueOpWait(t)
    PROVE  WaitersBlocked'
<1> DEFINE w == queue_op_waiters
           e == [thread |-> t, flag |-> "waiting"]
<1>1. ActorStep(t) /\ th[t].pc # "blocked" /\ th'[t].pc = "blocked"
  BY CallerMoves
<1>2. OthersStay(t)
  BY <1>1 DEF ActorStep
<1>3. w \in Seq(Waiter) /\ w' = <<e>> \o w /\ e \in Waiter /\ e.thread = t
  BY DEF QueueOpWait, TypeOK, Waiter
<1> HIDE DEF e
<1>4. /\ Len(w) \in Nat /\ Len(w') = Len(w) + 1 /\ w'[1] = e
      /\ \A i \in 2 .. Len(w') : i - 1 \in 1 .. Len(w) /\ w'[i] = w[i - 1]
  BY <1>3
<1>5. \A i \in 1 .. Len(w) : w[i].thread # t /\ th'[w[i].thread].pc = "blocked"
  BY <1>1, <1>2, BlockedStays DEF WaitersBlocked
<1>6. \A i \in 1 .. Len(w') : i = 1 \/ i \in 2 .. Len(w')
  BY <1>4
<1>7. ASSUME NEW i \in 1 .. Len(w') PROVE th'[w'[i].thread].pc = "blocked"
  BY <1>1, <1>3, <1>4, <1>5, <1>6
<1>8. ASSUME NEW i \in 1 .. Len(w'), NEW j \in 1 .. Len(w'),
             w'[i].thread = w'[j].thread
      PROVE  i = j
  <2>1. CASE i = 1 /\ j # 1
    BY <1>3, <1>4, <1>5, <1>6, <1>8, <2>1
  <2>2. CASE i # 1 /\ j = 1
    BY <1>3, <1>4, <1>5, <1>6, <1>8, <2>2
  <2>3. CASE i # 1 /\ j # 1
    <3>1. i - 1 = j - 1
      BY <1>4, <1>6, <1>8, <2>3 DEF WaitersBlocked
    <3> QED BY <3>1
  <2> QED BY <2>1, <2>2, <2>3
<1> QED BY <1>7, <1>8 DEF WaitersBlocked

\* A woken caller takes itself off the back of the list.
LEMMA WokenLeaves ==
    ASSUME TypeOK, QueueInv, WaitersBlocked, NEW t \in Threads, QueueOpWoken(t)
    PROVE  WaitersBlocked'
<1> DEFINE w == queue_op_waiters
<1>1. OthersStay(t)
  BY CallerMoves DEF ActorStep
<1>2. w \in Seq(Waiter) /\ Len(w) \in Nat
  BY DEF TypeOK
<1>3. PICK i \in 1 .. Len(w) : /\ w[i] = [thread |-> t, flag |-> "woken"]
                               /\ w' = EraseWaiter(i)
  BY <1>2 DEF QueueOpWoken
<1>4. i = Len(w)
  BY <1>3 DEF QueueInv, OnlyOldestWoken
<1>5. /\ Len(w') = Len(w) - 1
      /\ \A j \in 1 .. Len(w) - 1 : w'[j] = w[j]
  BY <1>2, <1>3, <1>4 DEF EraseWaiter
<1>6. \A j \in 1 .. Len(w) - 1 : j \in 1 .. Len(w) /\ w[j].thread # t
  BY <1>2, <1>3, <1>4 DEF WaitersBlocked
<1>7. \A j \in 1 .. Len(w) - 1 : th'[w[j].thread].pc = "blocked"
  BY <1>1, <1>6, BlockedStays
<1>8. \A j \in 1 .. Len(w') : j \in 1 .. Len(w) /\ j \in 1 .. Len(w) - 1
  BY <1>2, <1>5
<1> QED BY <1>5, <1>7, <1>8 DEF WaitersBlocked

\* The end of an operation changes only a flag.
LEMMA WakeKeepsThreads ==
    ASSUME TypeOK, queue_op_waiters' = WakeOldest(queue_op_waiters)
    PROVE  /\ Len(queue_op_waiters') = Len(queue_op_waiters)
           /\ \A i \in 1 .. Len(queue_op_waiters) :
                queue_op_waiters'[i].thread = queue_op_waiters[i].thread
<1> DEFINE w == queue_op_waiters
<1>1. w \in Seq(Waiter) /\ Len(w) \in Nat
  BY DEF TypeOK
<1>2. CASE w = <<>>
  BY <1>2 DEF WakeOldest
<1>3. CASE w # <<>>
  <2> DEFINE e == [w[Len(w)] EXCEPT !.flag = "woken"]
  <2>1. w' = [w EXCEPT ![Len(w)] = e]
    BY <1>3 DEF WakeOldest
  <2>2. Len(w) \in 1 .. Len(w) /\ w[Len(w)] \in Waiter
    BY <1>1, <1>3
  <2>3. e.thread = w[Len(w)].thread /\ e \in Waiter
    BY <2>2 DEF Waiter
  <2> HIDE DEF e
  <2>4. Len(w') = Len(w) /\ \A i \in 1 .. Len(w) : w'[i] = IF i = Len(w) THEN e ELSE w[i]
    BY <1>1, <2>1, <2>2, <2>3
  <2> QED BY <2>3, <2>4
<1> QED BY <1>2, <1>3

\* A log that is just open is up.
LEMMA InitDtor == Init /\ Finishers # {} => DtorInv
<1> SUFFICES ASSUME Init PROVE DtorInv
  OBVIOUS
<1>1. \A t \in Threads : th[t].pc = "idle"
  BY DEF Init, Idle
<1>2. DtorPhases
  BY <1>1 DEF Init, DtorPhases, Threads
<1>3. Len(queue_op_waiters) = 0
  BY DEF Init
<1>4. WaitersBlocked
  BY <1>3 DEF WaitersBlocked
<1> QED BY <1>2, <1>4 DEF DtorInv

\* The steps of the destructor.
LEMMA DtorStepPhases ==
    ASSUME TypeOK, DtorInv, Shutdown \/ DtorStep
    PROVE  DtorInv'
<1>1. Finishers \subseteq Threads /\ Users \subseteq Threads
  BY DEF Threads
<1>2. th' = th \/ th' = NotifyAll(th)
  BY DEF Shutdown, DtorStep, ShutdownNotify, ShutdownJoin
<1>3. UNCHANGED <<pending_ops, queue_op_waiters>>
  BY DEF Shutdown, DtorStep, ShutdownNotify, ShutdownJoin
<1>4. \A t \in Threads : \/ th'[t].pc = th[t].pc
                         \/ th[t].pc = "asleep" /\ th'[t].pc = "idle"
  <2> SUFFICES ASSUME NEW t \in Threads
               PROVE  \/ th'[t].pc = th[t].pc
                      \/ th[t].pc = "asleep" /\ th'[t].pc = "idle"
    OBVIOUS
  <2>1. th[t] \in ThreadState
    BY DEF TypeOK
  <2>2. \/ th'[t] = th[t]
        \/ th[t].pc = "asleep" /\ th'[t] = [th[t] EXCEPT !.pc = "idle"]
    BY <1>2 DEF NotifyAll
  <2> QED BY <2>1, <2>2 DEF ThreadState
<1>5. WaitersBlocked'
  <2>1. ASSUME NEW i \in 1 .. Len(queue_op_waiters)
        PROVE  th'[queue_op_waiters[i].thread].pc = "blocked"
    <3>1. queue_op_waiters[i] \in Waiter
      BY DEF TypeOK
    <3>2. PICK u \in Threads : u = queue_op_waiters[i].thread
      BY <3>1 DEF Waiter
    <3>3. th[u].pc = "blocked"
      BY <3>2 DEF DtorInv, WaitersBlocked
    <3> QED BY <1>4, <3>2, <3>3
  <2> QED BY <1>3, <2>1 DEF DtorInv, WaitersBlocked
<1>6. \A t \in Threads : th'[t].pc = "exit" <=> th[t].pc = "exit"
  BY <1>4
<1>7. \A t \in Threads : th[t].pc = "idle" => th'[t].pc = "idle"
  BY <1>4
<1>8. DtorPhases'
  <2>1. CASE Shutdown
    BY <1>1, <1>3, <1>6, <1>7, <2>1 DEF Shutdown, DtorInv, DtorPhases
  <2>2. CASE ShutdownNotify
    BY <1>1, <1>3, <1>6, <1>7, <2>2 DEF ShutdownNotify, DtorInv, DtorPhases
  <2>3. CASE ShutdownJoin
    BY <1>1, <1>3, <1>6, <1>7, <2>3 DEF ShutdownJoin, DtorInv, DtorPhases
  <2> QED BY <2>1, <2>2, <2>3 DEF DtorStep
<1> QED BY <1>5, <1>8 DEF DtorInv

\* Every step keeps the invariant of destruction.
LEMMA NextDtor ==
    Finishers # {} /\ CountInv /\ QueueInv /\ DtorInv /\ [Next]_vars => DtorInv'
<1> SUFFICES ASSUME Finishers # {}, CountInv, QueueInv, DtorInv, [Next]_vars
             PROVE  DtorInv'
  OBVIOUS
<1>1. TypeOK /\ DtorPhases /\ WaitersBlocked
  BY DEF CountInv, DtorInv
<1>2. ASSUME NEW t \in Threads, QueueOp(t) \/ QueueOpWait(t) \/ QueueOpWoken(t)
      PROVE  DtorInv'
  <2>1. ActorStep(t) /\ OthersStay(t)
    BY <1>1, <1>2, CallerMoves DEF ActorStep
  <2>2. DtorPhases'
    BY <1>1, <2>1, ActorPhases
  <2>3. CASE QueueOp(t)
    <3>1. th[t].pc # "blocked" /\ queue_op_waiters' = queue_op_waiters
      BY <1>1, <2>3, CallerMoves DEF QueueOp
    <3>2. WaitersBlocked'
      BY <1>1, <2>1, <3>1, SameWaiters
    <3> QED BY <2>2, <3>2 DEF DtorInv
  <2>4. CASE QueueOpWait(t) \/ QueueOpWoken(t)
    BY <1>1, <2>2, <2>4, WaitBlocks, WokenLeaves DEF DtorInv
  <2> QED BY <1>2, <2>3, <2>4
<1>3. ASSUME NEW t \in Threads, SyncReturn(t) \/ (t \in Finishers /\ FinisherStep(t))
      PROVE  DtorInv'
  <2>1. ActorStep(t) /\ OthersStay(t) /\ th[t].pc # "blocked"
    BY <1>1, <1>3, OtherMoves DEF ActorStep
  <2>2. DtorPhases'
    BY <1>1, <2>1, ActorPhases
  <2>3. queue_op_waiters' = queue_op_waiters
        \/ queue_op_waiters' = WakeOldest(queue_op_waiters)
    BY <1>3 DEF SyncReturn, FinisherStep, FinisherSleep, FinisherTake, FinisherExit,
                InvokeCallback, CallbackReturn, FinisherDone
  <2>4. /\ Len(queue_op_waiters') = Len(queue_op_waiters)
        /\ \A i \in 1 .. Len(queue_op_waiters) :
             queue_op_waiters'[i].thread = queue_op_waiters[i].thread
    BY <1>1, <2>3, WakeKeepsThreads
  <2>5. WaitersBlocked'
    BY <1>1, <2>1, <2>4, SameWaiters
  <2> QED BY <2>2, <2>5 DEF DtorInv
<1>4. CASE Shutdown \/ DtorStep
  BY <1>1, <1>4, DtorStepPhases
<1>5. CASE UNCHANGED vars
  BY <1>1, <1>5 DEF vars, DtorInv, DtorPhases, WaitersBlocked
<1>6. Finishers \subseteq Threads
  BY DEF Threads
<1> QED BY <1>2, <1>3, <1>4, <1>5, <1>6 DEF Next, CallerStep

\* After the destructor no thread is in the log, so nothing is in its queue.
LEMMA GoneIsClean ==
    ASSUME CountInv, HandedInv, DtorInv, dtor = "gone"
    PROVE  /\ pending_ops = <<>> /\ queue_op_waiters = <<>>
           /\ num_inflight_ops = 0
           /\ \A o \in 1 .. issued : answered[o] # "no"
<1>1. TypeOK /\ HoldersValid
  BY DEF CountInv, HandedInv
<1>2. \A t \in Threads : th[t].pc \in {"idle", "exit"}
  BY DEF DtorInv, DtorPhases, Threads
<1>3. pending_ops = <<>> /\ Len(pending_ops) = 0
  BY DEF DtorInv, DtorPhases
<1>4. queue_op_waiters = <<>>
  <2>1. queue_op_waiters \in Seq(Waiter)
    BY <1>1 DEF TypeOK
  <2>2. ASSUME queue_op_waiters # <<>> PROVE FALSE
    <3>1. 1 \in 1 .. Len(queue_op_waiters) /\ queue_op_waiters[1] \in Waiter
      BY <2>1, <2>2
    <3>2. queue_op_waiters[1].thread \in Threads
      BY <3>1 DEF Waiter
    <3> QED BY <1>2, <3>1, <3>2 DEF DtorInv, WaitersBlocked
  <2> QED BY <2>2
<1>5. num_inflight_ops = 0
  <2>1. Busy = {}
    BY <1>2 DEF Busy, Processing, Threads
  <2> QED BY <1>3, <2>1, FS_EmptySet DEF CountInv, InflightExact, Busy
<1>6. ASSUME NEW o \in 1 .. issued PROVE answered[o] # "no"
  <2>1. o \in Ops /\ o <= issued /\ o # 0
    BY <1>1, OpQueueAssumption DEF TypeOK, Ops
  <2>2. Handed(o)
    BY <2>1 DEF HandedInv
  <2>3. \A t \in Threads : ~Held(t, o)
    BY <1>1, <1>2, <2>1 DEF Held, HoldersValid
  <2> QED BY <1>3, <2>1, <2>2, <2>3 DEF Handed
<1> QED BY <1>3, <1>4, <1>5, <1>6

\* A log that has finisher threads is drained by its destructor: when it returns
\* every operation was called back and nobody waits in queue_op.  Without a
\* finisher (an option the code does not check) the destructor would return
\* with operations still in the queue.
THEOREM DestroyedDrained == Finishers # {} => (Spec => []DestroyedClean)
<1> SUFFICES ASSUME Finishers # {} PROVE Spec => []DestroyedClean
  OBVIOUS
<1>1. CountInv /\ HandedInv /\ DtorInv => DestroyedClean
  BY GoneIsClean DEF DestroyedClean
<1>2. Init => CountInv /\ QueueInv /\ HandedInv /\ DtorInv
  BY InitCounts, InitHands, InitDtor
<1>3. CountInv /\ QueueInv /\ HandedInv /\ DtorInv /\ [Next]_vars
        => CountInv' /\ QueueInv' /\ HandedInv' /\ DtorInv'
  BY NextCounts, NextHands, NextDtor
<1> QED BY <1>1, <1>2, <1>3, PTL DEF Spec
==============================================================================
