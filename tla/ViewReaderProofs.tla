-------------------------- MODULE ViewReaderProofs --------------------------
(***************************************************************************)
(* The view reader keeps its promises for any number of callers and views: *)
(* it implements NewerView, serves a caller that asks for it promptly and  *)
(* leaves nobody waiting when its thread ends.                             *)
(***************************************************************************)
EXTENDS ViewReader, TLAPS

\* Types of what the arguments below compute with.
Typed ==
    /\ latest \in Nat /\ view \in Nat
    /\ refresh_waiters \subseteq Callers
    /\ refresher \in [pc : {"loop", "sleep", "woken", "read", "install", "view",
                            "scan", "exit"},
                      timeout : Nat, snap : Nat]
    /\ opener \in [pc : {"read", "install", "check", "opened", "failed"},
                   snap : Nat]
    /\ caller \in [Callers ->
                     [pc : {"idle", "waiting", "released"}, epoch : Nat]]
    /\ refresh_timeout \in Nat

\* The list of waiters holds exactly the callers that wait.
WaitersExact ==
    \A c \in Callers : c \in refresh_waiters <=> caller[c].pc = "waiting"

\* A caller is released only when the view it has is replaced, or on shutdown.
CallersHold ==
    \A c \in Callers :
        /\ caller[c].pc = "idle" <=> caller[c].epoch = 0
        /\ caller[c].pc = "released" => view > caller[c].epoch \/ shutdown

\* A view that was read exists, also if it is no longer the latest, and the
\* refresh thread scans its waiters with a view that was active.
SnapsExist ==
    /\ view <= latest
    /\ refresher.pc = "install" => refresher.snap <= latest
    /\ refresher.pc = "scan" => refresher.snap <= view
    /\ opener.pc = "install" => opener.snap <= latest

\* The refresh thread has ended.
ExitClean == refresher.pc = "exit" => shutdown /\ refresh_waiters = {}

\* A request made since the views were read has set the shortest timeout, and
\* that is the one the thread is going to use, or uses, while anyone waits.
PromptInv ==
    /\ refresher.pc \in {"install", "view", "scan", "loop"} /\ unread # {}
         => refresh_timeout = MinTimeout
    /\ refresher.pc = "sleep" /\ refresher.timeout > MinTimeout
         => unread = {} \/ refresh_waiters = {}

\* The inductive invariant.
ReaderInv ==
    Typed /\ WaitersExact /\ CallersHold /\ SnapsExist /\ ExitClean /\ PromptInv

-----------------------------------------------------------------------------
\* Init establishes the invariant.
LEMMA InitReader == Init => ReaderInv
<1> SUFFICES ASSUME Init PROVE ReaderInv
  OBVIOUS
<1>1. Typed
  BY ViewReaderAssumption DEF Init, Typed, NotWaiting
<1>2. WaitersExact /\ CallersHold
  BY DEF Init, WaitersExact, CallersHold, NotWaiting
<1>3. SnapsExist /\ ExitClean /\ PromptInv
  BY DEF Init, SnapsExist, ExitClean, PromptInv
<1> QED BY <1>1, <1>2, <1>3 DEF ReaderInv

\* The steps of the refresh thread that release nobody and install no view.
LEMMA QuietRefresher ==
    ASSUME ReaderInv,
           \/ RefresherSleep \/ RefresherTimeout \/ RefresherAwake
           \/ RefresherRead \/ RefresherReadFails \/ RefresherView
    PROVE  /\ ReaderInv'
           /\ UNCHANGED <<latest, view, shutdown, caller>>
<1> USE DEF ReaderInv
<1>1. UNCHANGED <<latest, view, shutdown, opener, refresh_waiters, caller>>
  BY DEF RefresherSleep, RefresherTimeout, RefresherAwake, RefresherRead,
         RefresherReadFails, RefresherView
<1>2. Typed'
  <2>1. CASE RefresherSleep
    BY <1>1, <2>1, ViewReaderAssumption DEF Typed, RefresherSleep
  <2>2. CASE RefresherAwake
    BY <1>1, <2>2 DEF Typed, RefresherAwake, BackOff
  <2>3. CASE RefresherRead
    BY <1>1, <2>3 DEF Typed, RefresherRead
  <2>4. CASE RefresherView
    BY <1>1, <2>4 DEF Typed, RefresherView
  <2>5. CASE RefresherTimeout \/ RefresherReadFails
    BY <1>1, <2>5 DEF Typed, RefresherTimeout, RefresherReadFails
  <2> QED BY <2>1, <2>2, <2>3, <2>4, <2>5
<1>3. WaitersExact' /\ CallersHold'
  BY <1>1 DEF WaitersExact, CallersHold
<1>4. SnapsExist'
  <2>1. CASE RefresherRead
    BY <1>1, <2>1 DEF Typed, SnapsExist, RefresherRead
  <2>2. CASE RefresherView
    BY <1>1, <2>2 DEF Typed, SnapsExist, RefresherView
  <2>3. CASE RefresherSleep \/ RefresherTimeout
    BY <1>1, <2>3 DEF Typed, SnapsExist, RefresherSleep, RefresherTimeout
  <2>4. CASE RefresherAwake \/ RefresherReadFails
    BY <1>1, <2>4 DEF Typed, SnapsExist, RefresherAwake, RefresherReadFails
  <2> QED BY <2>1, <2>2, <2>3, <2>4
<1>5. ExitClean'
  BY <1>1 DEF Typed, ExitClean, RefresherSleep, RefresherTimeout,
         RefresherAwake, RefresherRead, RefresherReadFails, RefresherView
<1>6. PromptInv'
  <2>1. CASE RefresherSleep
    BY <1>1, <2>1, ViewReaderAssumption DEF Typed, PromptInv, RefresherSleep
  <2>2. CASE RefresherTimeout \/ RefresherAwake
    BY <2>2 DEF Typed, PromptInv, RefresherTimeout, RefresherAwake
  <2>3. CASE RefresherRead \/ RefresherReadFails
    BY <2>3 DEF Typed, PromptInv, RefresherRead, RefresherReadFails
  <2>4. CASE RefresherView
    BY <2>4 DEF Typed, PromptInv, RefresherView
  <2> QED BY <2>1, <2>2, <2>3, <2>4
<1> QED BY <1>1, <1>2, <1>3, <1>4, <1>5, <1>6

\* The steps of the opener and of shutdown that install no view, and those of
\* other clients: all they do to the refresh thread is to notify it.
LEMMA QuietOthers ==
    ASSUME ReaderInv,
           \/ ProposeView \/ OpenerRead \/ OpenerReadFails \/ OpenerCheck
           \/ ShutdownSet \/ ShutdownNotify \/ ShutdownJoin
    PROVE  ReaderInv'
<1> USE DEF ReaderInv
<1>1. /\ UNCHANGED <<view, refresh_timeout, refresh_waiters, caller, unread>>
      /\ shutdown => shutdown'
      /\ latest' \in Nat /\ latest' >= latest
  BY DEF Typed, ProposeView, OpenerRead, OpenerReadFails, OpenerCheck,
         ShutdownSet, ShutdownNotify, ShutdownJoin
<1>2. \/ refresher' = refresher
      \/ refresher.pc = "sleep" /\ refresher' = [refresher EXCEPT !.pc = "woken"]
  BY DEF ProposeView, OpenerRead, OpenerReadFails, OpenerCheck,
         ShutdownSet, ShutdownNotify, NotifyRefresher, ShutdownJoin
<1>3. /\ opener' \in [pc : {"read", "install", "check", "opened", "failed"},
                      snap : Nat]
      /\ opener'.pc = "install" => opener'.snap <= latest'
  <2>1. CASE OpenerRead
    BY <2>1 DEF Typed, OpenerRead
  <2>2. CASE OpenerReadFails \/ OpenerCheck
    BY <2>2 DEF Typed, OpenerReadFails, OpenerCheck
  <2>3. CASE UNCHANGED opener
    BY <1>1, <2>3 DEF Typed, SnapsExist
  <2> QED BY <2>1, <2>2, <2>3
          DEF ProposeView, ShutdownSet, ShutdownNotify, ShutdownJoin
<1>4. Typed'
  BY <1>1, <1>2, <1>3 DEF Typed
<1>5. WaitersExact' /\ CallersHold'
  BY <1>1 DEF WaitersExact, CallersHold
<1>6. SnapsExist'
  BY <1>1, <1>2, <1>3 DEF Typed, SnapsExist
<1>7. ExitClean' /\ PromptInv'
  BY <1>1, <1>2 DEF Typed, ExitClean, PromptInv
<1> QED BY <1>4, <1>5, <1>6, <1>7

\* refresh_view's locked part installs a view that exists, or fails.
LEMMA InstallSteps ==
    ASSUME ReaderInv, RefresherInstall \/ OpenerInstall
    PROVE  /\ ReaderInv'
           /\ view' >= view /\ view' <= latest
<1> USE DEF ReaderInv
<1>1. UNCHANGED <<latest, shutdown, refresh_timeout, refresh_waiters, caller,
                  unread>>
  BY DEF RefresherInstall, OpenerInstall
<1>2. view' \in Nat /\ view' >= view /\ view' <= latest
  BY DEF RefresherInstall, OpenerInstall, InstallView, Typed, SnapsExist
<1>3. Typed'
  BY <1>1, <1>2 DEF Typed, RefresherInstall, OpenerInstall
<1>4. WaitersExact' /\ CallersHold'
  BY <1>1, <1>2 DEF Typed, WaitersExact, CallersHold
<1>5. SnapsExist'
  BY <1>1, <1>2 DEF Typed, SnapsExist, RefresherInstall, OpenerInstall
<1>6. ExitClean' /\ PromptInv'
  BY <1>1 DEF Typed, ExitClean, PromptInv, RefresherInstall, OpenerInstall
<1> QED BY <1>2, <1>3, <1>4, <1>5, <1>6

\* The refresh thread releases waiters: those a scan serves, or all at the end.
LEMMA ReleaseSteps ==
    ASSUME ReaderInv, RefresherScan \/ RefresherExit
    PROVE  /\ ReaderInv'
           /\ \A c \in Callers : caller'[c].epoch = caller[c].epoch
<1> USE DEF ReaderInv
<1>1. PICK cs \in {Served, refresh_waiters} :
         /\ caller' = ReleaseAll(cs) /\ refresh_waiters' = refresh_waiters \ cs
         /\ cs = refresh_waiters => shutdown \/ cs = Served
  BY DEF RefresherScan, RefresherExit
<1>2. UNCHANGED <<latest, view, shutdown, opener, unread>>
  BY DEF RefresherScan, RefresherExit
<1>3. cs \subseteq refresh_waiters /\ refresh_waiters \subseteq Callers
  BY <1>1 DEF Served, Typed
<1>4. \A c \in Callers :
         caller'[c] = IF c \in cs THEN [caller[c] EXCEPT !.pc = "released"]
                      ELSE caller[c]
  BY <1>1 DEF ReleaseAll
<1>5. ASSUME NEW c \in Callers
      PROVE  /\ caller'[c] \in [pc : {"idle", "waiting", "released"}, epoch : Nat]
             /\ caller'[c].epoch = caller[c].epoch
             /\ caller'[c].pc = IF c \in cs THEN "released" ELSE caller[c].pc
  BY <1>4 DEF Typed
<1>6. Typed'
  <2>1. caller' = [c \in Callers |-> caller'[c]]
    BY <1>1 DEF ReleaseAll
  <2>2. caller' \in [Callers ->
                       [pc : {"idle", "waiting", "released"}, epoch : Nat]]
    BY <1>5, <2>1
  <2> QED BY <1>1, <1>2, <1>3, <2>2
          DEF Typed, RefresherScan, RefresherExit, BackOff
<1>7. WaitersExact'
  BY <1>1, <1>3, <1>5 DEF WaitersExact
<1>8. ASSUME NEW c \in cs
      PROVE  view > caller[c].epoch \/ shutdown
  <2>1. CASE shutdown
    BY <2>1
  <2>2. CASE ~shutdown
    <3>1. RefresherScan /\ cs = Served
      BY <1>1, <2>2 DEF RefresherExit
    <3>2. refresher.snap > caller[c].epoch /\ refresher.snap <= view
      BY <3>1 DEF Served, SnapsExist, RefresherScan
    <3>3. caller[c].epoch \in Nat
      BY <1>3 DEF Typed
    <3> QED BY <3>2, <3>3 DEF Typed
  <2> QED BY <2>1, <2>2
<1>9. CallersHold'
  BY <1>2, <1>3, <1>5, <1>8 DEF CallersHold, WaitersExact
<1>10. SnapsExist'
  BY <1>2 DEF Typed, SnapsExist, RefresherScan, RefresherExit
<1>11. ExitClean'
  BY <1>2 DEF Typed, ExitClean, RefresherScan, RefresherExit
<1>12. PromptInv'
  BY <1>2 DEF Typed, PromptInv, RefresherScan, RefresherExit
<1> QED BY <1>5, <1>6, <1>7, <1>9, <1>10, <1>11, <1>12

\* wait_for_newer_view.
LEMMA WaitSteps ==
    ASSUME ReaderInv, NEW c \in Callers, NEW wakeup \in BOOLEAN,
           WaitForNewerView(c, wakeup)
    PROVE  ReaderInv'
<1> USE DEF ReaderInv
<1>1. PICK e \in 1 .. view :
         caller' = [caller EXCEPT ![c] = [pc |-> "waiting", epoch |-> e]]
  BY DEF WaitForNewerView
<1>2. /\ refresh_waiters' = refresh_waiters \cup {c}
      /\ UNCHANGED <<latest, view, shutdown, opener>>
      /\ ~shutdown /\ caller[c].pc = "idle"
  BY DEF WaitForNewerView
<1>3. \/ /\ refresh_timeout' = MinTimeout
         /\ refresher' = NotifyRefresher(refresher)
      \/ /\ UNCHANGED <<refresh_timeout, refresher, unread>>
         /\ refresh_waiters # {}
  BY DEF WaitForNewerView
<1>4. /\ refresher' = refresher \/ refresher' = [refresher EXCEPT !.pc = "woken"]
      /\ refresher.pc = "sleep" \/ refresher' = refresher
  BY <1>3 DEF NotifyRefresher
<1>5. Typed'
  BY <1>1, <1>2, <1>3, <1>4, ViewReaderAssumption DEF Typed
<1>6. WaitersExact' /\ CallersHold'
  BY <1>1, <1>2 DEF Typed, WaitersExact, CallersHold
<1>7. SnapsExist'
  BY <1>2, <1>4 DEF Typed, SnapsExist
<1>8. ExitClean'
  BY <1>2, <1>4 DEF Typed, ExitClean
<1>9. PromptInv'
  BY <1>2, <1>3, <1>4 DEF Typed, PromptInv, NotifyRefresher
<1> QED BY <1>5, <1>6, <1>7, <1>8, <1>9

\* A released caller returns.
LEMMA DoneSteps ==
    ASSUME ReaderInv, NEW c \in Callers, WaitDone(c)
    PROVE  ReaderInv'
<1> USE DEF ReaderInv
<1>1. UNCHANGED <<latest, view, shutdown, refresh_timeout, refresh_waiters,
                  refresher, opener, unread>>
      /\ caller[c].pc = "released" /\ caller' = [caller EXCEPT ![c] = NotWaiting]
  BY DEF WaitDone
<1>2. Typed'
  BY <1>1 DEF Typed, NotWaiting
<1>3. WaitersExact' /\ CallersHold'
  BY <1>1 DEF Typed, WaitersExact, CallersHold, NotWaiting
<1>4. SnapsExist' /\ ExitClean' /\ PromptInv'
  BY <1>1 DEF SnapsExist, ExitClean, PromptInv
<1> QED BY <1>2, <1>3, <1>4

\* Every step keeps the invariant.
LEMMA NextReader == ReaderInv /\ [Next]_vars => ReaderInv'
<1> SUFFICES ASSUME ReaderInv, [Next]_vars PROVE ReaderInv'
  OBVIOUS
<1>1. CASE UNCHANGED vars
  BY <1>1 DEF vars, ReaderInv, Typed, WaitersExact, CallersHold, SnapsExist,
              ExitClean, PromptInv
<1>2. CASE Step
  BY <1>2, QuietRefresher, QuietOthers, InstallSteps, ReleaseSteps, WaitSteps, DoneSteps
     DEF Step, RefresherStep, OpenerStep, CloserStep, CallerStep
<1> QED BY <1>1, <1>2 DEF Next

-----------------------------------------------------------------------------
\* The invariant holds in every reachable state.
LEMMA ReaderInvariant == Spec => []ReaderInv
  BY InitReader, NextReader, PTL DEF Spec

\* A caller that asks the refresh thread to wake up does not sit through a long
\* backoff (refresh_entry_, wait_for_newer_view), whatever the timeouts are.
THEOREM ReaderPrompt == Spec => []PromptRead
<1>1. ReaderInv => PromptRead
  BY DEF ReaderInv, PromptInv, PromptRead
<1> QED BY <1>1, ReaderInvariant, PTL

\* When the refresh thread has ended (refresh_entry_ on shutdown), no caller of
\* wait_for_newer_view waits for it.
THEOREM ReaderLeavesNobody == Spec => []NobodyLeftBehind
<1>1. ReaderInv => NobodyLeftBehind
  BY DEF ReaderInv, ExitClean, WaitersExact, NobodyLeftBehind
<1> QED BY <1>1, ReaderInvariant, PTL

-----------------------------------------------------------------------------
\* The first state of the reader is one of the contract.
LEMMA InitRefines == Init => Abstract!Init
  BY DEF Init, Abstract!Init, NotWaiting

\* The steps that change the view the client uses, or that others publish.
LEMMA ViewStepsRefine ==
    ASSUME ReaderInv, ProposeView \/ RefresherInstall \/ OpenerInstall
    PROVE  [Abstract!Next]_(Abstract!vars)
<1>1. CASE ProposeView
  BY <1>1 DEF ProposeView, Abstract!Next, Abstract!Publish
<1>2. CASE RefresherInstall \/ OpenerInstall
  <2>1. UNCHANGED <<latest, caller, shutdown>>
    BY <1>2 DEF RefresherInstall, OpenerInstall
  <2>2. view' \in Nat /\ view' >= view /\ view' <= latest
    BY <1>2, InstallSteps DEF ReaderInv, Typed
  <2>3. view' = view \/ view' \in view + 1 .. latest
    BY <2>2 DEF ReaderInv, Typed
  <2> QED BY <2>1, <2>3 DEF Abstract!Next, Abstract!Install, Abstract!vars
<1> QED BY <1>1, <1>2

\* The steps of a caller.
LEMMA CallStepsRefine ==
    ASSUME ReaderInv, NEW c \in Callers, CallerStep(c)
    PROVE  Abstract!Wait(c) \/ Abstract!Return(c)
<1>1. /\ caller[c].pc = "idle" <=> caller[c].epoch = 0
      /\ caller[c].pc = "released" => view > caller[c].epoch \/ shutdown
  BY DEF ReaderInv, CallersHold
<1>2. caller \in [Callers ->
                    [pc : {"idle", "waiting", "released"}, epoch : Nat]]
  BY DEF ReaderInv, Typed
<1>3. CASE WaitDone(c)
  <2>1. [d \in Callers |-> caller'[d].epoch] =
          [[d \in Callers |-> caller[d].epoch] EXCEPT ![c] = 0]
    BY <1>2, <1>3 DEF WaitDone, NotWaiting
  <2> QED BY <1>1, <1>3, <2>1 DEF WaitDone, Abstract!Return
<1>4. CASE \E wakeup \in BOOLEAN : WaitForNewerView(c, wakeup)
  <2>1. PICK e \in 1 .. view :
           caller' = [caller EXCEPT ![c] = [pc |-> "waiting", epoch |-> e]]
    BY <1>4 DEF WaitForNewerView
  <2>2. [d \in Callers |-> caller'[d].epoch] =
          [[d \in Callers |-> caller[d].epoch] EXCEPT ![c] = e]
    BY <1>2, <2>1
  <2>3. /\ UNCHANGED <<latest, view, shutdown>>
        /\ ~shutdown /\ caller[c].pc = "idle"
    BY <1>4 DEF WaitForNewerView
  <2> QED BY <1>1, <2>2, <2>3 DEF Abstract!Wait
<1> QED BY <1>3, <1>4 DEF CallerStep

\* The other steps leave the contract's state alone, or close it.
LEMMA OtherStepsRefine ==
    ASSUME ReaderInv,
           \/ RefresherSleep \/ RefresherTimeout \/ RefresherAwake
           \/ RefresherExit \/ RefresherRead \/ RefresherReadFails
           \/ RefresherView \/ RefresherScan
           \/ OpenerRead \/ OpenerReadFails \/ OpenerCheck
           \/ ShutdownSet \/ CloserStep
    PROVE  [Abstract!Next]_(Abstract!vars)
<1>1. CASE RefresherExit \/ RefresherScan
  <2>1. \A c \in Callers : caller'[c].epoch = caller[c].epoch
    BY <1>1, ReleaseSteps
  <2>2. UNCHANGED <<latest, view, shutdown>>
    BY <1>1 DEF RefresherExit, RefresherScan
  <2> QED BY <2>1, <2>2 DEF Abstract!vars
<1>2. CASE ShutdownSet
  BY <1>2 DEF ShutdownSet, Abstract!Next, Abstract!Close
<1>3. CASE UNCHANGED <<latest, view, shutdown, caller>>
  BY <1>3 DEF Abstract!vars
<1> QED BY <1>1, <1>2, <1>3, QuietRefresher
        DEF OpenerRead, OpenerReadFails, OpenerCheck, CloserStep,
            ShutdownNotify, ShutdownJoin

\* Every step of the reader is a step of the contract, or leaves it alone.
LEMMA StepRefines ==
    ReaderInv /\ [Next]_vars => [Abstract!Next]_(Abstract!vars)
<1> SUFFICES ASSUME ReaderInv, [Next]_vars
             PROVE  [Abstract!Next]_(Abstract!vars)
  OBVIOUS
<1>1. CASE UNCHANGED vars
  BY <1>1 DEF vars, Abstract!vars
<1>2. CASE \E c \in Callers : CallerStep(c)
  BY <1>2, CallStepsRefine DEF Abstract!Next
<1>3. CASE Step /\ ~(\E c \in Callers : CallerStep(c))
  BY <1>3, ViewStepsRefine, OtherStepsRefine
     DEF Step, RefresherStep, OpenerStep
<1> QED BY <1>1, <1>2, <1>3 DEF Next

\* The view reader implements NewerView: however reads of the backend, scans,
\* timeouts and calls interleave, the active view only moves forward and
\* wait_for_newer_view returns only for a newer view, or on shutdown.
THEOREM ReaderImplements == Spec => ImplementsNewerView
  BY ReaderInvariant, InitRefines, StepRefines, PTL
     DEF Spec, ImplementsNewerView, Abstract!Spec
==============================================================================
